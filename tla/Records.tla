------------------------------ MODULE Records ------------------------------
(***************************************************************************)
(* What a topic is made of: records and record batches                     *)
(* (protocol/recordBatch), the older message sets (protocol/messageSet,    *)
(* protocol/message), how the records of a fetch response are decoded      *)
(* (fetch/v4/decodeMessages.js), and how the consumer makes a Batch of     *)
(* them that hides aborted transactions (consumer/batch.js,                *)
(* consumer/filterAbortedMessages.js).                                     *)
(*                                                                         *)
(* A message given to the producer is [key, value, headers, timestamp]:    *)
(* key and value are bytes or Null, headers the sequence of its            *)
(* [key, value] pairs, timestamp a positive number or NoTime. Gzip and the *)
(* checksums are external: compressed bytes are marked, and nothing checks *)
(* a checksum.                                                             *)
(***************************************************************************)
EXTENDS Codec, FiniteSets

NoTime == -1
None == 0
GZIP == 1
MAGIC_BYTE == 2
MAGIC_OFFSET == 16
RECORD_BATCH_OVERHEAD == 49
TRANSACTIONAL_MASK == 16
CONTROL_FLAG_MASK == 32
LOG_APPEND_TIME == 8

checksum(bytes) == <<0, 0, 0, 0>>
compress(bytes) == <<31>> \o bytes
decompress(bytes) == Tail(bytes)

\* lookupCodecByAttributes: only gzip is built in.
Compressed(attributes) == attributes % 8 # None

\* Is the bit of a mask set?
Has(attributes, mask) == (attributes \div mask) % 2 = 1

\* The loops below.
RECURSIVE Digits(_), DigitsBefore(_, _), decodeRecords(_, _, _, _, _, _), BatchesAt(_, _, _)
RECURSIVE AfterRecord(_, _, _, _, _, _), AfterBatch(_, _, _)
RECURSIVE InnerEntries(_, _, _), AfterInner(_, _, _), MessageSetDecoder(_, _, _), AfterEntry(_, _, _)

-----------------------------------------------------------------------------
\* A record and a batch of them, written.

HeaderLayout == <<Field("key", "varintString"), Field("value", "varintBytes")>>

RecordLayout ==
  <<Field("attributes", "int8"), Field("timestampDelta", "varlong"), Field("offsetDelta", "varint"),
    Field("key", "varintBytes"), Field("value", "varintBytes"),
    Items("headers", "varintArray", HeaderLayout)>>

sizeOfHeaders(headers) ==
  FoldLeft(LAMBDA size, h : size + sizeOfVarIntBytes(h.key) + sizeOfVarIntBytes(h.value),
           sizeOfVarInt(Word(Len(headers), 32)), headers)

Record(message, offsetDelta, timestampDelta) ==
  LET delta == Word(offsetDelta, 32)
      time == Word(timestampDelta, 64)
      sizeOfBody == 1 + sizeOfVarLong(time) + sizeOfVarInt(delta) + sizeOfVarIntBytes(message.key)
                      + sizeOfVarIntBytes(message.value) + sizeOfHeaders(message.headers)
  IN  VarInt(sizeOfBody)
        \o Encode(RecordLayout, [attributes |-> 0, timestampDelta |-> time, offsetDelta |-> delta,
                                 key |-> message.key, value |-> message.value,
                                 headers |-> message.headers])

BatchLayout ==
  <<Field("attributes", "int16"), Field("lastOffsetDelta", "int32"),
    Field("firstTimestamp", "int64"), Field("maxTimestamp", "int64"), Field("producerId", "int64"),
    Field("producerEpoch", "int16"), Field("firstSequence", "int32")>>

\* b holds the fields of the batch; records are the bytes of each record.
RecordBatch(b, records) ==
  LET body == Encode(BatchLayout, b)
                \o IF ~Compressed(b.attributes) THEN writeArray(records)
                   ELSE writeInt32(Len(records)) \o compress(Flattened(records))
  IN  writeInt64(Word(0, 64))
        \o writeBytes(writeInt32(0) \o writeInt8(MAGIC_BYTE) \o checksum(body) \o body)

\* Array.prototype.sort without a comparison sorts numbers by their digits.
Digits(n) == IF n < 10 THEN <<n>> ELSE Append(Digits(n \div 10), n % 10)

DigitsBefore(a, b) ==
  IF a = <<>> \/ b = <<>> THEN a = <<>>
  ELSE a[1] < b[1] \/ (a[1] = b[1] /\ DigitsBefore(Tail(a), Tail(b)))

Sorted(times) == SetToSortSeq(times, LAMBDA a, b : a # b /\ DigitsBefore(Digits(a), Digits(b)))

\* partitionsEncoder of the Produce requests from version 3 on.
ProducedBatch(messages, compression, transactional, producerId, dateNow) ==
  LET given == {messages[i].timestamp : i \in DOMAIN messages} \ {NoTime}
      timestamps == IF given = {} THEN <<dateNow>> ELSE Sorted(given)
      time(m) == IF m.timestamp \in {NoTime, 0} THEN dateNow ELSE m.timestamp
      records == Evaluated([i \in DOMAIN messages |->
                   Record(messages[i], i - 1, time(messages[i]) - timestamps[1])])
  IN  RecordBatch([attributes |-> compression + IF transactional THEN TRANSACTIONAL_MASK ELSE 0,
                   lastOffsetDelta |-> Len(records) - 1,
                   firstTimestamp |-> Word(timestamps[1], 64),
                   maxTimestamp |-> Word(timestamps[Len(timestamps)], 64),
                   producerId |-> Word(producerId, 64), producerEpoch |-> 0, firstSequence |-> 0],
                  records)

-----------------------------------------------------------------------------
\* A message set, written.

\* Message v0 and v1: the second has a timestamp.
Message(version, compression, key, value, timestamp) ==
  LET content == writeInt8(version) \o writeInt8(compression)
                   \o (IF version = 1 THEN writeInt64(Word(timestamp, 64)) ELSE <<>>)
                   \o writeBytes(key) \o writeBytes(value)
  IN  checksum(content) \o content

\* Each entry is the bytes of a message, preceded by an offset and its size. Only compressed
\* messages have offsets.
MessageSet(isCompressed, entries) ==
  Flattened([i \in DOMAIN entries |->
    writeInt64(Word(IF isCompressed THEN i - 1 ELSE -1, 64)) \o writeInt32(Len(entries[i]))
      \o entries[i]])

\* partitionsEncoder of the Produce requests up to version 2. Versions 0 and 1 do not compress,
\* and leave out the compression: their entries are numbered as if they were compressed.
ProducedSet(version, messages, compression, dateNow) ==
  LET time(m) == IF m.timestamp = NoTime THEN dateNow ELSE m.timestamp
      magic == IF version = 2 THEN 1 ELSE 0
      entries == Evaluated([i \in DOMAIN messages |->
                   Message(magic, None, messages[i].key, messages[i].value, time(messages[i]))])
  IN  IF version < 2 THEN MessageSet(TRUE, entries)
      ELSE IF compression = None THEN MessageSet(FALSE, entries)
      ELSE MessageSet(TRUE, <<Message(1, compression, Null, compress(MessageSet(TRUE, entries)),
                                      time(messages[1]))>>)

-----------------------------------------------------------------------------
\* Both, read. A decoded message has every field; those its format lacks are as given here.

headersOf(pairs) ==
  [k \in {pairs[i].key : i \in DOMAIN pairs} |->
     LET ofKey == SelectSeq(pairs, LAMBDA p : p.key = k)
     IN  [i \in DOMAIN ofKey |-> ofKey[i].value]]

\* RecordDecoder, given the fields that were read.
RecordOf(r, batch, firstOffset) ==
  LET first == IF Has(batch.attributes, LOG_APPEND_TIME) THEN batch.maxTimestamp
               ELSE batch.firstTimestamp
      delta == IF Has(batch.attributes, LOG_APPEND_TIME) THEN 0 ELSE Signed(r.timestampDelta)
  IN  [offset |-> firstOffset + Signed(r.offsetDelta), timestamp |-> Signed(first) + delta,
       key |-> r.key, value |-> r.value, headers |-> headersOf(r.headers),
       isControlRecord |-> Has(batch.attributes, CONTROL_FLAG_MASK),
       inTransaction |-> Has(batch.attributes, TRANSACTIONAL_MASK),
       producerId |-> Signed(batch.producerId)]

ReadBatchLayout ==
  <<Field("partitionLeaderEpoch", "int32"), Field("magicByte", "int8"), Field("crc", "int32")>>
    \o BatchLayout \o <<Field("count", "int32")>>

\* decodeRecord, for the number of records the batch has.
decodeRecords(buf, at, n, batch, firstOffset, records) ==
  IF n <= 0 THEN records
  ELSE AfterRecord(buf, readVarIntBytes(buf, at), n - 1, batch, firstOffset, records)
AfterRecord(buf, r, n, batch, firstOffset, records) ==
  decodeRecords(buf, r.at, n, batch, firstOffset,
                Append(records, RecordOf(Decode(RecordLayout, r.v, 1).v, batch, firstOffset)))

\* KafkaJSPartialMessageError.
Partial(remaining, length) == remaining < length

\* The records of a batch, behind its length; h is what precedes them.
RecordsOf(decoder, h, firstOffset) ==
  LET body == SubSeq(decoder, h.at, Len(decoder))
  IN  decodeRecords(IF Compressed(h.v.attributes) THEN decompress(body) ELSE body, 1, h.v.count,
                    h.v, firstOffset, <<>>)

\* A record batch: its records (or that it is partial) and the position after it; h is its offset
\* and its length.
RecordBatchAt(buf, h) ==
  LET decoder == slice(buf, h.at, h.v.length)
  IN  IF Partial(Len(decoder), h.v.length) THEN [partial |-> TRUE]
      ELSE [partial |-> FALSE, at |-> h.at + h.v.length,
            records |-> RecordsOf(decoder, Decode(ReadBatchLayout, decoder, 1),
                                  Signed(h.v.firstOffset))]

RecordBatchDecoder(buf, at) ==
  RecordBatchAt(buf, Decode(<<Field("firstOffset", "int64"), Field("length", "int32")>>, buf, at))

\* The batches of a response, up to the first that is not complete.
BatchesAt(buf, at, records) ==
  IF ~canReadBytes(buf, at, RECORD_BATCH_OVERHEAD) THEN records
  ELSE AfterBatch(buf, RecordBatchDecoder(buf, at), records)
AfterBatch(buf, batch, records) ==
  IF batch.partial THEN records ELSE BatchesAt(buf, batch.at, records \o batch.records)

\* An entry of a message set, with its message; only the second version has a timestamp.
EntryLayout(magic) ==
  <<Field("offset", "int64"), Field("size", "int32"), Field("crc", "int32"),
    Field("magicByte", "int8"), Field("attributes", "int8")>>
    \o (IF magic = 1 THEN <<Field("timestamp", "int64")>> ELSE <<>>)
    \o <<Field("key", "bytes"), Field("value", "bytes")>>

\* EntryDecoder, given what was read at its place: "partial" also when the message is of the new
\* format, at which the message set ends.
EntryAt(buf, at, e) ==
  IF \/ ~canReadBytes(buf, at, 12)
     \/ Partial(Len(slice(buf, at + 12, e.v.size)), e.v.size)
     \/ e.v.magicByte \notin {0, 1}
  THEN [partial |-> TRUE]
  ELSE [partial |-> FALSE, at |-> e.at, magic |-> e.v.magicByte, attributes |-> e.v.attributes,
        message |-> [offset |-> Signed(e.v.offset),
                     timestamp |-> IF e.v.magicByte = 1 THEN Signed(e.v.timestamp) ELSE NoTime,
                     key |-> e.v.key, value |-> e.v.value, headers |-> <<>>,
                     isControlRecord |-> FALSE, inTransaction |-> FALSE, producerId |-> -1]]

EntryDecoder(buf, at) ==
  EntryAt(buf, at, Decode(EntryLayout(ByteAt(buf, at + MAGIC_OFFSET)), buf, at))

InnerEntries(buf, at, messages) ==
  IF at > Len(buf) THEN messages
  ELSE AfterInner(buf, EntryDecoder(buf, at), messages)
AfterInner(buf, e, messages) == InnerEntries(buf, e.at, Append(messages, e.message))

\* Mutant: the offsets inside a compressed message are taken as they are.
InnerOffsetsKept(entry) == InnerEntries(decompress(entry.message.value), 1, <<>>)

\* EntriesDecoder: the messages inside a compressed one are numbered from its start; its own
\* offset is that of the last of them.
Rebased(entry, messages) ==
  LET base == IF entry.magic > 0 /\ entry.message.offset >= 0
              THEN entry.message.offset - messages[Len(messages)].offset ELSE 0
  IN  [i \in DOMAIN messages |-> [messages[i] EXCEPT !.offset = @ + base]]
EntriesDecoder(entry) == Rebased(entry, InnerEntries(decompress(entry.message.value), 1, <<>>))

MessageSetDecoder(buf, at, messages) ==
  IF at > Len(buf) THEN messages
  ELSE AfterEntry(buf, EntryDecoder(buf, at), messages)
AfterEntry(buf, e, messages) ==
  IF e.partial THEN messages
  ELSE MessageSetDecoder(buf, e.at, messages \o
         IF Compressed(e.attributes) THEN EntriesDecoder(e) ELSE <<e.message>>)

decodeMessages(buf) ==
  IF buf = <<>> THEN <<>>
  ELSE IF readInt8(buf, MAGIC_OFFSET + 1).v = MAGIC_BYTE THEN BatchesAt(buf, 1, <<>>)
  ELSE MessageSetDecoder(buf, 1, <<>>)

-----------------------------------------------------------------------------
\* The consumer's batch.

ABORTED_MESSAGE_KEY == <<0, 0, 0, 0>>

\* Any message with this key, a control record or not.
isAbortMarker(message) == message.key = ABORTED_MESSAGE_KEY

\* The transactions still ahead, the producers inside an aborted one, and the messages kept so far.
FilterMessage(f, message) ==
  LET entered == f.ahead # <<>> /\ message.offset >= f.ahead[1].firstOffset
      current == IF entered THEN f.current \cup {f.ahead[1].producerId} ELSE f.current
      hidden == message.producerId \in current /\ message.inTransaction
  IN  [ahead |-> IF entered THEN Tail(f.ahead) ELSE f.ahead,
       current |-> IF isAbortMarker(message) THEN current \ {message.producerId} ELSE current,
       kept |-> IF ~isAbortMarker(message) /\ hidden THEN f.kept ELSE Append(f.kept, message)]

filterAbortedMessages(messages, abortedTransactions) ==
  FoldLeft(FilterMessage, [ahead |-> abortedTransactions, current |-> {}, kept |-> <<>>],
           messages).kept

WithinOffset(message, fetchedOffset) == message.offset >= fetchedOffset

Batch(fetchedOffset, rawMessages, abortedTransactions) ==
  LET within == SelectSeq(rawMessages, LAMBDA m : WithinOffset(m, fetchedOffset))
  IN  SelectSeq(filterAbortedMessages(within, abortedTransactions), LAMBDA m : ~m.isControlRecord)
=============================================================================

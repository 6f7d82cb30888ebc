------------------------------- MODULE Codec -------------------------------
(***************************************************************************)
(* The encoder and the decoder of the wire (protocol/encoder.js,           *)
(* protocol/decoder.js, utils/long.js) at the width the code works with:   *)
(* numbers are words, sequences of bits with the least significant first,  *)
(* because JavaScript's bit operators truncate to 32 bits and Long is a    *)
(* BigInt. An encoder is the sequence of the bytes it wrote; a decoder is  *)
(* a buffer and a position, and every read returns the value with the      *)
(* position after it. Positions start at 1. A read that passes the end of  *)
(* the buffer raises or returns a piece: it leaves the position beyond     *)
(* Len(buf) + 1 (Overrun).                                                 *)
(*                                                                         *)
(* The last part reads and writes whole messages from a layout: the list   *)
(* of the fields of a message, each with its name and its type.            *)
(***************************************************************************)
EXTENDS Integers, Sequences, SequencesExt, TLC

\* The same sequence, for TLC to evaluate once and not at every use.
Evaluated(seq) == seq \o <<>>
Flattened(seqs) == FlattenSeq(Evaluated(seqs))

\* The number of a word, without a sign.
Num(word) ==
  LET upTo[i \in 0..Len(word)] == IF i = 0 THEN 0 ELSE upTo[i - 1] + word[i] * 2^(i - 1)
  IN  upTo[Len(word)]

\* The word of a small number, and the small number of a word, in two's complement.
\* TLC's own numbers have 32 bits.
Word(n, width) ==
  Evaluated([i \in 1..width |-> IF i <= 31 THEN (n \div 2^(i - 1)) % 2 ELSE IF n < 0 THEN 1 ELSE 0])

Signed(word) ==
  LET top == Min({Len(word) - 1, 31})
      half == word[Len(word)] * 2^(top - 1)
  IN  (Num(SubSeq(word, 1, top)) - half) - half

\* The operators of the language: <<, >>>, >> and ^.
Fill(bit, k) == [i \in 1..k |-> bit]
Shl(w, k) == Fill(0, k) \o SubSeq(w, 1, Len(w) - k)
Shr(w, k) == SubSeq(w, k + 1, Len(w)) \o Fill(0, k)
Sar(w, k) == SubSeq(w, k + 1, Len(w)) \o Fill(w[Len(w)], k)
Xor(v, w) == Evaluated([i \in DOMAIN w |-> (v[i] + w[i]) % 2])

\* A Long is a BigInt: nothing is lost on the left. Wide enough for what the codec computes.
LongWidth == 72
Long(word) == word \o Fill(word[Len(word)], LongWidth - Len(word))
toInt64(long) == SubSeq(long, 1, 64)

\* Network order.
Bytes(word) ==
  Evaluated([k \in 1..(Len(word) \div 8) |->
               Num(SubSeq(word, Len(word) - 8 * k + 1, Len(word) - 8 * k + 8))])

WordOf(bytes) ==
  Evaluated([i \in 1..(8 * Len(bytes)) |->
               (bytes[Len(bytes) - ((i - 1) \div 8)] \div 2^((i - 1) % 8)) % 2])

\* null: no byte has this value.
Null == <<-1>>

\* The loops below.
RECURSIVE writeUVarInt(_), VarLongBytes(_), VarIntSize(_), VarLongSize(_)
RECURSIVE VarIntAt(_, _, _, _), UVarIntAt(_, _, _, _), VarLongAt(_, _, _, _), SkipTags(_, _, _)
RECURSIVE Encode(_, _), Decode(_, _, _), DecodeItems(_, _, _, _), AfterItem(_, _, _, _, _)

-----------------------------------------------------------------------------
\* Encoder

\* Mutant: the sign is not folded in, so a negative number takes every bit of the word.
noZigZag(w) == w

encodeZigZag(w) == Xor(Shl(w, 1), Sar(w, 31))

encodeZigZag64(w) == Xor(Shl(Long(w), 1), Sar(Long(w), 63))

\* Is there more than seven bits, under the mask of a 32 or 64 bit number?
More(w, width) == \E i \in 8..width : w[i] = 1

Low7(w) == Num(SubSeq(w, 1, 7))

writeUVarInt(w) ==
  IF More(w, 32) THEN <<Low7(w) + 128>> \o writeUVarInt(Shr(w, 7)) ELSE <<Low7(w)>>

writeVarInt(w) == writeUVarInt(encodeZigZag(w))

VarLongBytes(long) ==
  IF More(long, 64) THEN <<Low7(long) + 128>> \o VarLongBytes(Sar(long, 7)) ELSE <<Low7(long)>>

writeVarLong(w) == VarLongBytes(encodeZigZag64(w))

VarIntSize(w) == IF More(w, 32) THEN 1 + VarIntSize(Shr(w, 7)) ELSE 1

sizeOfVarInt(w) == VarIntSize(encodeZigZag(w))

VarLongSize(long) == IF More(long, 64) THEN 1 + VarLongSize(Sar(long, 7)) ELSE 1

sizeOfVarLong(w) == VarLongSize(encodeZigZag64(w))

writeInt8(n) == Bytes(Word(n, 8))
writeInt16(n) == Bytes(Word(n, 16))
writeInt32(n) == Bytes(Word(n, 32))
writeInt64(w) == Bytes(SubSeq(w, 33, 64)) \o Bytes(SubSeq(w, 1, 32))
writeBoolean(b) == IF b THEN writeInt8(1) ELSE writeInt8(0)

VarInt(n) == writeVarInt(Word(n, 32))
UVarInt(n) == writeUVarInt(Word(n, 32))

sizeOfVarIntBytes(s) ==
  IF s = Null THEN sizeOfVarInt(Word(-1, 32)) ELSE sizeOfVarInt(Word(Len(s), 32)) + Len(s)

writeString(s) == IF s = Null THEN writeInt16(-1) ELSE writeInt16(Len(s)) \o s
writeVarIntString(s) == IF s = Null THEN VarInt(-1) ELSE VarInt(Len(s)) \o s
writeUVarIntString(s) == IF s = Null THEN UVarInt(0) ELSE UVarInt(Len(s) + 1) \o s
writeBytes(s) == IF s = Null THEN writeInt32(-1) ELSE writeInt32(Len(s)) \o s
writeVarIntBytes(s) == IF s = Null THEN VarInt(-1) ELSE VarInt(Len(s)) \o s
writeUVarIntBytes(s) == IF s = Null THEN VarInt(0) ELSE UVarInt(Len(s) + 1) \o s

\* Arrays of encoders, each the bytes of an item. An empty nullable array is null; no request
\* here has a compact array that is.
writeArray(items) == writeInt32(Len(items)) \o Flattened(items)
writeNullableArray(items) == IF items = <<>> THEN writeInt32(-1) ELSE writeArray(items)
writeVarIntArray(items) == VarInt(Len(items)) \o Flattened(items)
writeUVarIntArray(items) == UVarInt(Len(items) + 1) \o Flattened(items)

\* A UUID is a sequence of 16 bytes; null is all zeros.
NilUUID == [i \in 1..16 |-> 0]
writeUUID(u) == IF u = Null THEN NilUUID ELSE u

-----------------------------------------------------------------------------
\* Decoder

Overrun(buf, at) == at > Len(buf) + 1

\* What a read past the end leaves behind.
Raise(buf, v) == [v |-> v, at |-> Len(buf) + 2]

\* A byte past the end is undefined, which counts as 0 to the bit operators.
ByteAt(buf, at) == IF at \in DOMAIN buf THEN buf[at] ELSE 0

slice(buf, at, length) == SubSeq(buf, at, Min({at + length - 1, Len(buf)}))

canReadBytes(buf, at, length) == Len(buf) - at + 1 >= length

ReadWord(buf, at, size) ==
  [v |-> WordOf(Evaluated([i \in 1..size |-> ByteAt(buf, at + i - 1)])), at |-> at + size]

Number(r) == [r EXCEPT !.v = Signed(@)]

readInt8(buf, at) == Number(ReadWord(buf, at, 1))
readInt16(buf, at) == Number(ReadWord(buf, at, 2))
readInt32(buf, at) == Number(ReadWord(buf, at, 4))
readInt64(buf, at) == ReadWord(buf, at, 8)
readBoolean(buf, at) == [readInt8(buf, at) EXCEPT !.v = (@ = 1)]

decodeZigZag(w) == Xor(Shr(w, 1), Fill(w[1], Len(w)))

decodeZigZag64(long) == toInt64(Xor(Sar(long, 1), Fill(long[1], LongWidth)))

\* The seven bits of a byte, put i bits further left.
Septet(buf, at, i, width) == Shl(Word(ByteAt(buf, at) % 128, width), i)

\* Bits that do not overlap: the sum and the disjunction are the same.
Or(v, w) == Evaluated([i \in DOMAIN w |-> Max({v[i], w[i]})])

\* The number r followed by a length that is one more than the length meant.
LessOne(r) == [r EXCEPT !.v = @ - 1]

VarIntAt(buf, at, i, result) ==
  LET sum == Or(result, Septet(buf, at, i % 32, 32))
  IN  IF ByteAt(buf, at) >= 128 THEN VarIntAt(buf, at + 1, i + 7, sum)
      ELSE [v |-> sum, at |-> at + 1]

readVarInt(buf, at) ==
  [VarIntAt(buf, at, 0, Word(0, 32)) EXCEPT !.v = decodeZigZag(@)]

UVarIntAt(buf, at, i, result) ==
  LET sum == Or(result, Septet(buf, at, i, 32))
  IN  IF ByteAt(buf, at) < 128 THEN [v |-> sum, at |-> at + 1]
      ELSE IF i + 7 > 28 THEN Raise(buf, sum) ELSE UVarIntAt(buf, at + 1, i + 7, sum)

readUVarInt(buf, at) == UVarIntAt(buf, at, 0, Word(0, 32))

VarLongAt(buf, at, i, result) ==
  IF i > 63 THEN Raise(buf, result)
  ELSE LET sum == Or(result, Septet(buf, at, i, LongWidth))
       IN  IF ByteAt(buf, at) >= 128 THEN VarLongAt(buf, at + 1, i + 7, sum)
           ELSE [v |-> sum, at |-> at + 1]

readVarLong(buf, at) ==
  [VarLongAt(buf, at, 0, Word(0, LongWidth)) EXCEPT !.v = decodeZigZag64(@)]

\* What follows a length that was read: the slice, and the position after it. No one writes a
\* length below -1.
Sized(buf, length) ==
  IF length.v = -1 THEN [v |-> Null, at |-> length.at]
  ELSE IF length.v < -1 THEN Raise(buf, Null)
  ELSE [v |-> slice(buf, length.at, length.v), at |-> length.at + length.v]

readString(buf, at) == Sized(buf, readInt16(buf, at))
readVarIntString(buf, at) == Sized(buf, Number(readVarInt(buf, at)))
readBytes(buf, at) == Sized(buf, readInt32(buf, at))
readVarIntBytes(buf, at) == Sized(buf, Number(readVarInt(buf, at)))

readUVarIntString(buf, at) ==
  Sized(buf, LessOne(Number(readUVarInt(buf, at))))

\* The slice is one byte longer than the value; the position is right.
SizedLong(buf, length) ==
  IF length.v = 0 THEN [v |-> Null, at |-> length.at]
  ELSE [v |-> slice(buf, length.at, length.v), at |-> length.at + length.v - 1]
readUVarIntBytes(buf, at) == SizedLong(buf, Number(readUVarInt(buf, at)))

\* How a broker reads the same bytes.
BytesOfBroker(buf, at) == readUVarIntString(buf, at)

\* The tagged fields of a message are skipped: a tag and readUVarIntBytes for each.
SkipTags(buf, at, n) ==
  IF n <= 0 \/ Overrun(buf, at) THEN [v |-> Null, at |-> at]
  ELSE SkipTags(buf, readUVarIntBytes(buf, readUVarInt(buf, at).at).at, n - 1)

TagsAfter(buf, n) == SkipTags(buf, n.at, n.v)
readTaggedFields(buf, at) == TagsAfter(buf, Number(readUVarInt(buf, at)))

readUUID(buf, at) ==
  LET u == slice(buf, at, 16) IN [v |-> IF u = NilUUID THEN Null ELSE u, at |-> at + 16]

\* The bytes of the records in a response: no record when the size is not positive, or greater
\* than what is left.
Records(buf, size) ==
  IF size.v <= 0 \/ ~canReadBytes(buf, size.at, size.v) THEN [v |-> <<>>, at |-> size.at]
  ELSE Sized(buf, size)

-----------------------------------------------------------------------------
\* Messages by their layout: a field of a plain type, or an array of items that have a layout.

Field(name, type) == [name |-> name, type |-> type, of |-> <<>>]
Items(name, type, of) == [name |-> name, type |-> type, of |-> of]

Write(type, v) ==
  CASE type = "int8" -> writeInt8(v)
    [] type = "int16" -> writeInt16(v)
    [] type = "int32" -> writeInt32(v)
    [] type = "int64" -> writeInt64(v)
    [] type = "varint" -> writeVarInt(v)
    [] type = "uvarint" -> writeUVarInt(v)
    [] type = "varlong" -> writeVarLong(v)
    [] type = "boolean" -> writeBoolean(v)
    [] type = "uuid" -> writeUUID(v)
    [] type = "string" -> writeString(v)
    [] type = "varintString" -> writeVarIntString(v)
    [] type = "compactString" -> writeUVarIntString(v)
    [] type \in {"bytes", "records"} -> writeBytes(v)
    [] type = "varintBytes" -> writeVarIntBytes(v)
    [] type \in {"compactBytes", "compactRecords", "brokerBytes"} -> writeUVarIntBytes(v)
    [] type = "raw" -> v
    [] type = "tags" -> writeUVarIntBytes(Null)

WriteItems(type, items) ==
  CASE type = "array" -> writeArray(items)
    [] type = "nullableArray" -> writeNullableArray(items)
    [] type = "varintArray" -> writeVarIntArray(items)
    [] type = "compactArray" -> writeUVarIntArray(items)

Read(type, buf, at) ==
  CASE type = "int8" -> readInt8(buf, at)
    [] type = "int16" -> readInt16(buf, at)
    [] type = "int32" -> readInt32(buf, at)
    [] type = "int64" -> readInt64(buf, at)
    [] type = "varint" -> readVarInt(buf, at)
    [] type = "uvarint" -> readUVarInt(buf, at)
    [] type = "varlong" -> readVarLong(buf, at)
    [] type = "boolean" -> readBoolean(buf, at)
    [] type = "uuid" -> readUUID(buf, at)
    [] type = "string" -> readString(buf, at)
    [] type = "varintString" -> readVarIntString(buf, at)
    [] type = "compactString" -> readUVarIntString(buf, at)
    [] type = "bytes" -> readBytes(buf, at)
    [] type = "varintBytes" -> readVarIntBytes(buf, at)
    [] type = "compactBytes" -> readUVarIntBytes(buf, at)
    [] type = "brokerBytes" -> BytesOfBroker(buf, at)
    [] type = "records" -> Records(buf, readInt32(buf, at))
    [] type = "compactRecords" ->
         Records(buf, LessOne(Number(readUVarInt(buf, at))))
    [] type = "tags" -> readTaggedFields(buf, at)

\* The number of items of an array; -1 when it is null, which counts as empty below.
ReadCount(type, buf, at) ==
  CASE type \in {"array", "nullableArray"} -> readInt32(buf, at)
    [] type = "varintArray" -> Number(readVarInt(buf, at))
    [] type = "compactArray" -> LessOne(Number(readUVarInt(buf, at)))

Encode(layout, message) ==
  Flattened([i \in DOMAIN layout |->
    LET f == layout[i]
    IN  IF f.type = "tags" THEN Write("tags", Null)
        ELSE IF f.of = <<>> THEN Write(f.type, message[f.name])
        ELSE LET items == message[f.name]
             IN  WriteItems(f.type, Evaluated([k \in DOMAIN items |-> Encode(f.of, items[k])]))])

\* n more items follow; item is the one just read.
DecodeItems(layout, buf, n, items) ==
  IF n.v <= 0 \/ Overrun(buf, n.at) THEN [v |-> items, at |-> n.at]
  ELSE AfterItem(layout, buf, Decode(layout, buf, n.at), n.v - 1, items)
AfterItem(layout, buf, item, n, items) ==
  DecodeItems(layout, buf, [v |-> n, at |-> item.at], Append(items, item.v))

\* The message r with a field that was read after it.
With(r, f, read) ==
  [v |-> IF f.type = "tags" THEN r.v ELSE (f.name :> read.v) @@ r.v, at |-> read.at]

Decode(layout, buf, at) ==
  FoldLeft(LAMBDA r, f :
             With(r, f, IF f.of = <<>> THEN Read(f.type, buf, r.at)
                        ELSE DecodeItems(f.of, buf, ReadCount(f.type, buf, r.at), <<>>)),
           [v |-> <<>>, at |-> at], layout)
=============================================================================

------------------------------ MODULE Session ------------------------------
(***************************************************************************)
(* A client and a broker that talk in bytes. The client connects           *)
(* (broker/index.js: connect, apiVersions), logs in                        *)
(* (broker/saslAuthenticator, protocol/sasl), and then sends requests: it  *)
(* produces messages, fetches them back (consumer/batch.js) and asks the   *)
(* other requests of Client. Everything passes through Encode and          *)
(* Decode: the client writes with its layouts and the broker reads with    *)
(* its own, and the other way round for the response. An action is one     *)
(* request with its response; how requests of one connection interleave,   *)
(* time out and are cut into chunks is the subject of Connection.          *)
(*                                                                         *)
(* The broker is external. It reads and answers in the version of the      *)
(* request, ApiVersions in a version it does not have included, and sends  *)
(* tagged fields (none) behind the header of every flexible response,      *)
(* which is what the client's decoders expect.                             *)
(*                                                                         *)
(* Hash functions are injective on what they are given; nonces, salts and  *)
(* passwords are single bytes.                                             *)
(***************************************************************************)
EXTENDS Protocol, Records

CONSTANTS
  Client,    \* the layouts of the client's messages: by request and version, see Messages
  Broker,    \* the layouts of a broker's, see BrokerMessages
  apiKeys,   \* the keys of the requests on the wire
  Servers,   \* brokers: the highest version of every request they have
  Logins,    \* how the login may go, and how long the log may grow then: see LoginOK
  Inputs,    \* what may be produced at once: [messages, compression, producer], 0 is no producer
  Cuts,      \* bytes a broker leaves out at the end of the records it sends
  Words      \* by type, values to be written and read back

VARIABLES
  server,    \* one of Servers
  login,     \* one of Logins
  phase,     \* "versions", "handshake", "login", "final", "ready" or "failed"
  candidate, \* the version of ApiVersions that is tried next
  versions,  \* what the client knows of the server: the highest version by request
  challenge, \* the server's first message of SCRAM, as the client parsed it
  log,       \* the partition: what was appended, in order
  misread,   \* messages that one side wrote and the other read differently
  got,       \* the last fetch: the offset, the batch, and what it should have been
  echo       \* the last word that was written and read back

vars == <<server, login, phase, candidate, versions, challenge, log, misread, got, echo>>
connection == <<server, login, phase, candidate, versions, challenge>>

Nothing == [v |-> Null]
Password == 7
Nonce == 5
DateNow == 100
minIterations == 16   \* 4096, in units of 256

-----------------------------------------------------------------------------
\* One request and its response.

\* The fields of a message that a layout has.
RECURSIVE Only(_, _)
Only(layout, message) ==
  LET fields == {f \in Range(layout) : f.type # "tags"}
  IN  [name \in {f.name : f \in fields} |->
        LET f == CHOOSE f \in fields : f.name = name
        IN  IF f.of = <<>> THEN message[name]
            ELSE [i \in DOMAIN message[name] |-> Only(f.of, message[name][i])]]

\* What the client writes, what the broker reads of it, and what the client reads of the reply.
Request(api, v, request) == Encode(Client[api].request[v + 1], request)
Heard(api, v, bytes) == Decode(Broker[api][v].request, bytes, 1)
Answer(api, v, reply) ==
  Decode(Client[api].response[v + 1], Encode(Broker[api][v].response, reply), 1).v

\* Does the broker read what was meant, to the last byte? Does the client read what was answered?
RequestRead(api, v, bytes, meant) ==
  Heard(api, v, bytes) = [v |-> Only(Broker[api][v].request, meant), at |-> Len(bytes) + 1]
ResponseRead(api, v, reply) == Answer(api, v, reply) = Only(Client[api].response[v + 1], reply)

Note(api, v, request, meant, reply) ==
  misread' = misread
    \cup (IF RequestRead(api, v, Request(api, v, request), meant) THEN {}
          ELSE {<<api, v, "request">>})
    \cup (IF ResponseRead(api, v, reply) THEN {} ELSE {<<api, v, "response">>})

\* lookupRequest: an API the broker does not have raises.
Supported(api) == api \in DOMAIN versions
Version(api) == lookup(versions[api], 0..(Len(Client[api].request) - 1))

-----------------------------------------------------------------------------
\* connect

ApiVersionsReply(v) ==
  LET key(api) == apiKeys[api]
      offered == SelectSeq([k \in 1..37 |-> k - 1], LAMBDA k : \E api \in DOMAIN server : key(api) = k)
      max(k) == server[CHOOSE api \in DOMAIN server : key(api) = k]
  IN  [errorCode |-> IF v <= server["ApiVersions"] THEN 0 ELSE 35,
       apiVersions |-> IF v > server["ApiVersions"] THEN <<>>
                       ELSE [i \in DOMAIN offered |-> [apiKey |-> offered[i], minVersion |-> 0,
                                                       maxVersion |-> max(offered[i])]],
       throttleTime |-> 0]

\* The list of versions of a response as the client keeps it.
KnownVersions(list) ==
  [api \in {a \in DOMAIN apiKeys : \E i \in DOMAIN list : list[i].apiKey = apiKeys[a]} |->
     (CHOOSE e \in Range(list) : e.apiKey = apiKeys[api]).maxVersion]

NextCandidate(v) == v - 1

\* The versions of the first answer that is no error are kept.
OnApiVersions(answer) ==
  IF answer.errorCode = 0
  THEN /\ versions' = KnownVersions(answer.apiVersions)
       /\ phase' = IF login.mechanism = "" THEN "ready" ELSE "handshake"
       /\ UNCHANGED candidate
  ELSE /\ candidate' = NextCandidate(candidate)
       /\ phase' = IF answer.errorCode = 35 /\ candidate > 0 THEN "versions" ELSE "failed"
       /\ UNCHANGED versions

apiVersions ==
  /\ phase = "versions"
  /\ LET request == [clientSoftwareName |-> <<107>>, clientSoftwareVersion |-> <<49>>]
         reply == ApiVersionsReply(candidate)
     IN  /\ Note("ApiVersions", candidate, request, request, reply)
         /\ OnApiVersions(Answer("ApiVersions", candidate, reply))
  /\ UNCHANGED <<server, login, challenge, log, got, echo>>

-----------------------------------------------------------------------------
\* authenticate

Mechanism(name) == <<Len(name)>>

Enabled(answer, mechanism) ==
  answer.errorCode = 0 /\ [name |-> mechanism] \in Range(answer.enabledMechanisms)

\* SASLAuthenticator.authenticate up to the authentication provider: the handshake.
handshake ==
  /\ phase = "handshake"
  /\ IF ~Supported("SaslHandshake") THEN phase' = "failed" /\ UNCHANGED misread
     ELSE LET v == Version("SaslHandshake")
              request == [mechanism |-> Mechanism(login.mechanism)]
              reply == [errorCode |-> IF login.enabled THEN 0 ELSE 33,
                        enabledMechanisms |->
                          IF login.enabled THEN <<[name |-> <<0>>], [name |-> request.mechanism]>>
                          ELSE <<[name |-> <<0>>]>>]
          IN  /\ Note("SaslHandshake", v, request, request, reply)
              /\ phase' = IF Enabled(Answer("SaslHandshake", v, reply), request.mechanism)
                          THEN "login" ELSE "failed"
  /\ UNCHANGED <<server, login, candidate, versions, challenge, log, got, echo>>

\* saslAuthenticate: what the mechanism says is written with its size (request.encode), and goes
\* out as it is (sendAuthRequest), or within a SaslAuthenticate request when the broker has it.
\* Reading the answer, the client puts the size back for the mechanism to take off again.
Protocolled == Supported("SaslAuthenticate")

SaslHeard(payload) ==
  IF Protocolled
  THEN LET v == Version("SaslAuthenticate")
       IN  Heard("SaslAuthenticate", v, Request("SaslAuthenticate", v,
             [authBytes |-> writeBytes(payload)])).v.authBytes
  ELSE readBytes(writeBytes(payload), 1).v

SaslReply(accepted, payload) ==
  [errorCode |-> IF accepted THEN 0 ELSE 58, errorMessage |-> Null, authBytes |-> payload,
   sessionLifetimeMs |-> Word(0, 64)]

\* Does the call succeed, and what does the mechanism read? A broker without SaslAuthenticate
\* closes the connection instead of reporting an error.
SaslRead(answer) ==
  [ok |-> answer.errorCode = 0, payload |-> readBytes(writeBytes(answer.authBytes), 1).v]
SaslAnswer(accepted, payload) ==
  IF Protocolled
  THEN SaslRead(Answer("SaslAuthenticate", Version("SaslAuthenticate"),
                       SaslReply(accepted, payload)))
  ELSE [ok |-> accepted, payload |-> readBytes(writeBytes(payload), 1).v]

SaslNote(said, accepted, payload) ==
  IF Protocolled
  THEN Note("SaslAuthenticate", Version("SaslAuthenticate"), [authBytes |-> writeBytes(said)],
            [authBytes |-> said], SaslReply(accepted, payload))
  ELSE UNCHANGED misread

\* PLAIN, AWS and OAUTHBEARER: one message, and any answer that is not an error will do.
oneMessage ==
  /\ phase = "login" /\ login.mechanism # "SCRAM-SHA-256"
  /\ LET said == <<0, Password>>
         accepted == SaslHeard(said) = <<0, login.password>>
     IN  /\ SaslNote(said, accepted, <<>>)
         /\ phase' = IF SaslAnswer(accepted, <<>>).ok THEN "ready" ELSE "failed"
  /\ UNCHANGED <<server, login, candidate, versions, challenge, log, got, echo>>

\* The response of SCRAM: nonce, salt and iterations, or the signature (v) or an error (e).
FirstResponse(data) ==
  [r |-> SubSeq(data, 1, 2), s |-> data[3], i |-> data[4], original |-> data]

firstMessageBare == <<110, Nonce>>

sendClientFirstMessage ==
  /\ phase = "login" /\ login.mechanism = "SCRAM-SHA-256"
  /\ LET accepted == SaslHeard(firstMessageBare) = firstMessageBare
         said == <<login.nonce, 9, 3, login.iterations>>
         answer == SaslAnswer(accepted, said)
     IN  /\ SaslNote(firstMessageBare, accepted, said)
         /\ IF answer.ok THEN phase' = "final" /\ challenge' = FirstResponse(answer.payload)
            ELSE phase' = "failed" /\ UNCHANGED challenge
  /\ UNCHANGED <<server, login, candidate, versions, log, got, echo>>

finalMessageWithoutProof(first) == <<99>> \o first.r

authMessage(first) == firstMessageBare \o first.original \o finalMessageWithoutProof(first)

\* saltPassword, and the keys and signatures made from it.
saltPassword(password, first) == <<password, first.s, first.i>>
clientProof(password, first) == <<1>> \o saltPassword(password, first) \o authMessage(first)
serverSignature(password, first) == <<2>> \o saltPassword(password, first) \o authMessage(first)

\* Mutant: what the server says last is not looked at.
AnySignature(answer, first) == answer.ok

\* The end of authenticate: no error in the answer, and the signature only the server can make.
SignatureOK(answer, first) ==
  /\ answer.ok
  /\ answer.payload # Null
  /\ answer.payload = <<118>> \o serverSignature(Password, first)

\* sendClientFinalMessage
FreshNonce(first) == first.r[1] = Nonce
EnoughIterations(first) == first.i >= minIterations

sendClientFinalMessage ==
  /\ phase = "final"
  /\ IF ~FreshNonce(challenge) \/ ~EnoughIterations(challenge)
     THEN phase' = "failed" /\ UNCHANGED misread
     ELSE LET said == finalMessageWithoutProof(challenge) \o clientProof(Password, challenge)
              proof == clientProof(login.password, challenge)
              right == SaslHeard(said) = finalMessageWithoutProof(challenge) \o proof
              answered == IF right \/ login.lenient
                          THEN <<118>> \o serverSignature(login.password, challenge) ELSE <<101>>
          IN  /\ SaslNote(said, TRUE, answered)
              /\ phase' = IF SignatureOK(SaslAnswer(TRUE, answered), challenge) THEN "ready"
                          ELSE "failed"
  /\ UNCHANGED <<server, login, candidate, versions, challenge, log, got, echo>>

-----------------------------------------------------------------------------
\* The log. An entry is what a broker stores as one: a record batch, or a message of a message
\* set. It has its bytes, its first offset, the messages in it, the producer of its transaction
\* (0: none), and how that transaction stands.

NextOffset == IF log = <<>> THEN 0 ELSE LET e == log[Len(log)] IN e.first + Len(e.messages)

\* A broker writes the offset over the first eight bytes: the first of a batch, the last of a set.
Stamped(bytes, first, count) ==
  writeInt64(Word(IF bytes[MAGIC_OFFSET + 1] = MAGIC_BYTE THEN first ELSE first + count - 1, 64))
    \o SubSeq(bytes, 9, Len(bytes))

\* The entries of a message set.
RECURSIVE Entries(_)
Entries(bytes) ==
  IF bytes = <<>> THEN <<>>
  ELSE LET end == 12 + readInt32(bytes, 9).v
       IN  <<SubSeq(bytes, 1, end)>> \o Entries(SubSeq(bytes, end + 1, Len(bytes)))

Appended(bytes, messages, producer) ==
  LET entries == IF bytes[MAGIC_OFFSET + 1] = MAGIC_BYTE THEN <<bytes>> ELSE Entries(bytes)
      whole == Len(entries) = 1
  IN  [i \in DOMAIN entries |->
        LET first == NextOffset + i - 1
            held == IF whole THEN messages ELSE <<messages[i]>>
        IN  [bytes |-> Stamped(entries[i], first, Len(held)), first |-> first, messages |-> held,
             producer |-> producer, state |-> IF producer = 0 THEN "committed" ELSE "open"]]

OneTopic(partition) == <<[topic |-> <<116>>, partitions |-> <<partition>>]>>

\* Broker.produce
produce(input) ==
  /\ phase = "ready" /\ Supported("Produce") /\ got = Nothing /\ echo = Nothing
  /\ Len(log) < login.maxLog
  /\ LET v == Version("Produce")
         bytes == IF v < 3 THEN ProducedSet(v, input.messages, input.compression, DateNow)
                  ELSE ProducedBatch(input.messages, input.compression, input.producer # 0,
                                     input.producer, DateNow)
         request == [transactionalId |-> IF input.producer = 0 THEN Null ELSE <<84>>, acks |-> -1,
                     timeout |-> 30000, topics |-> OneTopic([partition |-> 0, records |-> bytes])]
         reply == [topics |-> OneTopic(
                     [partition |-> 0, errorCode |-> 0, baseOffset |-> Word(NextOffset, 64),
                      logAppendTime |-> Word(-1, 64), logStartOffset |-> Word(0, 64),
                      recordErrors |-> <<>>, errorMessage |-> Null]),
                   throttleTime |-> 0]
     IN  /\ v < 3 => input.producer = 0
         /\ Note("Produce", v, request, request, reply)
         /\ log' = IF <<"Produce", v, "request">> \in misread' THEN log
                   ELSE log \o Appended(bytes, input.messages, input.producer)
  /\ UNCHANGED <<connection, got, echo>>

\* The broker ends a transaction: a control batch with one record, whose key says how.
ControlBatch(producer, key) ==
  RecordBatch([attributes |-> TRANSACTIONAL_MASK + CONTROL_FLAG_MASK, lastOffsetDelta |-> 0,
               firstTimestamp |-> Word(DateNow, 64), maxTimestamp |-> Word(DateNow, 64),
               producerId |-> Word(producer, 64), producerEpoch |-> 0, firstSequence |-> -1],
              <<Record([key |-> key, value |-> <<0, 0>>, headers |-> <<>>], 0, 0)>>)

EndTransaction(producer, result) ==
  /\ phase = "ready" /\ got = Nothing
  /\ \E i \in DOMAIN log : log[i].producer = producer /\ log[i].state = "open"
  /\ LET key == IF result = "aborted" THEN <<0, 0, 0, 0>> ELSE <<0, 0, 0, 1>>
         bytes == ControlBatch(producer, key)
         ended == [i \in DOMAIN log |->
                     IF log[i].producer = producer /\ log[i].state = "open"
                     THEN [log[i] EXCEPT !.state = result] ELSE log[i]]
     IN  log' = Append(ended, [bytes |-> Stamped(bytes, NextOffset, 1), first |-> NextOffset,
                               messages |-> <<Nothing>>, producer |-> producer,
                               state |-> "marker"])
  /\ UNCHANGED <<connection, misread, got, echo>>

-----------------------------------------------------------------------------
\* fetch

LastOffset(e) == e.first + Len(e.messages) - 1

RECURSIVE Whole(_, _)

\* Entries from the one that holds the offset up to the first open transaction.
Stable == {i \in DOMAIN log : \A k \in 1..i : log[k].state # "open"}
Sent(offset) ==
  SelectSeq([i \in DOMAIN log |-> i], LAMBDA i : i \in Stable /\ LastOffset(log[i]) >= offset)

SentBytes(offset, cut) ==
  LET bytes == Flattened([k \in DOMAIN Sent(offset) |-> log[Sent(offset)[k]].bytes])
  IN  SubSeq(bytes, 1, Max({0, Len(bytes) - cut}))

\* The aborted transactions that reach into what is sent, by their first offset.
MarkerOf(i) ==
  Min({k \in DOMAIN log : k > i /\ log[k].state = "marker" /\ log[k].producer = log[i].producer})
FirstOf(i) ==
  /\ log[i].state = "aborted"
  /\ \A k \in 1..(i - 1) : log[k].state = "aborted" /\ log[k].producer = log[i].producer
                             => MarkerOf(k) < i
AbortedAt(offset) ==
  LET firsts == SelectSeq([i \in DOMAIN log |-> i],
                          LAMBDA i : FirstOf(i) /\ i \in Stable /\ log[MarkerOf(i)].first >= offset)
  IN  [k \in DOMAIN firsts |-> [producerId |-> Word(log[firsts[k]].producer, 64),
                                firstOffset |-> Word(log[firsts[k]].first, 64)]]

\* What a consumer should see: the committed messages of the entries that were sent whole.
Whole(entries, size) ==
  IF entries = <<>> \/ Len(log[entries[1]].bytes) > size THEN <<>>
  ELSE <<entries[1]>> \o Whole(Tail(entries), size - Len(log[entries[1]].bytes))

\* A message that was produced, as it should be read: message sets know no headers, and only
\* their second version has timestamps.
AsRead(offset, m, v) ==
  [offset |-> offset, key |-> m.key, value |-> m.value,
   headers |-> IF v < 3 THEN <<>> ELSE headersOf(m.headers),
   timestamp |-> IF v < 2 THEN NoTime ELSE IF m.timestamp = NoTime THEN DateNow ELSE m.timestamp]

DueOf(e) ==
  IF e.state # "committed" THEN <<>>
  ELSE [k \in DOMAIN e.messages |-> AsRead(e.first + k - 1, e.messages[k], Version("Produce"))]

Due(offset, whole) ==
  SelectSeq(Flattened([k \in DOMAIN whole |-> DueOf(log[whole[k]])]), LAMBDA m : m.offset >= offset)

\* What the consumer makes of the partition in the response, and the fields of it that users see.
Known(t) == [producerId |-> Signed(t.producerId), firstOffset |-> Signed(t.firstOffset)]
AbortedIn(partition, v) ==
  IF v < 4 THEN <<>>
  ELSE [k \in DOMAIN partition.abortedTransactions |-> Known(partition.abortedTransactions[k])]

Public(messages) ==
  [k \in DOMAIN messages |->
     LET m == messages[k]
     IN  [offset |-> m.offset, key |-> m.key, value |-> m.value, headers |-> m.headers,
          timestamp |-> m.timestamp]]

Received(offset, v, partition) ==
  Public(Batch(offset, decodeMessages(partition.records), AbortedIn(partition, v)))

\* Does the log hold a user's message that looks like the marker of an abort? And does the fetch
\* start inside two aborted transactions?
Lookalike == \E i \in DOMAIN log : \E k \in DOMAIN log[i].messages :
               log[i].state # "marker" /\ log[i].messages[k].key = ABORTED_MESSAGE_KEY
InsideTwo(offset) ==
  LET open == {t \in Range(AbortedAt(offset)) : Signed(t.firstOffset) <= offset}
  IN  Cardinality(open) > 1

\* Broker.fetch, and the batch the consumer makes of the answer.
fetch(offset, cut) ==
  /\ phase = "ready" /\ Supported("Fetch") /\ got = Nothing /\ echo = Nothing
  /\ LET v == Version("Fetch")
         request == [replicaId |-> -1, maxWaitTime |-> 5000, minBytes |-> 1, maxBytes |-> 10485760,
                     isolationLevel |-> 1, sessionId |-> 0, sessionEpoch |-> -1, rackId |-> <<>>,
                     topics |-> OneTopic([partition |-> 0, currentLeaderEpoch |-> -1,
                       fetchOffset |-> Word(offset, 64), lastFetchedEpoch |-> -1,
                       logStartOffset |-> Word(-1, 64), maxBytes |-> 1048576]),
                     forgottenTopics |-> <<>>]
         reply == [throttleTime |-> 0, errorCode |-> 0, sessionId |-> 0,
                   topics |-> OneTopic([partition |-> 0, errorCode |-> 0,
                     highWatermark |-> Word(NextOffset, 64),
                     lastStableOffset |-> Word(NextOffset, 64), lastStartOffset |-> Word(0, 64),
                     abortedTransactions |-> AbortedAt(offset), preferredReadReplica |-> -1,
                     records |-> SentBytes(offset, cut)])]
     IN  /\ Note("Fetch", v, request, request, reply)
         /\ got' = [messages |->
                      Received(offset, v, Answer("Fetch", v, reply).topics[1].partitions[1]),
                    due |-> Due(offset, Whole(Sent(offset), Len(SentBytes(offset, cut)))),
                    special |-> Lookalike \/ InsideTwo(offset)]
  /\ UNCHANGED <<connection, log, echo>>

-----------------------------------------------------------------------------
\* The other requests of Broker, with sample values by which every field can be told apart:
\* shape 0 has the least (empty arrays, nulls, negative numbers), shape n arrays of n items.

RECURSIVE Sample(_, _, _)
SampleOf(type, n, shape) ==
  CASE type = "int8" -> IF shape = 0 THEN -1 ELSE n % 100
    [] type = "int16" -> IF shape = 0 THEN -1 ELSE 300 + n
    [] type = "int32" -> IF shape = 0 THEN -2 ELSE 70000 + n
    [] type = "int64" -> IF shape = 0 THEN Word(-n, 64) ELSE Word(1000 + n, 64)
    [] type = "boolean" -> shape = 1
    [] type \in {"string", "compactString"} -> IF shape = 0 THEN Null ELSE <<65 + (n % 60)>>
    [] OTHER -> IF shape = 0 THEN <<>> ELSE <<n % 250, 0>>

Sample(layout, n, shape) ==
  LET fields == {i \in DOMAIN layout : layout[i].type # "tags"}
  IN  [name \in {layout[i].name : i \in fields} |->
        LET i == CHOOSE i \in fields : layout[i].name = name
            f == layout[i]
        IN  IF f.of = <<>> THEN SampleOf(f.type, n + i, shape)
            ELSE [k \in 1..shape |-> Sample(f.of, n + 10 * k + i, shape)]]

Asked == DOMAIN Client \ {"Produce", "Fetch", "ApiVersions", "SaslHandshake", "SaslAuthenticate"}

\* A method of Broker that is not modelled by an action of its own: look up the version, send the
\* request and decode the response.
ask(api, shape) ==
  /\ phase = "ready" /\ Supported(api) /\ log = <<>> /\ got = Nothing /\ echo = Nothing
  /\ LET v == Version(api)
         request == Sample(Broker[api][v].request, 0, shape)
         reply == Sample(Broker[api][v].response, 0, shape)
     IN  Note(api, v, request, request, reply)
  /\ UNCHANGED <<connection, log, got, echo>>

\* A word is written, and read back.
transfer(type, value) ==
  /\ phase = "ready" /\ log = <<>> /\ got = Nothing /\ misread = {} /\ echo = Nothing
  /\ LET bytes == Write(type, value)
         read == Read(type, bytes \o <<255>>, 1)
     IN  echo' = [sent |-> value, read |-> read.v, at |-> read.at, length |-> Len(bytes),
                  size |-> CASE type = "varint" -> sizeOfVarInt(value)
                             [] type = "varlong" -> sizeOfVarLong(value)
                             [] type = "varintBytes" -> sizeOfVarIntBytes(value)
                             [] OTHER -> Len(bytes)]
  /\ UNCHANGED <<connection, log, misread, got>>

-----------------------------------------------------------------------------
LoginOK(l) ==
  /\ l.mechanism \in {"", "PLAIN", "AWS", "OAUTHBEARER", "SCRAM-SHA-256"}
  /\ l.enabled \in BOOLEAN /\ l.lenient \in BOOLEAN
  /\ l.password \in Nat /\ l.nonce \in Nat /\ l.iterations \in Nat /\ l.maxLog \in Nat

ASSUME LoginsAssumption == \A l \in Logins : LoginOK(l)

Init ==
  /\ server \in Servers /\ login \in Logins
  /\ phase = "versions" /\ candidate = Len(Client["ApiVersions"].request) - 1
  /\ versions = <<>> /\ challenge = Nothing /\ log = <<>> /\ misread = {}
  /\ got = Nothing /\ echo = Nothing

Next ==
  \/ apiVersions
  \/ handshake
  \/ oneMessage
  \/ sendClientFirstMessage
  \/ sendClientFinalMessage
  \/ \E input \in Inputs : produce(input)
  \/ \E p \in {input.producer : input \in Inputs} \ {0}, result \in {"committed", "aborted"} :
       EndTransaction(p, result)
  \/ \E offset \in 0..NextOffset, cut \in Cuts : fetch(offset, cut)
  \/ \E api \in Asked, shape \in 0..2 : ask(api, shape)
  \/ \E type \in DOMAIN Words : \E value \in Words[type] : transfer(type, value)

Spec == Init /\ [][Next]_vars

-----------------------------------------------------------------------------
\* Whatever versions client and broker settle on, each reads exactly what the other wrote, in
\* every field of every message.
Understood == misread = {}

\* A batch holds the committed messages that were produced, from the offset that was asked for, as
\* far as whole batches arrived, each with its key, value, headers and timestamp: neither the
\* compression, the format, the end of an aborted transaction nor a response that was cut short
\* loses, adds or changes one. Excepted are the two cases in which aborted messages get through.
FetchedIsProduced == got # Nothing => got.special \/ got.messages = got.due

\* After a login by SCRAM the server has shown that it knows the password, for the nonce of this
\* login and with as many iterations as the client insists on.
ServerProven ==
  phase = "ready" /\ login.mechanism = "SCRAM-SHA-256" =>
    login.password = Password /\ login.nonce = Nonce /\ login.iterations >= minIterations

\* Every number and string is read back as it was written, over exactly the bytes written, and
\* takes the bytes that the size of a record counts for it.
ReadsBack ==
  echo # Nothing =>
    echo.read = echo.sent /\ echo.at = echo.length + 1 /\ echo.size = echo.length
=============================================================================

----------------------------- MODULE MCSession -----------------------------
(* Session for TLC. *)
EXTENDS Session, BrokerMessages

\* The broker whose Fetch is version i, with versions of the other requests that go with it: the
\* last two are ahead of the client.
Least(i, n) == Min({i, n})
Generation(i) ==
  [Produce |-> <<0, 1, 2, 2, 3, 4, 5, 6, 7, 8, 8, 8, 8, 8>>[i + 1], Fetch |-> i,
   ListOffsets |-> Least(i, 4), Metadata |-> Least(i, 8), JoinGroup |-> Least(i, 5),
   Heartbeat |-> Least(i, 5), LeaveGroup |-> Least(i, 5), SyncGroup |-> Least(i, 3),
   SaslHandshake |-> Least(i, 2), ApiVersions |-> Least(i \div 3, 4),
   InitProducerId |-> Least(i, 4), AddPartitionsToTxn |-> Least(i, 3),
   AddOffsetsToTxn |-> Least(i, 3), EndTxn |-> Least(i, 3)]
Sasl(i) == ("SaslAuthenticate" :> Least(i - 5, 1)) @@ Generation(i)
MCServers == {Generation(i) : i \in {0, 1, 2, 3, 4}} \cup {Sasl(i) : i \in 5..13}

\* Flexible versions of the requests that the client gets wrong.
MCFlexible == {[Sasl(12) EXCEPT !.SaslAuthenticate = 2], [Sasl(12) EXCEPT !.Produce = 9]}

Login(mechanism, enabled, password, nonce, iterations, lenient) ==
  [mechanism |-> mechanism, enabled |-> enabled, password |-> password, nonce |-> nonce,
   iterations |-> iterations, lenient |-> lenient, maxLog |-> 0]
NoLogin(n) == [Login("", TRUE, 7, 5, 16, FALSE) EXCEPT !.maxLog = n]
MCLogins ==
  {NoLogin(2), Login("SCRAM-SHA-256", FALSE, 7, 5, 16, FALSE)}
    \cup {Login(m, TRUE, p, 5, 16, FALSE) : m \in {"PLAIN", "AWS", "OAUTHBEARER"}, p \in {7, 8}}
    \cup {Login("SCRAM-SHA-256", TRUE, p, n, i, l) :
            p \in {7, 8}, n \in {5, 6}, i \in {15, 16}, l \in BOOLEAN}

Msg(key, value, headers, timestamp) ==
  [key |-> key, value |-> value, headers |-> headers, timestamp |-> timestamp]
Plain == Msg(<<1>>, <<2, 3>>, <<>>, NoTime)
Tomb == Msg(Null, Null, <<[key |-> <<7>>, value |-> <<1>>], [key |-> <<7>>, value |-> <<>>]>>, 9)
Late == Msg(<<>>, <<4>>, <<[key |-> <<8>>, value |-> <<5>>]>>, 10)

Input(messages, compression, producer) ==
  [messages |-> messages, compression |-> compression, producer |-> producer]
MCInputs ==
  {Input(<<Tomb, Late>>, None, 0), Input(<<Late, Plain, Tomb>>, GZIP, 0),
   Input(<<Plain>>, None, 1), Input(<<Plain, Late>>, GZIP, 2)}

MCCuts == {0, 1, 70}

\* Numbers at the edges of seven bits, of 32 and of 64.
W32 == {Word(n, 32) : n \in {0, 1, -1, 63, 64, -64, -65, 8191, 8192, -8193, 2147483647}}
         \cup {[i \in 1..32 |-> IF i = 32 THEN 1 ELSE 0]}
W64 == {Word(n, 64) : n \in {0, 1, -1, 63, -65, 2147483647}}
         \cup {[i \in 1..64 |-> IF i = k THEN 1 ELSE 0] : k \in {32, 33, 63, 64}}
         \cup {[i \in 1..64 |-> IF i = 64 THEN 0 ELSE 1]}
Strings == {Null, <<>>, <<1>>, [i \in 1..63 |-> i], [i \in 1..64 |-> i], [i \in 1..127 |-> i]}
MCWords ==
  [varint |-> W32, uvarint |-> W32, varlong |-> W64, int64 |-> W64,
   int32 |-> {0, -1, 70000, 2147483647}, int16 |-> {0, -1, 32767, -32768},
   int8 |-> {0, -1, 127, -128}, boolean |-> BOOLEAN, uuid |-> {Null, [i \in 1..16 |-> i]},
   string |-> Strings, varintString |-> Strings, compactString |-> Strings, bytes |-> Strings,
   varintBytes |-> Strings]
NoWords == <<>>
=============================================================================

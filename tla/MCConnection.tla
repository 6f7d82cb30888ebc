---------------------------- MODULE MCConnection ----------------------------
(***************************************************************************)
(* Connection with two calls, one of them without a response.              *)
(***************************************************************************)
EXTENDS Connection, TLC

CONSTANTS r1, r2, w1, w2

MCCalls == {r1, r2}
MCOneWay == {r2}
MCWaiters == {w1, w2}
MCRequests == MCCalls \cup {Handshake(k) : k \in Rounds}
                      \cup {SaslAuthenticate(k) : k \in Rounds}
=============================================================================

----------------------------- MODULE MCCluster -----------------------------
(* Two nodes; then node 1 goes, or comes back at another address.            *)
EXTENDS Cluster

CONSTANTS c1, c2, a1, a2, a3, t1, bad

MCStart == [n \in Nodes |-> IF n = 1 THEN a1 ELSE a2]
MCMoves == {[n \in Nodes |-> IF n = 1 THEN a ELSE a2] : a \in {a3, None}}
MCCalls == [c \in Callers |-> IF c = c1 THEN {"add", "coordinator", "connect", "disconnect"}
                               ELSE {"add", "produce"}]
MCSeeds == <<a1, a2>>
=============================================================================

--------------------------- MODULE MCFetchManager ---------------------------
(***************************************************************************)
(* FetchManager with two brokers, three partitions and two workers.  No    *)
(* symmetry: the run checks a liveness property.                           *)
(***************************************************************************)
EXTENDS FetchManager

CONSTANTS n1, n2, p1, p2, p3
=============================================================================

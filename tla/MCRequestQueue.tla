--------------------------- MODULE MCRequestQueue ---------------------------
(***************************************************************************)
(* RequestQueue with four requests, one of them without a response.        *)
(***************************************************************************)
EXTENDS RequestQueue, TLC

CONSTANTS r1, r2, r3, r4, w1, w2

MCRequests == {r1, r2, r3, r4}
MCOneWay == {r4}
MCWaiters == {w1, w2}

\* The three requests with a response, and the waiters, are interchangeable.
MCSymmetry == Permutations({r1, r2, r3}) \cup Permutations(MCWaiters)
=============================================================================

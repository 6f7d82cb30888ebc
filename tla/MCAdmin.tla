------------------------------ MODULE MCAdmin ------------------------------
(***************************************************************************)
(* Two brokers, two items, of which one may name a broker; all operations. *)
(***************************************************************************)
EXTENDS Admin

CONSTANTS n1, n2, i1, i2

AllOperations == DOMAIN Admin
=============================================================================

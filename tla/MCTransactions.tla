--------------------------- MODULE MCTransactions ---------------------------
(***************************************************************************)
(* Applications of the transactional producer.                             *)
(***************************************************************************)
EXTENDS Transactions, TLC

CONSTANTS t1, t2, t3, p1

\* Two transactions to one partition, and one of offsets only.
OneByOne == (t1 :> {p1}) @@ (t2 :> {p1}) @@ (t3 :> {})

\* What the theorems assume of the application.
ASSUME OneEach == OnePartition
=============================================================================

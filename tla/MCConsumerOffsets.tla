------------------------- MODULE MCConsumerOffsets -------------------------
(***************************************************************************)
(* Two partitions, of which the coordinator may take p away.               *)
(***************************************************************************)
EXTENDS ConsumerOffsets

CONSTANTS p, q

\* Record 1 of q is a control record.
ControlInQ == {<<q, 1>>}
=============================================================================

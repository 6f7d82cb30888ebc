------------------------------ MODULE MCGroup ------------------------------
(***************************************************************************)
(* A topic of one partition that may grow to two, one message each, and    *)
(* three kinds of behaviour: two consumers while the topic grows and a     *)
(* request, a session or a handler fails; two consumers, one of which      *)
(* stops and may run again; and one consumer that may crash, restart and   *)
(* be stopped.                                                             *)
(***************************************************************************)
EXTENDS Group, TLC

CONSTANTS c1, c2

MCScenarios ==
    {[runners |-> c1 :> 1 @@ c2 :> 1, grows |-> TRUE, faults |-> 1, stops |-> 0],
     [runners |-> c1 :> 2 @@ c2 :> 1, grows |-> FALSE, faults |-> 0, stops |-> 1],
     [runners |-> c1 :> 3 @@ c2 :> 0, grows |-> FALSE, faults |-> 1, stops |-> 1]}
=============================================================================

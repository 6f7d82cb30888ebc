------------------------- MODULE TransactionsProofs -------------------------
(***************************************************************************)
(* Proofs about the transactional producer, for any number of transactions *)
(* of at most one partition each, with or without offsets, any partitions  *)
(* and any number of timeouts and refused requests: what an aborted        *)
(* transaction wrote is never committed, what a committed one wrote is, and*)
(* nothing is left open between transactions.                              *)
(***************************************************************************)
EXTENDS Transactions, WellFoundedInduction, SequenceTheorems, TLAPS

-----------------------------------------------------------------------------
(***************************************************************************)
(* The inductive invariant                                                 *)
(***************************************************************************)

EndOps == {"commit", "abort"}
Ops == {"init", "add", "addOffsets", "offsetCommit"} \cup EndOps

CoordRequest == [op : Ops, t : Txns, p : Partitions \cup {None}, epoch : Nat,
                 heard : BOOLEAN]
WriteRequest == [op : {"produce"}, t : Txns, p : Partitions, epoch : Nat,
                 heard : BOOLEAN]
Answer == [op : Ops \cup {"produce"}, t : Txns, p : Partitions \cup {None},
           ok : BOOLEAN, epoch : Nat]
Entry == [t : Txns, kind : {"data"}] \cup [t : {None}, kind : EndOps]

TxnTypes ==
    /\ TypeOK
    /\ coordNet \in Seq(CoordRequest)
    /\ partNet \in [Partitions -> Seq(WriteRequest)]
    /\ reply \subseteq Answer
    /\ log \in [Partitions -> Seq(Entry)]

\* A transaction() that has begun and is not over.
Busy(t) == tx[t] \in {"initializing", "initialized", "open", "ending"}

\* The object of t exists, or existed.
Opened(t) == tx[t] \notin {"idle", "initializing", "initialized"}

\* The state machine and the transactions, of which one at most is busy.
ClientOK ==
    /\ \A t, u \in Txns : Busy(t) /\ Busy(u) => t = u
    /\ txnState = "UNINITIALIZED" <=> producerEpoch = 0
    /\ \A t \in Txns :
          /\ tx[t] = "initializing" => producerEpoch = 0
          /\ tx[t] = "initialized" => txnState = "READY"
          /\ tx[t] = "open" => txnState = "TRANSACTING"
          /\ tx[t] = "ending" => txnState \in {"COMMITTING", "ABORTING"}
          /\ outcome[t] # None => tx[t] = "ended"
          /\ didEnd[t] => tx[t] = "ended"

\* The requests of an open transaction: its only task is what send() awaits.
TasksOK ==
    \A t \in Txns :
        /\ call[t] # "none" \/ offs[t] # "none" => Opened(t)
        /\ call[t] = "sending" => tx[t] = "open"
        /\ offs[t] \in {"adding", "committing"} => tx[t] = "open"
        /\ offs[t] # "none" => t \in WithOffsets
        /\ call[t] = "ok" => \A p \in PartsOf[t] : task[t][p] = "done"
        /\ \A p \in Partitions :
              /\ task[t][p] # "none" => p \in PartsOf[t] /\ call[t] # "none"
              /\ task[t][p] \in {"starting", "adding", "producing"} => call[t] = "sending"

\* Writes on their way to p: all of the open transaction, whose task at p
\* repeats them; only the last is awaited, and its response empties the queue.
WritesOK ==
    /\ \A r, s \in reply : r.op = "produce" /\ s.op = "produce" => r = s
    /\ \A p \in Partitions :
        /\ \A i \in 1..Len(partNet[p]) :
              LET q == partNet[p][i]
              IN /\ q.epoch = producerEpoch /\ q.p = p
                 /\ task[q.t][p] \in {"starting", "producing"}
                 /\ p \in added
                 /\ q.heard => i = Len(partNet[p]) /\ task[q.t][p] = "producing"
        /\ \A r \in reply : r.op = "produce" /\ r.p = p =>
              partNet[p] = <<>> /\ task[r.t][p] = "producing"

\* An EndTxn request is the last of the queue.
EndIn(t, op) == coordNet # <<>> /\ coordNet[Len(coordNet)].t = t
                                /\ coordNet[Len(coordNet)].op = op
Ending(t) == \E op \in EndOps : EndIn(t, op)

\* Before the producer id: only InitProducerId requests, the last one awaited.
UninitializedOK ==
    producerEpoch = 0 =>
        /\ ongoing = {} /\ ~ongoingOffsets /\ groupPending = None
        /\ \A p \in Partitions : log[p] = <<>>
        /\ \A i \in 1..Len(coordNet) :
              /\ coordNet[i].op = "init" /\ coordNet[i].p = None
              /\ coordNet[i].heard => i = Len(coordNet) /\ tx[coordNet[i].t] = "initializing"
        /\ \A r \in reply :
              /\ r.op = "init" /\ r.p = None /\ r.ok = TRUE /\ r.epoch = epoch /\ epoch > 0
              /\ coordNet = <<>> /\ tx[r.t] = "initializing"

\* After it: nobody is fenced, and EndTxn is the last request of all.
InitializedOK ==
    producerEpoch # 0 =>
        /\ producerEpoch = epoch
        /\ \A i \in 1..Len(coordNet) :
              LET q == coordNet[i]
              IN /\ q.op # "init" /\ q.epoch = epoch
                 /\ q.op \in EndOps => i = Len(coordNet)
                 /\ q.op = "add" => q.p \in Partitions /\ call[q.t] # "none"
                 /\ q.op # "add" => q.p = None
                 /\ q.op \in {"addOffsets", "offsetCommit"} => Opened(q.t)
                 /\ q.op = "offsetCommit" =>
                       /\ offsetsAdded /\ offs[q.t] \notin {"none", "adding"}
                       /\ tx[q.t] = "open" \/ Ending(q.t)
        /\ \A r \in reply :
              /\ r.op # "init"
              /\ r.op \in {"add", "produce"} => r.p \in Partitions
              /\ r.op \in {"add", "addOffsets", "offsetCommit"} => Opened(r.t)
              /\ r.op # "produce" => r.ok

\* What the coordinator has of the open transaction.
OngoingOK ==
    /\ txnState = "TRANSACTING" \/ (\E t \in Txns : Ending(t)) =>
          added \subseteq ongoing /\ (offsetsAdded => ongoingOffsets)
    /\ groupPending # None =>
          /\ offsetsAdded /\ offs[groupPending] \notin {"none", "adding"}
          /\ tx[groupPending] = "open" \/ Ending(groupPending)
    /\ \A t \in Txns : tx[t] = "open" =>
          /\ \A r \in reply : r.t = t =>
                /\ r.op = "add" => r.p \in ongoing
                /\ r.op = "addOffsets" => ongoingOffsets
                /\ r.op = "offsetCommit" => groupPending = t
          /\ offs[t] = "done" => groupPending = t

\* What the logs have of the open transaction.
LogOK ==
    \A t \in Txns, p \in Partitions :
        /\ Is(t, p, "open") =>
              p \in added /\ p \in ongoing /\ (tx[t] = "open" \/ Ending(t))
        /\ \A f \in {"open", "commit", "abort"} : Is(t, p, f) => call[t] # "none"
        /\ tx[t] = "open" \/ EndIn(t, "abort") => ~Is(t, p, "commit")
        /\ tx[t] = "open" =>
              /\ ~Is(t, p, "abort")
              /\ \A r \in reply : r.t = t /\ r.p = p /\ r.op = "produce" /\ r.ok =>
                    Is(t, p, "open")
              /\ task[t][p] = "done" => Is(t, p, "open")

\* EndTxn on its way, and its response.
EndTxnOK ==
    /\ \A t \in Txns : Ending(t) =>
          /\ tx[t] \in {"ending", "rejected"}
          /\ coordNet[Len(coordNet)].heard => tx[t] = "ending"
          /\ txnState = IF EndIn(t, "commit") THEN "COMMITTING" ELSE "ABORTING"
          /\ added # {} \/ offsetsAdded
          /\ \A r \in reply : r.op \notin EndOps
          /\ EndIn(t, "commit") =>
                /\ \A p \in PartsOf[t] : Is(t, p, "open")
                /\ t \in WithOffsets => groupPending = t
                /\ offs[t] \in {"none", "done"}
    /\ \A r \in reply : r.op \in EndOps =>
          /\ r.p = None /\ r.ok = TRUE /\ r.epoch = epoch
          /\ coordNet = <<>>
          /\ tx[r.t] = "ending"
          /\ txnState = IF r.op = "commit" THEN "COMMITTING" ELSE "ABORTING"
          /\ groupPending = None
          /\ \A t \in Txns, p \in Partitions : ~Is(t, p, "open")
          /\ r.op = "commit" =>
                /\ \A p \in PartsOf[r.t] : Is(r.t, p, "commit")
                /\ r.t \in WithOffsets => groupOffset = r.t /\ offs[r.t] = "done"
          /\ r.op = "abort" => \A p \in Partitions : ~Is(r.t, p, "commit")

\* What is promised of the transactions that have ended.
Promised == AbortedHidden /\ CommittedVisible /\ NothingLeftOpen

TxnInv ==
    /\ TxnTypes /\ ClientOK /\ TasksOK /\ WritesOK /\ UninitializedOK
    /\ InitializedOK /\ OngoingOK /\ LogOK /\ EndTxnOK /\ Promised

-----------------------------------------------------------------------------
(***************************************************************************)
(* The fate of what is in a log                                            *)
(***************************************************************************)

\* Fate and Is of one log.
Markers(lg, i) == {j \in (i + 1)..Len(lg) : lg[j].kind # "data"}
First(lg, i) == CHOOSE j \in Markers(lg, i) : \A k \in Markers(lg, i) : j <= k
FateIn(lg, i) == IF Markers(lg, i) = {} THEN "open" ELSE lg[First(lg, i)].kind
IsIn(lg, t, f) == \E i \in 1..Len(lg) : lg[i].t = t /\ FateIn(lg, i) = f

\* Is of the model is IsIn of the partition's log, in this state and the next.
LEMMA IsOfLog ==
    ASSUME NEW t, NEW p, NEW f
    PROVE  /\ Is(t, p, f) <=> IsIn(log[p], t, f)
           /\ Is(t, p, f)' <=> IsIn(log'[p], t, f)
  BY DEF Is, Fate, IsIn, FateIn, First, Markers

\* Markers after an entry have a first one.
LEMMA FirstMarker ==
    ASSUME NEW lg \in Seq(Entry), NEW i \in Nat, Markers(lg, i) # {}
    PROVE  First(lg, i) \in Markers(lg, i) /\ \A k \in Markers(lg, i) : First(lg, i) <= k
<1>1. Markers(lg, i) \in SUBSET Nat
  BY DEF Markers
<1>2. PICK m \in Markers(lg, i) : \A k \in Markers(lg, i) : <<k, m>> \notin OpToRel(<, Nat)
  BY <1>1, WFMin, NatLessThanWellFounded, Zenon
<1>3. \A k \in Markers(lg, i) : ~(k < m)
  BY <1>1, <1>2, Zenon DEF OpToRel
<1>4. \E j \in Markers(lg, i) : \A k \in Markers(lg, i) : j <= k
  BY <1>1, <1>3
<1> QED
  BY <1>4 DEF First

\* An entry that is appended leaves the fate of those that have one.
LEMMA FateStays ==
    ASSUME NEW lg \in Seq(Entry), NEW e \in Entry, NEW i \in 1..Len(lg),
           Markers(lg, i) # {}
    PROVE  FateIn(Append(lg, e), i) = FateIn(lg, i) /\ FateIn(lg, i) \in EndOps
<1> DEFINE new == Append(lg, e)
<1>1. /\ new \in Seq(Entry) /\ Len(new) = Len(lg) + 1 /\ Len(lg) \in Nat
      /\ \A j \in 1..Len(lg) : new[j] = lg[j]
      /\ i \in Nat
  OBVIOUS
<1> HIDE DEF new
<1>2. /\ Markers(lg, i) \subseteq Markers(new, i)
      /\ Markers(new, i) \subseteq Markers(lg, i) \cup {Len(lg) + 1}
  BY <1>1 DEF Markers
<1>3. Markers(new, i) # {}
  BY <1>2
<1>4. /\ First(lg, i) \in Markers(lg, i) /\ First(lg, i) \in 1..Len(lg)
      /\ \A k \in Markers(lg, i) : First(lg, i) <= k
  <2>1. First(lg, i) \in Markers(lg, i) /\ \A k \in Markers(lg, i) : First(lg, i) <= k
    BY FirstMarker, <1>1
  <2> QED
    BY <2>1, <1>1 DEF Markers
<1>5. /\ First(new, i) \in Markers(new, i) /\ First(new, i) \in 1..Len(new)
      /\ \A k \in Markers(new, i) : First(new, i) <= k
  <2>1. First(new, i) \in Markers(new, i) /\ \A k \in Markers(new, i) : First(new, i) <= k
    BY FirstMarker, <1>1, <1>3
  <2> QED
    BY <2>1, <1>1 DEF Markers
<1>6. First(new, i) <= First(lg, i)
  BY <1>2, <1>4, <1>5
<1>7. First(new, i) \in Markers(lg, i)
  BY <1>1, <1>2, <1>4, <1>5, <1>6
<1>8. First(new, i) = First(lg, i)
  BY <1>1, <1>4, <1>5, <1>6, <1>7
<1>9. new[First(lg, i)] = lg[First(lg, i)]
  BY <1>1, <1>4
<1>10. lg[First(lg, i)] \in Entry /\ lg[First(lg, i)].kind # "data"
  BY <1>4 DEF Markers
<1>11. lg[First(lg, i)].kind \in EndOps
  BY <1>10 DEF Entry
<1> QED
  BY <1>3, <1>8, <1>9, <1>11 DEF FateIn, new

\* The fate of an entry is open as long as no marker is after it, else decided.
LEMMA OpenFate ==
    ASSUME NEW lg \in Seq(Entry), NEW i \in 1..Len(lg)
    PROVE  FateIn(lg, i) = "open" <=> Markers(lg, i) = {}
<1>1. CASE Markers(lg, i) = {}
  BY <1>1 DEF FateIn
<1>2. CASE Markers(lg, i) # {}
  <2>1. First(lg, i) \in Markers(lg, i) /\ i \in Nat
    BY FirstMarker, <1>2
  <2>2. First(lg, i) \in 1..Len(lg) /\ lg[First(lg, i)].kind # "data"
    BY <2>1 DEF Markers
  <2>3. lg[First(lg, i)] \in Entry
    BY <2>2
  <2>4. lg[First(lg, i)].kind \in EndOps
    BY <2>2, <2>3 DEF Entry
  <2> QED
    BY <1>2, <2>4 DEF FateIn, EndOps
<1> QED
  BY <1>1, <1>2

\* A write that is appended is open and changes nothing else.
LEMMA WriteIsOpen ==
    ASSUME NEW lg \in Seq(Entry), NEW u \in Txns, NEW t \in Txns, NEW f
    PROVE  IsIn(Append(lg, [t |-> u, kind |-> "data"]), t, f)
              <=> IsIn(lg, t, f) \/ (t = u /\ f = "open")
<1> DEFINE e == [t |-> u, kind |-> "data"]
           new == Append(lg, e)
<1>1. e \in Entry /\ e.t = u /\ e.kind = "data"
  BY DEF Entry
<1> HIDE DEF e
<1>2. /\ new \in Seq(Entry) /\ Len(new) = Len(lg) + 1 /\ Len(lg) \in Nat
      /\ \A j \in 1..Len(lg) : new[j] = lg[j]
      /\ new[Len(lg) + 1] = e
  BY <1>1
<1>3. ASSUME NEW i \in 1..Len(lg) PROVE FateIn(new, i) = FateIn(lg, i)
  <2>1. CASE Markers(lg, i) = {}
    <3>1. Markers(new, i) = {}
      BY <1>1, <1>2, <2>1 DEF Markers
    <3> QED
      BY <2>1, <3>1 DEF FateIn
  <2>2. CASE Markers(lg, i) # {}
    BY <1>1, <2>2, FateStays
  <2> QED
    BY <2>1, <2>2
<1>4. FateIn(new, Len(lg) + 1) = "open"
  <2>1. Markers(new, Len(lg) + 1) = {}
    BY <1>2 DEF Markers
  <2> QED
    BY <2>1 DEF FateIn
<1> HIDE DEF new
<1>5. IsIn(new, t, f) <=> IsIn(lg, t, f) \/ (t = u /\ f = "open")
  BY <1>1, <1>2, <1>3, <1>4 DEF IsIn
<1> QED
  BY <1>5 DEF new, e

\* A marker that is appended decides what was open and changes nothing else.
LEMMA MarkerDecides ==
    ASSUME NEW lg \in Seq(Entry), NEW k \in EndOps, NEW t \in Txns, NEW f
    PROVE  IsIn(Append(lg, [t |-> None, kind |-> k]), t, f)
              <=> (IsIn(lg, t, f) /\ f # "open") \/ (f = k /\ IsIn(lg, t, "open"))
<1> DEFINE e == [t |-> None, kind |-> k]
           new == Append(lg, e)
<1>1. e \in Entry /\ e.t = None /\ e.kind = k /\ k # "data" /\ k # "open"
  BY DEF Entry, EndOps
<1> HIDE DEF e
<1>2. /\ new \in Seq(Entry) /\ Len(new) = Len(lg) + 1 /\ Len(lg) \in Nat
      /\ \A j \in 1..Len(lg) : new[j] = lg[j]
      /\ new[Len(lg) + 1] = e
  BY <1>1
<1>3. ASSUME NEW i \in 1..Len(lg), Markers(lg, i) = {} PROVE FateIn(new, i) = k
  <2>1. Markers(new, i) = {Len(lg) + 1}
    BY <1>1, <1>2, <1>3 DEF Markers
  <2>2. First(new, i) \in Markers(new, i)
    <3>1. new \in Seq(Entry) /\ i \in Nat /\ Markers(new, i) # {}
      BY <1>2, <2>1
    <3> HIDE DEF new
    <3> QED
      BY <3>1, FirstMarker
  <2> QED
    BY <1>1, <1>2, <2>1, <2>2 DEF FateIn
<1>4. ASSUME NEW i \in 1..Len(lg), Markers(lg, i) # {} PROVE FateIn(new, i) = FateIn(lg, i)
  BY <1>1, <1>4, FateStays
<1>5. t # None
  BY TransactionsAssumption
<1> HIDE DEF new
<1>6. IsIn(new, t, f) <=> (IsIn(lg, t, f) /\ f # "open") \/ (f = k /\ IsIn(lg, t, "open"))
  <2>1. \A i \in 1..Len(lg) : new[i] = lg[i] /\ FateIn(new, i) =
           IF FateIn(lg, i) = "open" THEN k ELSE FateIn(lg, i)
    BY <1>2, <1>3, <1>4, OpenFate
  <2>2. new[Len(lg) + 1].t # t
    BY <1>1, <1>2, <1>5
  <2> QED
    BY <1>1, <1>2, <2>1, <2>2 DEF IsIn
<1> QED
  BY <1>6 DEF new, e

-----------------------------------------------------------------------------
(***************************************************************************)
(* What the steps have in common                                           *)
(***************************************************************************)

\* A step that leaves the logs leaves the fate of all messages.
LEMMA IsSame ==
    ASSUME log' = log
    PROVE  \A t, p, f : Is(t, p, f)' <=> Is(t, p, f)
  BY DEF Is, Fate

\* A step that leaves the coordinator's queue leaves what is at its end.
LEMMA EndSame ==
    ASSUME coordNet' = coordNet
    PROVE  /\ \A t, op : EndIn(t, op)' <=> EndIn(t, op)
           /\ \A t : Ending(t)' <=> Ending(t)
  BY DEF EndIn, Ending

\* The response that is taken is one of those there are.
LEMMA Taken ==
    ASSUME NEW op, NEW t, NEW p, HasResponse(op, t, p)
    PROVE  /\ Response(op, t, p) \in reply
           /\ Response(op, t, p).op = op
           /\ Response(op, t, p).t = t
           /\ Response(op, t, p).p = p
  BY DEF HasResponse, Response

\* The fields of the requests and responses under way.
LEMMA Shapes ==
    ASSUME TxnTypes
    PROVE  /\ \A r \in reply : r \in Answer /\ r.t \in Txns
           /\ coordNet \in Seq(CoordRequest) /\ Len(coordNet) \in Nat
           /\ \A i \in 1..Len(coordNet) : coordNet[i] \in CoordRequest /\ coordNet[i].t \in Txns
<1>1. \A r \in Answer : r.t \in Txns
  BY DEF Answer
<1>2. \A q \in CoordRequest : q.t \in Txns
  BY DEF CoordRequest
<1>3. coordNet \in Seq(CoordRequest) /\ reply \subseteq Answer
  BY DEF TxnTypes
<1>4. \A i \in 1..Len(coordNet) : coordNet[i] \in CoordRequest
  BY <1>3
<1> QED
  BY <1>1, <1>2, <1>3, <1>4

\* The fields of the writes under way.
LEMMA WriteShapes ==
    ASSUME TxnTypes, NEW p \in Partitions
    PROVE  /\ partNet[p] \in Seq(WriteRequest) /\ Len(partNet[p]) \in Nat
           /\ \A i \in 1..Len(partNet[p]) : partNet[p][i] \in WriteRequest
                                           /\ partNet[p][i].t \in Txns
<1>1. partNet[p] \in Seq(WriteRequest)
  BY DEF TxnTypes
<1>2. \A q \in WriteRequest : q.t \in Txns
  BY DEF WriteRequest
<1> QED
  BY <1>1, <1>2

-----------------------------------------------------------------------------
(***************************************************************************)
(* transaction()                                                           *)
(***************************************************************************)

\* A transaction becomes the open one: nothing of it and nothing of the ones
\* before is anywhere.
LEMMA OpensKeeps ==
    ASSUME TxnInv, NEW t \in Txns, tx[t] \in {"idle", "initialized"},
           \A u \in Txns \ {t} : ~Busy(u),
           txnState = "READY", txnState' = "TRANSACTING",
           tx' = [tx EXCEPT ![t] = "open"],
           UNCHANGED <<producerEpoch, added, topicKnown, offsetsAdded, cachedOffset,
                       didEnd, outcome, callVars, netVars, coordVars, log, bounds>>
    PROVE  TxnInv'
<1> USE DEF callVars, netVars, coordVars, bounds
<1>1. /\ tx \in [Txns -> TxStage] /\ producerEpoch # 0 /\ producerEpoch = epoch
      /\ call[t] = "none" /\ offs[t] = "none"
      /\ \A p \in Partitions : task[t][p] = "none"
      /\ \A p \in Partitions, f \in {"open", "commit", "abort"} : ~Is(t, p, f)
      /\ added = {} /\ ~offsetsAdded /\ groupPending = None
  BY DEF TxnInv, TxnTypes, TypeOK, ClientOK, TasksOK, Opened, LogOK, InitializedOK,
         Promised, NothingLeftOpen
<1>2. \A r \in reply : r \in Answer /\ r.op # "init" /\ r.op \notin EndOps /\ r.t # t
  <2>1. SUFFICES ASSUME NEW r \in reply
                 PROVE  r \in Answer /\ r.op # "init" /\ r.op \notin EndOps /\ r.t # t
    OBVIOUS
  <2>2. r \in Answer /\ r.op # "init" /\ r.op \notin EndOps
    BY <1>1 DEF TxnInv, TxnTypes, InitializedOK, EndTxnOK
  <2>3. r.op \in {"add", "addOffsets", "offsetCommit", "produce"}
    BY <2>2 DEF Answer, Ops
  <2>4. r.op = "produce" => r.p \in Partitions /\ task[r.t][r.p] = "producing"
    BY <1>1 DEF TxnInv, InitializedOK, WritesOK
  <2> QED
    BY <1>1, <2>2, <2>3, <2>4 DEF TxnInv, InitializedOK, Opened
<1>3. \A i \in 1..Len(coordNet) : coordNet[i] \in CoordRequest
  BY DEF TxnInv, TxnTypes
<1>4. \A u \in Txns : ~Ending(u)
  BY DEF TxnInv, EndTxnOK
<1>5. TxnTypes'
  BY DEF TxnInv, TxnTypes, TypeOK, States, TxStage
<1>6. ClientOK'
  BY <1>1 DEF TxnInv, ClientOK, Busy
<1>7. TasksOK'
  BY <1>1 DEF TxnInv, TasksOK, Opened
<1>8. WritesOK'
  BY DEF TxnInv, WritesOK
<1>9. UninitializedOK'
  BY <1>1 DEF UninitializedOK
<1>10. InitializedOK'
  <2>1. \A u \in Txns : Opened(u) => Opened(u)'
    BY <1>1 DEF Opened
  <2>2. \A i \in 1..Len(coordNet) : coordNet[i].op # "offsetCommit"
    BY <1>1 DEF TxnInv, InitializedOK
  <2>3. \A r \in reply : r.t \in Txns
    BY <1>2 DEF Answer
  <2>4. \A i \in 1..Len(coordNet) : coordNet[i].t \in Txns
    BY <1>3 DEF CoordRequest
  <2> QED
    BY <1>1, <2>1, <2>2, <2>3, <2>4 DEF TxnInv, InitializedOK
<1>11. OngoingOK'
  <2>1. \A u \in Txns : tx'[u] = "open" => u = t
    BY <1>1 DEF Busy
  <2> QED
    BY <1>1, <1>2, <2>1 DEF OngoingOK
<1>12. LogOK'
  <2>1. \A u \in Txns : tx'[u] = "open" => u = t
    BY <1>1 DEF Busy
  <2>2. \A u \in Txns, p \in Partitions : ~Is(u, p, "open")
    BY DEF TxnInv, Promised, NothingLeftOpen
  <2>3. \A u \in Txns : ~Ending(u)' /\ \A op \in EndOps : ~EndIn(u, op)'
    BY <1>4, EndSame DEF Ending
  <2> QED
    BY <1>1, <1>2, <2>1, <2>2, <2>3, IsSame DEF TxnInv, LogOK, EndOps
<1>13. EndTxnOK'
  BY <1>2, <1>4, EndSame DEF EndTxnOK
<1>14. Promised'
  BY IsSame DEF TxnInv, Promised, AbortedHidden, CommittedVisible, NothingLeftOpen
<1> QED
  BY <1>5, <1>6, <1>7, <1>8, <1>9, <1>10, <1>11, <1>12, <1>13, <1>14 DEF TxnInv

\* A transaction() that is refused at once leaves everything else.
LEMMA RefusedKeeps ==
    ASSUME TxnInv, NEW t \in Txns, tx[t] = "idle", tx' = [tx EXCEPT ![t] = "rejected"],
           UNCHANGED <<managerVars, cachedOffset, didEnd, outcome, callVars, netVars,
                       coordVars, log, bounds>>
    PROVE  TxnInv'
<1> USE DEF managerVars, callVars, netVars, coordVars, bounds
<1>1. /\ tx \in [Txns -> TxStage]
      /\ \A u \in Txns : tx'[u] = IF u = t THEN "rejected" ELSE tx[u]
      /\ \A u \in Txns : Opened(u) => Opened(u)'
  BY DEF TxnInv, TxnTypes, TypeOK, Opened
<1>2. /\ \A r \in reply : r \in Answer /\ r.t \in Txns
      /\ \A i \in 1..Len(coordNet) : coordNet[i] \in CoordRequest /\ coordNet[i].t \in Txns
      /\ groupPending \in Txns \cup {None}
  BY Shapes DEF TxnInv, TxnTypes, TypeOK
<1>3. TxnTypes'
  BY DEF TxnInv, TxnTypes, TypeOK, States, TxStage
<1>4. ClientOK'
  BY <1>1 DEF TxnInv, ClientOK, Busy
<1>5. TasksOK'
  BY <1>1 DEF TxnInv, TasksOK, Opened
<1>6. WritesOK'
  BY DEF TxnInv, WritesOK
<1>7. UninitializedOK'
  BY <1>1, <1>2 DEF TxnInv, UninitializedOK
<1>8. InitializedOK'
  BY <1>1, <1>2, EndSame DEF TxnInv, InitializedOK
<1>9. OngoingOK'
  BY <1>1, <1>2, EndSame DEF TxnInv, OngoingOK
<1>10. LogOK'
  BY <1>1, <1>2, EndSame, IsSame DEF TxnInv, LogOK
<1>11. EndTxnOK'
  BY <1>1, <1>2, EndSame, IsSame DEF TxnInv, EndTxnOK
<1>12. Promised'
  BY IsSame DEF TxnInv, Promised, AbortedHidden, CommittedVisible, NothingLeftOpen
<1> QED
  BY <1>3, <1>4, <1>5, <1>6, <1>7, <1>8, <1>9, <1>10, <1>11, <1>12 DEF TxnInv

\* As long as there is no producer id nothing was sent to a partition.
LEMMA NothingYet ==
    ASSUME TxnInv, producerEpoch = 0
    PROVE  /\ txnState = "UNINITIALIZED" /\ added = {} /\ ~offsetsAdded
           /\ \A u \in Txns : tx[u] \notin {"initialized", "open", "ending"}
           /\ \A u \in Txns : ~Ending(u) /\ \A op \in EndOps : ~EndIn(u, op)
           /\ \A u \in Txns, p \in Partitions, f \in {"open", "commit", "abort"} :
                 ~Is(u, p, f)
           /\ \A p \in Partitions : partNet[p] = <<>>
           /\ \A r \in reply : r.op = "init"
<1>1. /\ txnState = "UNINITIALIZED" /\ added = {} /\ ~offsetsAdded
      /\ \A u \in Txns : tx[u] \notin {"initialized", "open", "ending"}
  BY DEF TxnInv, TxnTypes, TypeOK, ClientOK
<1>2. coordNet \in Seq(CoordRequest) /\ \A i \in 1..Len(coordNet) : coordNet[i].op = "init"
  BY DEF TxnInv, TxnTypes, UninitializedOK
<1>3. \A u \in Txns : ~Ending(u) /\ \A op \in EndOps : ~EndIn(u, op)
  BY <1>2 DEF Ending, EndIn, EndOps
<1>4. \A u \in Txns, p \in Partitions, f \in {"open", "commit", "abort"} : ~Is(u, p, f)
  BY DEF TxnInv, UninitializedOK, Is
<1>5. \A p \in Partitions : partNet[p] = <<>>
  <2>1. \A p \in Partitions : 1..Len(partNet[p]) = {}
    BY <1>1 DEF TxnInv, WritesOK
  <2> QED
    BY <2>1, WriteShapes DEF TxnInv
<1>6. \A r \in reply : r.op = "init"
  BY DEF TxnInv, UninitializedOK
<1> QED
  BY <1>1, <1>3, <1>4, <1>5, <1>6

\* A step before there is a producer id, and after which there is none.
LEMMA StillNothing ==
    ASSUME TxnInv, producerEpoch = 0,
           UNCHANGED <<managerVars, callVars, partNet, outcome, didEnd, log, groupPending,
                       groupOffset>>,
           TxnTypes', ClientOK', UninitializedOK', \A u \in Txns : Opened(u) => Opened(u)'
    PROVE  TxnInv'
<1> USE DEF managerVars, callVars
<1>1. /\ txnState = "UNINITIALIZED" /\ added = {} /\ ~offsetsAdded
      /\ \A u \in Txns : tx[u] \notin {"initialized", "open", "ending"}
      /\ \A u \in Txns : tx'[u] \notin {"initialized", "open", "ending"}
      /\ groupPending = None
  BY NothingYet DEF ClientOK, TxnInv, UninitializedOK
<1>2. \A u \in Txns : ~Ending(u)' /\ \A op \in EndOps : ~EndIn(u, op)'
  <2>1. /\ coordNet' \in Seq(CoordRequest)
        /\ \A i \in 1..Len(coordNet') : coordNet'[i].op = "init"
    BY DEF TxnTypes, UninitializedOK
  <2> QED
    BY <2>1 DEF Ending, EndIn, EndOps
<1>3. \A u \in Txns, p \in Partitions, f \in {"open", "commit", "abort"} : ~Is(u, p, f)'
  BY NothingYet, IsSame
<1>4. \A r \in reply' : r.op = "init"
  BY DEF UninitializedOK
<1>5. TasksOK'
  BY <1>1 DEF TxnInv, TasksOK
<1>6. WritesOK'
  BY <1>4, NothingYet DEF WritesOK
<1>7. InitializedOK'
  BY DEF InitializedOK
<1>8. OngoingOK'
  BY <1>1, <1>2 DEF OngoingOK
<1>9. LogOK'
  BY <1>1, <1>2, <1>3 DEF LogOK
<1>10. EndTxnOK'
  BY <1>2, <1>4 DEF EndTxnOK, EndOps
<1>11. Promised'
  BY <1>1, IsSame DEF TxnInv, Promised, AbortedHidden, CommittedVisible, NothingLeftOpen
<1> QED
  BY <1>5, <1>6, <1>7, <1>8, <1>9, <1>10, <1>11 DEF TxnInv

\* transaction() up to its first await.
LEMMA TransactionKeeps ==
    ASSUME TxnInv, NEW t \in Txns, Transaction(t)
    PROVE  TxnInv'
<1>1. tx[t] = "idle" /\ \A u \in Txns \ {t} : ~Busy(u)
  BY DEF Transaction, Over, Busy
<1>2. CASE txnState = "TRANSACTING"
  BY <1>1, <1>2, RefusedKeeps DEF Transaction, managerVars, netVars
<1>3. CASE txnState # "TRANSACTING" /\ producerEpoch # 0
  <2>1. CASE txnState = "READY"
    BY <1>1, <1>3, <2>1, OpensKeeps DEF Transaction, BeginTransaction, netVars
  <2>2. CASE txnState # "READY"
    BY <1>1, <1>3, <2>2, RefusedKeeps DEF Transaction, BeginTransaction, managerVars, netVars
  <2> QED
    BY <2>1, <2>2
<1>4. CASE txnState # "TRANSACTING" /\ producerEpoch = 0
  <2> DEFINE q == Request("init", t, None)
  <2>1. /\ tx' = [tx EXCEPT ![t] = "initializing"]
        /\ coordNet' = Append(coordNet, q)
        /\ UNCHANGED <<managerVars, cachedOffset, didEnd, outcome, callVars, partNet, reply,
                       coordVars, log, bounds>>
    BY <1>4 DEF Transaction, ToCoordinator, managerVars
  <2>2. q \in CoordRequest /\ q.op = "init" /\ q.t = t /\ q.p = None
    BY <1>4 DEF Request, CoordRequest, Ops
  <2> HIDE DEF q
  <2>3. /\ tx \in [Txns -> TxStage] /\ coordNet \in Seq(CoordRequest)
        /\ \A u \in Txns : tx'[u] = IF u = t THEN "initializing" ELSE tx[u]
        /\ \A i \in 1..Len(coordNet) : coordNet[i] \in CoordRequest /\ coordNet[i].t \in Txns
        /\ \A r \in reply : r.t \in Txns
    BY <2>1, Shapes DEF TxnInv, TxnTypes, TypeOK
  <2>4. TxnTypes'
    BY <2>1, <2>2, <2>3 DEF TxnInv, TxnTypes, TypeOK, TxStage, managerVars, callVars, coordVars, bounds
  <2>5. ClientOK'
    BY <1>1, <1>4, <2>1, <2>3 DEF TxnInv, ClientOK, Busy, managerVars
  <2>6. \A u \in Txns : tx[u] # "initializing"
    BY <1>1 DEF Busy
  <2>7. UninitializedOK'
    <3>1. \A r \in reply : FALSE
      BY <1>4, <2>3, <2>6 DEF TxnInv, UninitializedOK
    <3>2. \A i \in 1..Len(coordNet') : i \in 1..Len(coordNet) \/ i = Len(coordNet')
      BY <2>1, <2>2, <2>3
    <3>3. \A i \in 1..Len(coordNet) : coordNet'[i] = coordNet[i] /\ coordNet[i].op = "init"
                                       /\ ~coordNet[i].heard /\ coordNet[i].p = None
      BY <1>4, <2>1, <2>2, <2>3, <2>6 DEF TxnInv, UninitializedOK
    <3>4. coordNet'[Len(coordNet')] = q
      BY <2>1, <2>2, <2>3
    <3> QED
      BY <1>4, <2>1, <2>2, <2>3, <3>1, <3>2, <3>3, <3>4 DEF TxnInv, UninitializedOK, coordVars
  <2>8. \A u \in Txns : Opened(u) => Opened(u)'
    BY <1>1, <2>3 DEF Opened
  <2> QED
    BY <1>4, <2>1, <2>4, <2>5, <2>7, <2>8, StillNothing DEF coordVars
<1> QED
  BY <1>2, <1>3, <1>4

\* transaction() goes on after initProducerId().
LEMMA BeginKeeps ==
    ASSUME TxnInv, NEW t \in Txns, Begin(t)
    PROVE  TxnInv'
<1>1. tx[t] = "initialized" /\ txnState = "READY" /\ \A u \in Txns \ {t} : ~Busy(u)
  BY DEF TxnInv, ClientOK, Busy, Begin
<1> QED
  BY <1>1, OpensKeeps DEF Begin, BeginTransaction

\* A request without its heard flag: the same request.
Forgets(e, u) == u.op = e.op /\ u.t = e.t /\ u.p = e.p /\ u.epoch = e.epoch

\* A request nobody waits for any longer is still the same request.
LEMMA UnheardQueue ==
    ASSUME NEW S,
           \A e \in S : LET u == [e EXCEPT !.heard = FALSE]
                        IN u \in S /\ Forgets(e, u) /\ ~u.heard,
           NEW q \in Seq(S), NEW op, NEW t, NEW p
    PROVE  /\ Unheard(q, op, t, p) \in Seq(S)
           /\ Len(Unheard(q, op, t, p)) = Len(q)
           /\ \A i \in 1..Len(q) :
                 /\ Forgets(q[i], Unheard(q, op, t, p)[i])
                 /\ Unheard(q, op, t, p)[i].heard =>
                       q[i].heard /\ ~(q[i].op = op /\ q[i].t = t /\ q[i].p = p)
<1> DEFINE new == Unheard(q, op, t, p)
<1>1. q \in Seq(S) /\ Len(q) \in Nat /\ \A i \in 1..Len(q) : q[i] \in S
  OBVIOUS
<1>2. \A i \in 1..Len(q) : new[i] = IF q[i].op = op /\ q[i].t = t /\ q[i].p = p
                                    THEN [q[i] EXCEPT !.heard = FALSE] ELSE q[i]
  BY DEF Unheard
<1>3. \A e : Forgets(e, e)
  BY DEF Forgets
<1>4. \A i \in 1..Len(q) :
         /\ new[i] \in S
         /\ Forgets(q[i], new[i])
         /\ new[i].heard => q[i].heard /\ ~(q[i].op = op /\ q[i].t = t /\ q[i].p = p)
  BY <1>1, <1>2, <1>3
<1>5. DOMAIN new = 1..Len(q) /\ new = [i \in 1..Len(q) |-> new[i]]
  BY DEF Unheard
<1> HIDE DEF new
<1>6. new \in Seq(S) /\ Len(new) = Len(q)
  BY <1>1, <1>4, <1>5
<1> QED
  BY <1>4, <1>6 DEF new

\* The same for the coordinator's queue and for the leaders'.
LEMMA UnheardCoord ==
    ASSUME NEW q \in Seq(CoordRequest), NEW op, NEW t, NEW p
    PROVE  /\ Unheard(q, op, t, p) \in Seq(CoordRequest)
           /\ Len(Unheard(q, op, t, p)) = Len(q)
           /\ \A i \in 1..Len(q) :
                 /\ Forgets(q[i], Unheard(q, op, t, p)[i])
                 /\ Unheard(q, op, t, p)[i].heard =>
                       q[i].heard /\ ~(q[i].op = op /\ q[i].t = t /\ q[i].p = p)
<1>1. ASSUME NEW e \in CoordRequest
      PROVE  LET u == [e EXCEPT !.heard = FALSE]
             IN u \in CoordRequest /\ Forgets(e, u) /\ ~u.heard
  BY <1>1 DEF CoordRequest, Forgets
<1> QED
  BY <1>1, UnheardQueue

\* The same of the writes to the leaders.
LEMMA UnheardWrites ==
    ASSUME NEW q \in Seq(WriteRequest), NEW op, NEW t, NEW p
    PROVE  /\ Unheard(q, op, t, p) \in Seq(WriteRequest)
           /\ Len(Unheard(q, op, t, p)) = Len(q)
           /\ \A i \in 1..Len(q) :
                 /\ Forgets(q[i], Unheard(q, op, t, p)[i])
                 /\ Unheard(q, op, t, p)[i].heard =>
                       q[i].heard /\ ~(q[i].op = op /\ q[i].t = t /\ q[i].p = p)
<1>1. ASSUME NEW e \in WriteRequest
      PROVE  LET u == [e EXCEPT !.heard = FALSE]
             IN u \in WriteRequest /\ Forgets(e, u) /\ ~u.heard
  BY <1>1 DEF WriteRequest, Forgets
<1> QED
  BY <1>1, UnheardQueue

\* initProducerId() has its answer, the only one there is: the epoch is the
\* coordinator's, and no request of an earlier attempt is left to fence it.
LEMMA InitProducerIdReplyKeeps ==
    ASSUME TxnInv, NEW t \in Txns, InitProducerIdReply(t)
    PROVE  TxnInv'
<1> DEFINE r == Response("init", t, None)
<1>1. tx[t] = "initializing" /\ producerEpoch = 0 /\ txnState = "UNINITIALIZED"
  BY NothingYet DEF InitProducerIdReply, TxnInv, ClientOK
<1>2. r \in reply /\ reply' = reply \ {r} /\ r.epoch = epoch /\ epoch > 0 /\ coordNet = <<>>
  BY <1>1, Taken DEF InitProducerIdReply, Take, TxnInv, UninitializedOK
<1>3. /\ txnState' = "READY" /\ added' = {} /\ topicKnown' = FALSE /\ offsetsAdded' = FALSE
      /\ producerEpoch' = epoch
      /\ tx' = [tx EXCEPT ![t] = "initialized"]
      /\ UNCHANGED <<cachedOffset, didEnd, outcome, callVars, coordNet, partNet,
                     coordVars, log, bounds>>
  BY <1>1, <1>2 DEF InitProducerIdReply, BecomesReady
<1> HIDE DEF r
<1> USE DEF callVars, coordVars, bounds
<1>4. /\ tx \in [Txns -> TxStage] /\ epoch \in Nat
      /\ \A u \in Txns : tx'[u] = IF u = t THEN "initialized" ELSE tx[u]
      /\ \A u \in Txns : Opened(u) => Opened(u)'
      /\ \A u \in Txns : tx'[u] \notin {"open", "ending"}
  BY <1>1, <1>3, NothingYet DEF TxnInv, TxnTypes, TypeOK, Opened
<1>5. reply' = {}
  <2>1. SUFFICES ASSUME NEW s \in reply PROVE s = r
    BY <1>2
  <2>2. s \in Answer /\ r \in Answer
    BY <1>2 DEF TxnInv, TxnTypes
  <2>3. /\ s.op = r.op /\ s.p = r.p /\ s.ok = r.ok /\ s.epoch = r.epoch
        /\ tx[s.t] = "initializing" /\ tx[r.t] = "initializing"
    BY <1>1, <1>2 DEF TxnInv, UninitializedOK
  <2>4. s.t = r.t
    BY <2>3, <1>2, Shapes DEF TxnInv, ClientOK, Busy
  <2> QED
    BY <2>2, <2>3, <2>4 DEF Answer
<1>6. \A u \in Txns : ~Ending(u)' /\ \A op : ~EndIn(u, op)'
  BY <1>2, <1>3 DEF Ending, EndIn
<1>7. \A u \in Txns, p \in Partitions, f \in {"open", "commit", "abort"} : ~Is(u, p, f)'
  BY <1>1, <1>3, NothingYet, IsSame
<1>8. \A p \in Partitions : partNet[p] = <<>>
  BY <1>1, NothingYet
<1>9. TxnTypes'
  <2>1. tx' \in [Txns -> TxStage]
    BY <1>3, <1>4 DEF TxStage
  <2>2. TypeOK
    BY DEF TxnInv, TxnTypes
  <2>3. producerEpoch' \in 0..epoch' /\ txnState' \in States /\ added' \subseteq Partitions
    BY <1>3, <1>4 DEF States
  <2>4. topicKnown' \in BOOLEAN /\ offsetsAdded' \in BOOLEAN /\ ~offsetsAdded'
    BY <1>3, Zenon
  <2>5. TypeOK'
    BY <1>3, <2>1, <2>2, <2>3, <2>4 DEF TypeOK
  <2> QED
    BY <1>3, <1>5, <2>5 DEF TxnInv, TxnTypes
<1>10. ClientOK'
  BY <1>1, <1>2, <1>3, <1>4 DEF TxnInv, ClientOK, Busy
<1>11. TasksOK'
  BY <1>3, <1>4 DEF TxnInv, TasksOK, Opened
<1>12. WritesOK'
  BY <1>3, <1>5, <1>8 DEF WritesOK
<1>13. UninitializedOK' /\ InitializedOK'
  BY <1>2, <1>3, <1>4, <1>5 DEF UninitializedOK, InitializedOK
<1>14. groupPending' = None
  BY <1>1, <1>3 DEF TxnInv, UninitializedOK
<1>15. OngoingOK'
  BY <1>3, <1>4, <1>6, <1>14 DEF OngoingOK
<1>16. LogOK'
  BY <1>4, <1>6, <1>7 DEF LogOK
<1>17. EndTxnOK'
  BY <1>5, <1>6 DEF EndTxnOK
<1>18. Promised'
  BY <1>3, <1>7, <1>14, IsSame DEF TxnInv, Promised, AbortedHidden, CommittedVisible, NothingLeftOpen
<1> QED
  BY <1>9, <1>10, <1>11, <1>12, <1>13, <1>15, <1>16, <1>17, <1>18 DEF TxnInv

\* InitProducerId fails: whoever waited for it asks again or gives up.
LEMMA InitProducerIdFailsKeeps ==
    ASSUME TxnInv, NEW t \in Txns, NEW retried \in BOOLEAN, InitProducerIdFails(t, retried)
    PROVE  TxnInv'
<1> DEFINE u == Unheard(coordNet, "init", t, None)
           q == Request("init", t, None)
<1>1. tx[t] = "initializing" /\ producerEpoch = 0
  BY DEF InitProducerIdFails, TxnInv, ClientOK
<1>2. /\ UNCHANGED <<managerVars, cachedOffset, didEnd, outcome, callVars, partNet,
                     coordVars, log, endFaults>>
      /\ reply' = {r \in reply : ~(r.op = "init" /\ r.t = t)}
      /\ faults < MaxFaults /\ faults' = faults + 1
      /\ \/ tx' = tx /\ coordNet' = Append(u, q)
         \/ tx' = [tx EXCEPT ![t] = "rejected"] /\ coordNet' = u
  BY DEF InitProducerIdFails
<1>3. coordNet \in Seq(CoordRequest) /\ \A i \in 1..Len(coordNet) : coordNet[i].t \in Txns
  BY Shapes DEF TxnInv
<1>4. /\ u \in Seq(CoordRequest) /\ Len(u) = Len(coordNet)
      /\ \A i \in 1..Len(coordNet) :
            /\ u[i].op = coordNet[i].op /\ u[i].t = coordNet[i].t /\ u[i].p = coordNet[i].p
            /\ u[i].heard => /\ coordNet[i].heard
                             /\ ~(coordNet[i].op = "init" /\ coordNet[i].t = t
                                    /\ coordNet[i].p = None)
  BY <1>3, UnheardCoord DEF Forgets
<1>5. q \in CoordRequest /\ q.op = "init" /\ q.t = t /\ q.p = None
  BY <1>1 DEF Request, CoordRequest, Ops
<1> HIDE DEF u, q
<1> USE DEF managerVars, callVars, coordVars
<1>6. \A v \in Txns : tx[v] = "initializing" => v = t
  BY <1>1 DEF TxnInv, ClientOK, Busy
<1>7. \A i \in 1..Len(u) : u[i].op = "init" /\ u[i].p = None /\ ~u[i].heard
  BY <1>1, <1>3, <1>4, <1>6 DEF TxnInv, UninitializedOK
<1>8. /\ coordNet' \in Seq(CoordRequest)
      /\ \A i \in 1..Len(coordNet') :
            /\ coordNet'[i].op = "init" /\ coordNet'[i].p = None
            /\ coordNet'[i].heard => i = Len(coordNet') /\ coordNet'[i].t = t /\ tx' = tx
  <2>1. CASE coordNet' = u
    BY <1>4, <1>7, <2>1
  <2>2. CASE tx' = tx /\ coordNet' = Append(u, q)
    BY <1>4, <1>5, <1>7, <2>2
  <2> QED
    BY <1>2, <2>1, <2>2
<1>9. tx \in [Txns -> TxStage] /\ reply' = {}
  BY <1>1, <1>2, <1>6, Shapes DEF TxnInv, TxnTypes, TypeOK, UninitializedOK
<1>10. TxnTypes'
  <2>1. MaxFaults \in Nat
    BY TransactionsAssumption
  <2>2. faults' \in 0..MaxFaults
    BY <1>2, <2>1 DEF TxnInv, TxnTypes, TypeOK
  <2>3. tx' \in [Txns -> TxStage]
    BY <1>2, <1>9 DEF TxStage
  <2> QED
    BY <1>2, <1>8, <1>9, <2>2, <2>3 DEF TxnInv, TxnTypes, TypeOK
<1>11. ClientOK'
  BY <1>1, <1>2, <1>9 DEF TxnInv, ClientOK, Busy
<1>12. UninitializedOK'
  BY <1>1, <1>2, <1>8, <1>9 DEF TxnInv, UninitializedOK
<1>13. \A v \in Txns : Opened(v) => Opened(v)'
  BY <1>1, <1>2, <1>9 DEF Opened
<1> QED
  BY <1>1, <1>2, <1>10, <1>11, <1>12, <1>13, StillNothing

-----------------------------------------------------------------------------
(***************************************************************************)
(* send() and sendOffsets()                                                *)
(***************************************************************************)

\* A transaction that is open is the only one, and nothing ends it.
LEMMA WhileOpen ==
    ASSUME TxnInv, NEW t \in Txns, tx[t] = "open"
    PROVE  /\ txnState = "TRANSACTING" /\ producerEpoch = epoch /\ producerEpoch # 0
           /\ outcome[t] = None /\ ~didEnd[t]
           /\ \A u \in Txns : Busy(u) => u = t
           /\ \A u \in Txns : ~Ending(u) /\ \A op \in EndOps : ~EndIn(u, op)
           /\ added \subseteq ongoing /\ (offsetsAdded => ongoingOffsets)
           /\ \A r \in reply : r.op \notin EndOps
<1>1. /\ txnState = "TRANSACTING" /\ producerEpoch # 0
      /\ outcome[t] = None /\ ~didEnd[t]
      /\ \A u \in Txns : Busy(u) => u = t
  BY DEF TxnInv, ClientOK, Busy
<1>2. producerEpoch = epoch
  BY <1>1 DEF TxnInv, InitializedOK
<1>3. \A u \in Txns : ~Ending(u)
  BY <1>1 DEF TxnInv, EndTxnOK
<1>4. \A u \in Txns, op \in EndOps : ~EndIn(u, op)
  BY <1>3 DEF Ending
<1>5. added \subseteq ongoing /\ (offsetsAdded => ongoingOffsets)
  BY <1>1 DEF TxnInv, OngoingOK
<1>6. \A r \in reply : r.op \notin EndOps
  BY <1>1 DEF TxnInv, EndTxnOK
<1> QED
  BY <1>1, <1>2, <1>3, <1>4, <1>5, <1>6

\* A step of an open transaction, which sends at most requests of its own to
\* the coordinator and takes responses.
OpenStep(t) ==
    /\ UNCHANGED <<txnState, producerEpoch, txVars, coordVars, log>>
    /\ reply' \subseteq reply
    /\ added \subseteq added' /\ added' \subseteq ongoing
    /\ offsetsAdded => offsetsAdded'
    /\ offsetsAdded' => ongoingOffsets
    /\ \A u \in Txns :
          /\ call[u] # "none" => call'[u] # "none"
          /\ offs[u] \notin {"none", "adding"} => offs'[u] \notin {"none", "adding"}
          /\ offs[u] = "done" => offs'[u] = "done"
    /\ offs'[t] = "done" => groupPending = t
    /\ \A p \in Partitions : task'[t][p] = "done" => Is(t, p, "open")
    /\ \A i \in 1..Len(coordNet') :
          \/ \E j \in 1..Len(coordNet) : Forgets(coordNet[j], coordNet'[i])
          \/ /\ coordNet'[i].epoch = epoch /\ coordNet'[i].t = t
             /\ \/ /\ coordNet'[i].op = "add" /\ coordNet'[i].p \in Partitions
                   /\ call'[t] # "none"
                \/ coordNet'[i].op = "addOffsets" /\ coordNet'[i].p = None
                \/ /\ coordNet'[i].op = "offsetCommit" /\ coordNet'[i].p = None
                   /\ offsetsAdded' /\ offs'[t] \notin {"none", "adding"}

\* Such a step keeps what is not about tasks and writes.
LEMMA OpenStepKeeps ==
    ASSUME TxnInv, NEW t \in Txns, tx[t] = "open", OpenStep(t),
           TxnTypes', TasksOK', WritesOK'
    PROVE  TxnInv'
<1> USE DEF txVars, coordVars
<1>1. /\ txnState = "TRANSACTING" /\ producerEpoch = epoch /\ producerEpoch # 0
      /\ \A u \in Txns : tx[u] = "open" => u = t
      /\ \A u \in Txns : ~Ending(u) /\ \A op \in EndOps : ~EndIn(u, op)
      /\ \A r \in reply : r.op \notin EndOps
  BY WhileOpen DEF Busy
<1>2. UNCHANGED <<txnState, producerEpoch, tx, didEnd, outcome, epoch, ongoing,
                  ongoingOffsets, groupPending, groupOffset, log>>
  BY DEF OpenStep
<1>3. \A u \in Txns : Opened(u)' <=> Opened(u)
  BY <1>2 DEF Opened
<1>4. reply' \subseteq reply
  BY DEF OpenStep
<1>5. ASSUME NEW i \in 1..Len(coordNet')
      PROVE  LET q == coordNet'[i]
             IN /\ q.t \in Txns /\ q.op \notin EndOps /\ q.op # "init" /\ q.epoch = epoch
                /\ q.op = "add" => q.p \in Partitions /\ call'[q.t] # "none"
                /\ q.op # "add" => q.p = None
                /\ q.op \in {"addOffsets", "offsetCommit"} => Opened(q.t)
                /\ q.op = "offsetCommit" =>
                      offsetsAdded' /\ offs'[q.t] \notin {"none", "adding"} /\ tx[q.t] = "open"
  <2>1. CASE \E j \in 1..Len(coordNet) : Forgets(coordNet[j], coordNet'[i])
    <3>1. PICK j \in 1..Len(coordNet) : Forgets(coordNet[j], coordNet'[i])
      BY <2>1
    <3>2. coordNet[j] \in CoordRequest /\ coordNet[j].t \in Txns
          /\ coordNet \in Seq(CoordRequest)
      BY Shapes DEF TxnInv
    <3>3. coordNet[j].op \notin EndOps
      <4>1. coordNet[j].op \in EndOps => j = Len(coordNet)
        BY <1>1 DEF TxnInv, InitializedOK
      <4>2. coordNet # <<>>
        BY <3>2
      <4> QED
        BY <1>1, <3>2, <4>1, <4>2 DEF EndIn
    <3>4. /\ coordNet[j].op # "init" /\ coordNet[j].epoch = epoch
          /\ coordNet[j].op = "add" => coordNet[j].p \in Partitions /\ call[coordNet[j].t] # "none"
          /\ coordNet[j].op # "add" => coordNet[j].p = None
          /\ coordNet[j].op \in {"addOffsets", "offsetCommit"} => Opened(coordNet[j].t)
          /\ coordNet[j].op = "offsetCommit" =>
                /\ offsetsAdded /\ offs[coordNet[j].t] \notin {"none", "adding"}
                /\ tx[coordNet[j].t] = "open"
      BY <1>1, <3>2 DEF TxnInv, InitializedOK
    <3> QED
      BY <3>1, <3>2, <3>3, <3>4 DEF Forgets, OpenStep
  <2>2. CASE ~\E j \in 1..Len(coordNet) : Forgets(coordNet[j], coordNet'[i])
    BY <2>2 DEF OpenStep, Opened, EndOps
  <2> QED
    BY <2>1, <2>2
<1>6. \A u \in Txns : ~Ending(u)' /\ \A op \in EndOps : ~EndIn(u, op)'
  <2>1. coordNet' \in Seq(CoordRequest)
    BY DEF TxnTypes
  <2>2. coordNet' # <<>> => coordNet'[Len(coordNet')].op \notin EndOps
    BY <1>5, <2>1
  <2> QED
    BY <2>2 DEF Ending, EndIn
<1>7. ClientOK'
  BY <1>2 DEF TxnInv, ClientOK, Busy
<1>8. UninitializedOK'
  BY <1>1, <1>2 DEF UninitializedOK
<1>9. InitializedOK'
  <2>1. \A r \in reply' : r \in reply /\ r.t \in Txns
    BY <1>4, Shapes DEF TxnInv
  <2>2. \A r \in reply' :
              /\ r.op # "init"
              /\ r.op \in {"add", "produce"} => r.p \in Partitions
              /\ r.op \in {"add", "addOffsets", "offsetCommit"} => Opened(r.t)'
              /\ r.op # "produce" => r.ok
    BY <1>1, <1>3, <2>1 DEF TxnInv, InitializedOK
  <2> QED
    BY <1>1, <1>2, <1>3, <1>5, <2>2 DEF InitializedOK
<1>10. OngoingOK'
  <2>1. groupPending \in Txns \cup {None}
    BY DEF TxnInv, TxnTypes, TypeOK
  <2> QED
    BY <1>1, <1>2, <1>4, <1>6, <2>1 DEF TxnInv, OngoingOK, OpenStep
<1>11. LogOK'
  BY <1>1, <1>2, <1>4, <1>6, IsSame DEF TxnInv, LogOK, OpenStep, EndOps
<1>12. EndTxnOK'
  BY <1>1, <1>4, <1>6 DEF EndTxnOK
<1>13. Promised'
  <2>1. NothingLeftOpen' /\ AbortedHidden'
    BY <1>1, <1>2, IsSame DEF TxnInv, Promised, AbortedHidden, NothingLeftOpen
  <2>2. CommittedVisible'
    <3>1. \A u \in WithOffsets : offs[u] = "done" => offs'[u] = "done"
      BY TransactionsAssumption DEF OpenStep
    <3>2. \A u \in Txns : PartsOf[u] \subseteq Partitions
      BY TransactionsAssumption
    <3> QED
      BY <1>2, <3>1, <3>2, IsSame DEF TxnInv, Promised, CommittedVisible
  <2> QED
    BY <2>1, <2>2 DEF Promised
<1> QED
  BY <1>7, <1>8, <1>9, <1>10, <1>11, <1>12, <1>13 DEF TxnInv

\* A task at work is the only one, and of the open transaction.
LEMMA AtWork ==
    ASSUME OnePartition, TxnInv, NEW t \in Txns, NEW p \in Partitions,
           task[t][p] \in {"starting", "adding", "producing"}
    PROVE  /\ tx[t] = "open" /\ call[t] = "sending" /\ PartsOf[t] = {p}
           /\ \A u \in Txns, x \in Partitions :
                 task[u][x] \in {"starting", "adding", "producing"} => u = t /\ x = p
<1>1. call[t] = "sending" /\ tx[t] = "open" /\ p \in PartsOf[t]
  BY DEF TxnInv, TasksOK
<1>2. PartsOf[t] = {p}
  BY <1>1 DEF OnePartition
<1>3. ASSUME NEW u \in Txns, NEW x \in Partitions,
             task[u][x] \in {"starting", "adding", "producing"}
      PROVE  u = t /\ x = p
  <2>1. tx[u] = "open" /\ x \in PartsOf[u]
    BY <1>3 DEF TxnInv, TasksOK
  <2>2. u = t
    BY <1>1, <2>1 DEF TxnInv, ClientOK, Busy
  <2> QED
    BY <1>2, <2>1, <2>2
<1> QED
  BY <1>1, <1>2, <1>3

\* send() is called.
LEMMA SendKeeps ==
    ASSUME TxnInv, NEW t \in Txns, Send(t)
    PROVE  TxnInv'
<1>1. tx[t] = "open" /\ call[t] = "none" /\ PartsOf[t] # {}
  BY DEF Send, IsActive
<1>2. /\ call' = [call EXCEPT ![t] = "sending"]
      /\ task' = [task EXCEPT ![t] = [p \in Partitions |->
                    IF p \in PartsOf[t] THEN "starting" ELSE "none"]]
      /\ UNCHANGED <<managerVars, cachedOffset, txVars, offs, netVars, coordVars, log, bounds>>
  BY DEF Send
<1> USE DEF managerVars, txVars, netVars, coordVars, bounds
<1>3. /\ call \in [Txns -> {"none", "sending", "ok", "failed"}]
      /\ task \in [Txns -> [Partitions -> TaskStage]]
  BY DEF TxnInv, TxnTypes, TypeOK
<1>4. TxnTypes'
  BY <1>2, <1>3 DEF TxnInv, TxnTypes, TypeOK, TaskStage
<1>5. TasksOK'
  BY <1>1, <1>2, <1>3 DEF TxnInv, TasksOK, Opened
<1>6. WritesOK'
  <2>1. \A u \in Txns \ {t} : task'[u] = task[u]
    BY <1>2, <1>3
  <2>2. \A p \in Partitions : task[t][p] = "none"
    BY <1>1 DEF TxnInv, TasksOK
  <2>3. \A p \in Partitions : \A i \in 1..Len(partNet[p]) : partNet[p][i].t \in Txns \ {t}
    BY <2>2, WriteShapes DEF TxnInv, WritesOK
  <2>4. \A p \in Partitions, r \in reply : r.op = "produce" /\ r.p = p => r.t \in Txns \ {t}
    BY <2>2, Shapes DEF TxnInv, WritesOK
  <2> QED
    BY <1>2, <2>1, <2>3, <2>4 DEF TxnInv, WritesOK
<1>7. OpenStep(t)
  <2>1. \A p \in Partitions : task'[t][p] # "done"
    BY <1>2, <1>3
  <2>2. \A e : Forgets(e, e)
    BY DEF Forgets
  <2>3. offs[t] = "done" => groupPending = t
    BY <1>1 DEF TxnInv, OngoingOK
  <2> QED
    BY <1>1, <1>2, <1>3, <2>1, <2>2, <2>3, WhileOpen DEF OpenStep
<1> QED
  BY <1>1, <1>4, <1>5, <1>6, <1>7, OpenStepKeeps

\* A task of an open transaction starts: it registers its partition, or writes
\* if that is registered.
LEMMA AddPartitionsKeeps ==
    ASSUME OnePartition, TxnInv, NEW t \in Txns, NEW p \in Partitions,
           AddPartitionsToTransaction(t, p)
    PROVE  TxnInv'
<1>1. /\ task[t][p] = "starting" /\ tx[t] = "open" /\ call[t] = "sending" /\ PartsOf[t] = {p}
      /\ txnState = "TRANSACTING" /\ producerEpoch = epoch
      /\ \A u \in Txns, x \in Partitions :
            task[u][x] \in {"starting", "adding", "producing"} => u = t /\ x = p
  BY AtWork, WhileOpen DEF AddPartitionsToTransaction
<1> USE DEF txVars, coordVars, bounds
<1>2. /\ call' = call
      /\ UNCHANGED <<txnState, producerEpoch, added, offsetsAdded, cachedOffset,
                   txVars, offs, reply, coordVars, log, bounds>>
      /\ topicKnown' = topicKnown \/ topicKnown' = TRUE
  BY <1>1 DEF AddPartitionsToTransaction
<1>3. /\ task \in [Txns -> [Partitions -> TaskStage]] /\ epoch \in Nat
      /\ partNet \in [Partitions -> Seq(WriteRequest)]
      /\ coordNet \in Seq(CoordRequest)
      /\ offs[t] = "done" => groupPending = t
      /\ \A x \in Partitions : task[t][x] = "done" => Is(t, x, "open")
  BY <1>1 DEF TxnInv, TxnTypes, TypeOK, OngoingOK, LogOK
<1>4. \A e : Forgets(e, e)
  BY DEF Forgets
<1>5. CASE p \in added /\ StartsProducing(t, p) /\ UNCHANGED <<topicKnown, coordNet>>
  <2> DEFINE q == Request("produce", t, p)
  <2>1. /\ task' = [task EXCEPT ![t][p] = "producing"]
        /\ partNet' = [partNet EXCEPT ![p] = Append(partNet[p], q)]
    BY <1>5 DEF StartsProducing, ToLeader
  <2>2. q \in WriteRequest /\ q.t = t /\ q.p = p /\ q.epoch = producerEpoch
    BY <1>1, <1>3 DEF Request, WriteRequest
  <2> HIDE DEF q
  <2>3. TxnTypes'
    BY <1>2, <1>3, <1>5, <2>1, <2>2 DEF TxnInv, TxnTypes, TypeOK, TaskStage
  <2>4. TasksOK'
    BY <1>1, <1>2, <1>3, <2>1 DEF TxnInv, TasksOK, Opened
  <2>5. WritesOK'
    <3>1. \A x \in Partitions : \A i \in 1..Len(partNet[x]) :
             partNet[x][i].t = t /\ x = p /\ ~partNet[x][i].heard
      BY <1>1, WriteShapes DEF TxnInv, WritesOK
    <3>2. \A x \in Partitions, r \in reply : ~(r.op = "produce" /\ r.p = x)
      BY <1>1, Shapes DEF TxnInv, WritesOK
    <3>3. \A x \in Partitions \ {p} : partNet'[x] = partNet[x]
      BY <1>3, <2>1
    <3>4. /\ Len(partNet'[p]) = Len(partNet[p]) + 1 /\ Len(partNet[p]) \in Nat
          /\ \A i \in 1..Len(partNet[p]) : partNet'[p][i] = partNet[p][i]
          /\ partNet'[p][Len(partNet[p]) + 1] = q
      BY <1>3, <2>1, <2>2
    <3>5. task'[t][p] = "producing"
      BY <1>3, <2>1
    <3>6. ASSUME NEW i \in 1..Len(partNet'[p])
          PROVE  /\ partNet'[p][i].epoch = producerEpoch /\ partNet'[p][i].p = p
                 /\ partNet'[p][i].t = t
                 /\ partNet'[p][i].heard => i = Len(partNet'[p])
      <4>1. CASE i \in 1..Len(partNet[p])
        BY <3>1, <3>4, <4>1 DEF TxnInv, WritesOK
      <4>2. CASE i = Len(partNet[p]) + 1
        BY <2>2, <3>4, <4>2
      <4> QED
        BY <3>4, <4>1, <4>2
    <3>7. ASSUME NEW x \in Partitions \ {p} PROVE 1..Len(partNet'[x]) = {}
      BY <3>1, <3>3
    <3> QED
      BY <1>2, <1>5, <3>2, <3>5, <3>6, <3>7 DEF TxnInv, WritesOK
  <2>6. OpenStep(t)
    <3>1. \A x \in Partitions : task'[t][x] = "done" => task[t][x] = "done"
      BY <1>3, <2>1
    <3> QED
      BY <1>1, <1>2, <1>3, <1>4, <1>5, <3>1, WhileOpen DEF OpenStep
  <2> QED
    BY <1>1, <2>3, <2>4, <2>5, <2>6, OpenStepKeeps
<1>6. CASE /\ topicKnown' = TRUE /\ task' = [task EXCEPT ![t][p] = "adding"]
           /\ ToCoordinator("add", t, p) /\ p \notin added /\ UNCHANGED partNet
  <2> DEFINE q == Request("add", t, p)
  <2>1. coordNet' = Append(coordNet, q)
    BY <1>6 DEF ToCoordinator
  <2>2. q \in CoordRequest /\ q.t = t /\ q.epoch = epoch /\ q.op = "add" /\ q.p = p
    BY <1>1, <1>3 DEF Request, CoordRequest, Ops
  <2> HIDE DEF q
  <2>3. topicKnown' \in BOOLEAN
    BY <1>6, Zenon
  <2>4. TxnTypes'
    BY <1>2, <1>3, <1>6, <2>1, <2>2, <2>3 DEF TxnInv, TxnTypes, TypeOK, TaskStage
  <2>5. TasksOK'
    BY <1>1, <1>2, <1>3, <1>6 DEF TxnInv, TasksOK, Opened
  <2>6. WritesOK'
    <3>1. \A x \in Partitions : 1..Len(partNet[x]) = {}
      BY <1>1, <1>6, WriteShapes DEF TxnInv, WritesOK
    <3>2. \A x \in Partitions, r \in reply : ~(r.op = "produce" /\ r.p = x)
      BY <1>1, Shapes DEF TxnInv, WritesOK
    <3> QED
      BY <1>2, <1>6, <3>1, <3>2 DEF TxnInv, WritesOK
  <2>7. OpenStep(t)
    <3>1. \A x \in Partitions : task'[t][x] = "done" => task[t][x] = "done"
      BY <1>3, <1>6
    <3>2. \A i \in 1..Len(coordNet') :
             (i \in 1..Len(coordNet) /\ coordNet'[i] = coordNet[i]) \/ coordNet'[i] = q
      BY <1>3, <2>1, <2>2
    <3> QED
      BY <1>1, <1>2, <1>3, <1>4, <2>2, <3>1, <3>2, WhileOpen DEF OpenStep
  <2> QED
    BY <1>1, <2>4, <2>5, <2>6, <2>7, OpenStepKeeps
<1> QED
  BY <1>1, <1>5, <1>6 DEF AddPartitionsToTransaction

\* With a task that waits for the coordinator no write is under way.
LEMMA NoWrites ==
    ASSUME OnePartition, TxnInv, NEW t \in Txns, NEW p \in Partitions, task[t][p] = "adding"
    PROVE  /\ \A x \in Partitions : partNet[x] = <<>>
           /\ \A x \in Partitions, r \in reply : ~(r.op = "produce" /\ r.p = x)
<1>1. \A u \in Txns, x \in Partitions : task[u][x] \notin {"starting", "producing"}
  BY AtWork
<1>2. \A x \in Partitions : 1..Len(partNet[x]) = {}
  BY <1>1, WriteShapes DEF TxnInv, WritesOK
<1>3. \A x \in Partitions : partNet[x] = <<>>
  BY <1>2, WriteShapes DEF TxnInv
<1>4. \A x \in Partitions, r \in reply : ~(r.op = "produce" /\ r.p = x)
  BY <1>1, Shapes DEF TxnInv, WritesOK
<1> QED
  BY <1>3, <1>4

\* A task fails while no write is under way; the transaction stays open.
LEMMA TaskFailsKeeps ==
    ASSUME OnePartition, TxnInv, NEW t \in Txns, NEW p \in Partitions,
           task[t][p] \in {"adding", "producing"},
           \A x \in Partitions : partNet[x] = <<>>,
           \A x \in Partitions, r \in reply' : ~(r.op = "produce" /\ r.p = x),
           TaskFails(t, p), reply' \subseteq reply,
           UNCHANGED <<managerVars, cachedOffset, txVars, offs, coordNet, partNet, coordVars,
                       log, bounds>>
    PROVE  TxnInv'
<1>1. tx[t] = "open" /\ call[t] = "sending" /\ PartsOf[t] = {p}
  BY AtWork
<1> USE DEF managerVars, txVars, coordVars, bounds
<1>2. /\ call \in [Txns -> {"none", "sending", "ok", "failed"}]
      /\ task \in [Txns -> [Partitions -> TaskStage]]
      /\ offs[t] = "done" => groupPending = t
      /\ \A x \in Partitions : task[t][x] = "done" => Is(t, x, "open")
  BY <1>1 DEF TxnInv, TxnTypes, TypeOK, OngoingOK, LogOK
<1>3. /\ task' = [task EXCEPT ![t][p] = "failed"]
      /\ call' = [call EXCEPT ![t] = "failed"]
  BY <1>1, <1>2 DEF TaskFails
<1>4. TxnTypes'
  BY <1>2, <1>3 DEF TxnInv, TxnTypes, TypeOK, TaskStage
<1>5. TasksOK'
  BY <1>1, <1>2, <1>3 DEF TxnInv, TasksOK, Opened
<1>6. WritesOK'
  BY DEF TxnInv, WritesOK
<1>7. OpenStep(t)
  <2>1. \A x \in Partitions : task'[t][x] = "done" => task[t][x] = "done"
    BY <1>2, <1>3
  <2>2. \A e : Forgets(e, e)
    BY DEF Forgets
  <2> QED
    BY <1>1, <1>2, <1>3, <2>1, <2>2, WhileOpen DEF OpenStep
<1> QED
  BY <1>1, <1>4, <1>5, <1>6, <1>7, OpenStepKeeps

\* The coordinator has answered: the partition is part of the transaction.
LEMMA AddPartitionsReplyKeeps ==
    ASSUME OnePartition, TxnInv, NEW t \in Txns, NEW p \in Partitions, AddPartitionsReply(t, p)
    PROVE  TxnInv'
<1> DEFINE r == Response("add", t, p)
<1>1. task[t][p] = "adding" /\ tx[t] = "open" /\ call[t] = "sending" /\ PartsOf[t] = {p}
  BY AtWork DEF AddPartitionsReply
<1>2. /\ \A x \in Partitions : partNet[x] = <<>>
      /\ \A x \in Partitions, s \in reply : ~(s.op = "produce" /\ s.p = x)
  BY <1>1, NoWrites
<1>3. r \in reply /\ reply' = reply \ {r} /\ p \in ongoing
  <2>1. r \in reply /\ r.op = "add" /\ r.t = t /\ r.p = p
    BY Taken DEF AddPartitionsReply
  <2> QED
    BY <1>1, <2>1 DEF TxnInv, OngoingOK, AddPartitionsReply, Take
<1> HIDE DEF r
<1>4. UNCHANGED <<txnState, producerEpoch, topicKnown, offsetsAdded, cachedOffset, txVars,
                  offs, coordNet, coordVars, log, bounds>>
  BY DEF AddPartitionsReply
<1>5. CASE TaskFails(t, p) /\ UNCHANGED <<added, partNet>>
  BY <1>1, <1>2, <1>3, <1>4, <1>5, TaskFailsKeeps DEF managerVars
<1>6. CASE added' = added \cup {p} /\ StartsProducing(t, p) /\ UNCHANGED call
  <2> USE DEF txVars, coordVars, bounds
  <2> DEFINE q == Request("produce", t, p)
  <2>1. /\ task' = [task EXCEPT ![t][p] = "producing"]
        /\ partNet' = [partNet EXCEPT ![p] = Append(partNet[p], q)]
    BY <1>6 DEF StartsProducing, ToLeader
  <2>2. /\ task \in [Txns -> [Partitions -> TaskStage]]
        /\ partNet \in [Partitions -> Seq(WriteRequest)]
        /\ added \subseteq Partitions /\ added \subseteq ongoing
        /\ producerEpoch \in Nat /\ txnState = "TRANSACTING"
        /\ offs[t] = "done" => groupPending = t
        /\ \A x \in Partitions : task[t][x] = "done" => Is(t, x, "open")
    BY <1>1, WhileOpen DEF TxnInv, TxnTypes, TypeOK, OngoingOK, LogOK
  <2>3. q \in WriteRequest /\ q.t = t /\ q.p = p /\ q.epoch = producerEpoch
    BY <2>2 DEF Request, WriteRequest
  <2> HIDE DEF q
  <2>4. TxnTypes'
    BY <1>3, <1>4, <1>6, <2>1, <2>2, <2>3 DEF TxnInv, TxnTypes, TypeOK, TaskStage
  <2>5. TasksOK'
    BY <1>1, <1>4, <1>6, <2>1, <2>2 DEF TxnInv, TasksOK, Opened
  <2>6. WritesOK'
    <3>1. /\ Len(partNet'[p]) = 1 /\ partNet'[p][1] = q
          /\ \A x \in Partitions \ {p} : Len(partNet'[x]) = 0
      BY <1>2, <2>1, <2>2, <2>3
    <3>2. task'[t][p] = "producing"
      BY <2>1, <2>2
    <3>3. /\ \A x \in Partitions, s \in reply' : ~(s.op = "produce" /\ s.p = x)
          /\ \A s, u \in reply' : s.op = "produce" /\ u.op = "produce" => s = u
      BY <1>2, <1>3 DEF TxnInv, WritesOK
    <3>4. p \in added' /\ producerEpoch' = producerEpoch
      BY <1>4, <1>6
    <3>5. \A x \in Partitions : \A i \in 1..Len(partNet'[x]) : x = p /\ i = 1
      <4>1. \A x \in Partitions \ {p} : 1..Len(partNet'[x]) = {}
        BY <3>1
      <4>2. 1..Len(partNet'[p]) = {1}
        BY <3>1
      <4> QED
        BY <4>1, <4>2
    <3> QED
      BY <2>3, <3>1, <3>2, <3>3, <3>4, <3>5 DEF WritesOK
  <2>7. OpenStep(t)
    <3>1. \A x \in Partitions : task'[t][x] = "done" => task[t][x] = "done"
      BY <2>1, <2>2
    <3>2. \A e : Forgets(e, e)
      BY DEF Forgets
    <3> QED
      BY <1>1, <1>3, <1>4, <1>6, <2>2, <3>1, <3>2, WhileOpen DEF OpenStep
  <2> QED
    BY <1>1, <2>4, <2>5, <2>6, <2>7, OpenStepKeeps
<1> QED
  BY <1>5, <1>6 DEF AddPartitionsReply

\* The leader has answered the last attempt: none is left, and if the write was
\* accepted it is in the log.
LEMMA ProduceReplyKeeps ==
    ASSUME OnePartition, TxnInv, NEW t \in Txns, NEW p \in Partitions, ProduceReply(t, p)
    PROVE  TxnInv'
<1> DEFINE r == Response("produce", t, p)
<1>1. /\ task[t][p] = "producing" /\ tx[t] = "open" /\ call[t] = "sending" /\ PartsOf[t] = {p}
      /\ \A u \in Txns, x \in Partitions :
            task[u][x] \in {"starting", "adding", "producing"} => u = t /\ x = p
  BY AtWork DEF ProduceReply
<1>2. /\ r \in reply /\ reply' = reply \ {r}
      /\ r.op = "produce" /\ r.t = t /\ r.p = p
  BY Taken DEF ProduceReply, Take
<1>3. \A x \in Partitions : partNet[x] = <<>>
  <2>1. partNet[p] = <<>>
    BY <1>2 DEF TxnInv, WritesOK
  <2>2. \A x \in Partitions \ {p} : 1..Len(partNet[x]) = {}
    BY <1>1, WriteShapes DEF TxnInv, WritesOK
  <2>3. \A x \in Partitions \ {p} : partNet[x] = <<>>
    BY <2>2, WriteShapes DEF TxnInv
  <2> QED
    BY <2>1, <2>3
<1>4. r.ok => Is(t, p, "open")
  BY <1>1, <1>2 DEF TxnInv, LogOK
<1>5. \A s \in reply : s.op = "produce" => s = r
  BY <1>2 DEF TxnInv, WritesOK
<1> HIDE DEF r
<1>6. UNCHANGED <<managerVars, cachedOffset, txVars, offs, coordNet, partNet, coordVars, log,
                  bounds>>
  BY DEF ProduceReply
<1>7. CASE TaskFails(t, p)
  BY <1>1, <1>2, <1>3, <1>5, <1>6, <1>7, TaskFailsKeeps
<1>8. CASE /\ r.ok /\ task' = [task EXCEPT ![t][p] = "done"]
           /\ call' = [call EXCEPT ![t] =
                  IF @ = "sending" /\ \A x \in PartsOf[t] \ {p} : task[t][x] = "done"
                  THEN "ok" ELSE @]
  <2> USE DEF managerVars, txVars, coordVars, bounds
  <2>1. /\ call \in [Txns -> {"none", "sending", "ok", "failed"}]
        /\ task \in [Txns -> [Partitions -> TaskStage]]
        /\ offs[t] = "done" => groupPending = t
        /\ \A x \in Partitions : task[t][x] = "done" => Is(t, x, "open")
    BY <1>1 DEF TxnInv, TxnTypes, TypeOK, OngoingOK, LogOK
  <2>2. call' = [call EXCEPT ![t] = "ok"]
    BY <1>1, <1>8, <2>1
  <2>3. TxnTypes'
    BY <1>2, <1>6, <1>8, <2>1, <2>2 DEF TxnInv, TxnTypes, TypeOK, TaskStage
  <2>4. TasksOK'
    <3>1. \A u \in Txns : PartsOf[u] \subseteq Partitions
      BY TransactionsAssumption
    <3> QED
      BY <1>1, <1>6, <1>8, <2>1, <2>2, <3>1 DEF TxnInv, TasksOK, Opened
  <2>5. WritesOK'
    BY <1>2, <1>3, <1>5, <1>6 DEF TxnInv, WritesOK
  <2>6. OpenStep(t)
    <3>1. \A x \in Partitions : task'[t][x] = "done" => task[t][x] = "done" \/ x = p
      BY <1>8, <2>1
    <3>2. \A e : Forgets(e, e)
      BY DEF Forgets
    <3> QED
      BY <1>1, <1>2, <1>4, <1>6, <1>8, <2>1, <2>2, <3>1, <3>2, WhileOpen DEF OpenStep
  <2> QED
    BY <1>1, <2>3, <2>4, <2>5, <2>6, OpenStepKeeps
<1> QED
  BY <1>7, <1>8 DEF ProduceReply, r

\* What is left when nobody waits for a request any longer: at the coordinator,
LEMMA CoordGivenUp ==
    ASSUME TxnInv, NEW op, NEW t \in Txns, NEW p, GiveUpWaiting(op, t, p)
    PROVE  /\ coordNet' \in Seq(CoordRequest) /\ Len(coordNet') = Len(coordNet)
           /\ \A i \in 1..Len(coordNet) :
                 /\ Forgets(coordNet[i], coordNet'[i])
                 /\ coordNet'[i].heard =>
                       /\ coordNet[i].heard
                       /\ ~(coordNet[i].op = op /\ coordNet[i].t = t /\ coordNet[i].p = p)
<1>1. coordNet' = Unheard(coordNet, op, t, p) /\ coordNet \in Seq(CoordRequest)
  BY DEF GiveUpWaiting, TxnInv, TxnTypes
<1> QED
  BY <1>1, UnheardCoord

\* and at the leaders.
LEMMA WritesGivenUp ==
    ASSUME TxnInv, NEW op, NEW t \in Txns, NEW p, GiveUpWaiting(op, t, p)
    PROVE  /\ partNet' \in [Partitions -> Seq(WriteRequest)]
           /\ \A x \in Partitions : Len(partNet'[x]) = Len(partNet[x])
           /\ \A x \in Partitions : \A i \in 1..Len(partNet[x]) :
                 /\ Forgets(partNet[x][i], partNet'[x][i])
                 /\ partNet'[x][i].heard =>
                       /\ partNet[x][i].heard
                       /\ ~(partNet[x][i].op = op /\ partNet[x][i].t = t /\ partNet[x][i].p = p)
<1>1. /\ partNet' = [x \in Partitions |-> Unheard(partNet[x], op, t, p)]
      /\ \A x \in Partitions : partNet[x] \in Seq(WriteRequest)
  BY DEF GiveUpWaiting, TxnInv, TxnTypes
<1>2. ASSUME NEW x \in Partitions
      PROVE  /\ partNet'[x] \in Seq(WriteRequest)
             /\ Len(partNet'[x]) = Len(partNet[x])
             /\ \A i \in 1..Len(partNet[x]) :
                 /\ Forgets(partNet[x][i], partNet'[x][i])
                 /\ partNet'[x][i].heard =>
                       /\ partNet[x][i].heard
                       /\ ~(partNet[x][i].op = op /\ partNet[x][i].t = t /\ partNet[x][i].p = p)
  <2>1. partNet'[x] = Unheard(partNet[x], op, t, p) /\ partNet[x] \in Seq(WriteRequest)
    BY <1>1
  <2> QED
    BY <2>1, UnheardWrites
<1>3. partNet' \in [Partitions -> Seq(WriteRequest)]
  BY <1>1, <1>2
<1> QED
  BY <1>2, <1>3

\* A request of a task times out; the task starts again.
LEMMA TaskTimeoutKeeps ==
    ASSUME OnePartition, TxnInv, NEW t \in Txns, NEW p \in Partitions, TaskTimeout(t, p)
    PROVE  TxnInv'
<1>1. /\ task[t][p] \in {"adding", "producing"}
      /\ tx[t] = "open" /\ call[t] = "sending" /\ PartsOf[t] = {p}
      /\ \A u \in Txns, x \in Partitions :
            task[u][x] \in {"starting", "adding", "producing"} => u = t /\ x = p
  BY AtWork DEF TaskTimeout
<1>2. /\ task' = [task EXCEPT ![t][p] = "starting"]
      /\ faults < MaxFaults /\ faults' = faults + 1
      /\ UNCHANGED <<managerVars, cachedOffset, txVars, call, offs, coordVars, log, endFaults>>
  BY DEF TaskTimeout
<1>op. PICK op \in {"add", "produce"} :
          /\ op = IF task[t][p] = "adding" THEN "add" ELSE "produce"
          /\ GiveUpWaiting(op, t, p)
  BY DEF TaskTimeout
<1> USE DEF managerVars, txVars, coordVars
<1>3. /\ coordNet' \in Seq(CoordRequest) /\ Len(coordNet') = Len(coordNet)
      /\ \A i \in 1..Len(coordNet) : Forgets(coordNet[i], coordNet'[i])
      /\ partNet' \in [Partitions -> Seq(WriteRequest)]
      /\ \A x \in Partitions : Len(partNet'[x]) = Len(partNet[x])
      /\ \A x \in Partitions : \A i \in 1..Len(partNet[x]) :
            /\ Forgets(partNet[x][i], partNet'[x][i])
            /\ partNet'[x][i].heard =>
                  /\ partNet[x][i].heard
                  /\ ~(partNet[x][i].op = op /\ partNet[x][i].t = t /\ partNet[x][i].p = p)
      /\ \A r : r \in reply' <=> r \in reply /\ ~(r.op = op /\ r.t = t /\ r.p = p)
  <2>1. GiveUpWaiting(op, t, p)
    BY <1>op
  <2>2. \A r : r \in reply' <=> r \in reply /\ ~(r.op = op /\ r.t = t /\ r.p = p)
    BY <2>1 DEF GiveUpWaiting
  <2>3. /\ coordNet' \in Seq(CoordRequest) /\ Len(coordNet') = Len(coordNet)
        /\ \A i \in 1..Len(coordNet) : Forgets(coordNet[i], coordNet'[i])
    BY <2>1, CoordGivenUp
  <2>4. /\ partNet' \in [Partitions -> Seq(WriteRequest)]
        /\ \A x \in Partitions : Len(partNet'[x]) = Len(partNet[x])
        /\ \A x \in Partitions : \A i \in 1..Len(partNet[x]) :
              /\ Forgets(partNet[x][i], partNet'[x][i])
              /\ partNet'[x][i].heard =>
                    /\ partNet[x][i].heard
                    /\ ~(partNet[x][i].op = op /\ partNet[x][i].t = t /\ partNet[x][i].p = p)
    BY <2>1, WritesGivenUp
  <2> QED
    BY <2>2, <2>3, <2>4
<1>4. /\ task \in [Txns -> [Partitions -> TaskStage]]
      /\ faults \in 0..MaxFaults /\ MaxFaults \in Nat
      /\ offs[t] = "done" => groupPending = t
      /\ \A x \in Partitions : task[t][x] = "done" => Is(t, x, "open")
  BY <1>1, TransactionsAssumption DEF TxnInv, TxnTypes, TypeOK, OngoingOK, LogOK
<1>5. TxnTypes'
  BY <1>2, <1>3, <1>4 DEF TxnInv, TxnTypes, TypeOK, TaskStage
<1>6. TasksOK'
  BY <1>1, <1>2, <1>4 DEF TxnInv, TasksOK, Opened
<1>7. WritesOK'
  <2>1. \A x \in Partitions : \A i \in 1..Len(partNet[x]) :
           x = p /\ partNet[x][i].t = t /\ task[t][p] = "producing"
    BY <1>1, WriteShapes DEF TxnInv, WritesOK
  <2>2. \A x \in Partitions : \A i \in 1..Len(partNet[x]) :
           partNet[x][i].op = "produce" /\ partNet[x][i].epoch = producerEpoch /\ p \in added
    BY <2>1, WriteShapes DEF TxnInv, WritesOK, WriteRequest
  <2>3. \A x \in Partitions : \A i \in 1..Len(partNet'[x]) :
           /\ x = p /\ partNet'[x][i].t = t /\ partNet'[x][i].p = p /\ p \in added
           /\ partNet'[x][i].epoch = producerEpoch /\ ~partNet'[x][i].heard
    BY <1>op, <1>3, <2>1, <2>2 DEF TxnInv, WritesOK, Forgets
  <2>4. \A r \in reply' : \A x \in Partitions : ~(r.op = "produce" /\ r.p = x)
    <3>1. \A r \in reply : \A x \in Partitions : r.op = "produce" /\ r.p = x =>
             task[r.t][x] = "producing" /\ r.t \in Txns
      BY Shapes DEF TxnInv, WritesOK
    <3>2. \A r \in reply : \A x \in Partitions : r.op = "produce" /\ r.p = x =>
             r.t = t /\ x = p /\ task[t][p] = "producing"
      BY <1>1, <3>1
    <3> QED
      BY <1>op, <1>3, <3>2
  <2>5. task'[t][p] = "starting"
    BY <1>2, <1>4
  <2>6. \A r, s \in reply' : r.op = "produce" /\ s.op = "produce" => r = s
    BY <1>3 DEF TxnInv, WritesOK
  <2> QED
    BY <1>2, <2>3, <2>4, <2>5, <2>6 DEF WritesOK
<1>8. OpenStep(t)
  <2>1. \A x \in Partitions : task'[t][x] = "done" => task[t][x] = "done"
    BY <1>2, <1>4
  <2> QED
    BY <1>1, <1>2, <1>3, <1>4, <2>1, WhileOpen DEF OpenStep
<1> QED
  BY <1>1, <1>5, <1>6, <1>7, <1>8, OpenStepKeeps

\* A step that leaves the tasks, their writes and what is registered.
LEMMA WritesKept ==
    ASSUME TxnInv, UNCHANGED <<partNet, task, producerEpoch>>, reply' \subseteq reply,
           added \subseteq added'
    PROVE  WritesOK'
  BY DEF TxnInv, WritesOK

\* sendOffsets() is called.
LEMMA SendOffsetsKeeps ==
    ASSUME TxnInv, NEW t \in Txns, SendOffsets(t)
    PROVE  TxnInv'
<1> DEFINE q == Request("addOffsets", t, None)
<1>1. tx[t] = "open" /\ offs[t] = "none" /\ t \in WithOffsets
  BY DEF SendOffsets, IsActive
<1>2. /\ offs' = [offs EXCEPT ![t] = "adding"] /\ coordNet' = Append(coordNet, q)
      /\ UNCHANGED <<managerVars, cachedOffset, txVars, call, task, partNet, reply, coordVars,
                     log, bounds>>
  BY DEF SendOffsets, ToCoordinator
<1> USE DEF managerVars, txVars, coordVars, bounds
<1>3. /\ offs \in [Txns -> OffsetStage] /\ coordNet \in Seq(CoordRequest) /\ epoch \in Nat
      /\ producerEpoch = epoch /\ groupPending \in Txns \cup {None}
      /\ \A x \in Partitions : task[t][x] = "done" => Is(t, x, "open")
  BY <1>1, WhileOpen DEF TxnInv, TxnTypes, TypeOK, LogOK
<1>4. /\ q \in CoordRequest /\ q.t = t /\ q.op = "addOffsets" /\ q.p = None /\ q.epoch = epoch
  BY <1>3 DEF Request, CoordRequest, Ops
<1> HIDE DEF q
<1>5. TxnTypes'
  BY <1>2, <1>3, <1>4 DEF TxnInv, TxnTypes, TypeOK, OffsetStage
<1>6. TasksOK'
  BY <1>1, <1>2, <1>3 DEF TxnInv, TasksOK, Opened
<1>7. WritesOK'
  BY <1>2, WritesKept
<1>8. OpenStep(t)
  <2>1. \A i \in 1..Len(coordNet') :
           (i \in 1..Len(coordNet) /\ coordNet'[i] = coordNet[i]) \/ coordNet'[i] = q
    BY <1>2, <1>3, <1>4
  <2>2. \A e : Forgets(e, e)
    BY DEF Forgets
  <2> QED
    BY <1>1, <1>2, <1>3, <1>4, <2>1, <2>2, WhileOpen DEF OpenStep
<1> QED
  BY <1>1, <1>5, <1>6, <1>7, <1>8, OpenStepKeeps

\* The offsets are part of the transaction: they go to the group.
LEMMA AddOffsetsReplyKeeps ==
    ASSUME TxnInv, NEW t \in Txns, AddOffsetsReply(t)
    PROVE  TxnInv'
<1> DEFINE q == Request("offsetCommit", t, None)
           r == Response("addOffsets", t, None)
<1>1. offs[t] = "adding" /\ tx[t] = "open" /\ t \in WithOffsets
  BY DEF AddOffsetsReply, TxnInv, TasksOK
<1>2. r \in reply /\ r.op = "addOffsets" /\ r.t = t
  BY Taken DEF AddOffsetsReply
<1>3. r.ok /\ ongoingOffsets
  BY <1>1, <1>2, WhileOpen DEF TxnInv, InitializedOK, OngoingOK
<1>4. /\ offs' = [offs EXCEPT ![t] = "committing"] /\ offsetsAdded' = TRUE
      /\ coordNet' = Append(coordNet, q) /\ reply' \subseteq reply
      /\ UNCHANGED <<txnState, producerEpoch, added, topicKnown, cachedOffset, txVars, call,
                     task, partNet, coordVars, log, bounds>>
  BY <1>3 DEF AddOffsetsReply, ToCoordinator, Take
<1> USE DEF txVars, coordVars, bounds
<1>5. /\ offs \in [Txns -> OffsetStage] /\ coordNet \in Seq(CoordRequest) /\ epoch \in Nat
      /\ producerEpoch = epoch /\ txnState = "TRANSACTING"
      /\ groupPending \in Txns \cup {None}
      /\ \A x \in Partitions : task[t][x] = "done" => Is(t, x, "open")
  BY <1>1, WhileOpen DEF TxnInv, TxnTypes, TypeOK, LogOK
<1>6. q \in CoordRequest /\ q.t = t /\ q.op = "offsetCommit" /\ q.p = None /\ q.epoch = epoch
  BY <1>5 DEF Request, CoordRequest, Ops
<1> HIDE DEF q, r
<1>7. offsetsAdded' \in BOOLEAN
  BY <1>4, Zenon
<1>8. TxnTypes'
  BY <1>4, <1>5, <1>6, <1>7 DEF TxnInv, TxnTypes, TypeOK, OffsetStage
<1>9. TasksOK'
  BY <1>1, <1>4, <1>5 DEF TxnInv, TasksOK, Opened
<1>10. WritesOK'
  BY <1>4, WritesKept
<1>11. OpenStep(t)
  <2>1. \A i \in 1..Len(coordNet') :
           (i \in 1..Len(coordNet) /\ coordNet'[i] = coordNet[i]) \/ coordNet'[i] = q
    BY <1>4, <1>5, <1>6
  <2>2. \A e : Forgets(e, e)
    BY DEF Forgets
  <2> QED
    BY <1>1, <1>3, <1>4, <1>5, <1>6, <2>1, <2>2, WhileOpen DEF OpenStep
<1> QED
  BY <1>1, <1>8, <1>9, <1>10, <1>11, OpenStepKeeps

\* The group has the offsets.
LEMMA OffsetCommitReplyKeeps ==
    ASSUME TxnInv, NEW t \in Txns, OffsetCommitReply(t)
    PROVE  TxnInv'
<1> DEFINE r == Response("offsetCommit", t, None)
<1>1. offs[t] = "committing" /\ tx[t] = "open" /\ t \in WithOffsets
  BY DEF OffsetCommitReply, TxnInv, TasksOK
<1>2. r \in reply /\ r.op = "offsetCommit" /\ r.t = t
  BY Taken DEF OffsetCommitReply
<1>3. r.ok /\ groupPending = t
  BY <1>1, <1>2, WhileOpen DEF TxnInv, InitializedOK, OngoingOK
<1>4. /\ offs' = [offs EXCEPT ![t] = "done"] /\ cachedOffset' = t /\ reply' \subseteq reply
      /\ UNCHANGED <<managerVars, txVars, call, task, coordNet, partNet, coordVars, log, bounds>>
  BY <1>3 DEF OffsetCommitReply, Take
<1> HIDE DEF r
<1> USE DEF managerVars, txVars, coordVars, bounds
<1>5. /\ offs \in [Txns -> OffsetStage]
      /\ \A x \in Partitions : task[t][x] = "done" => Is(t, x, "open")
  BY <1>1 DEF TxnInv, TxnTypes, TypeOK, LogOK
<1>6. TxnTypes'
  BY <1>4, <1>5 DEF TxnInv, TxnTypes, TypeOK, OffsetStage
<1>7. TasksOK'
  BY <1>1, <1>4, <1>5 DEF TxnInv, TasksOK, Opened
<1>8. WritesOK'
  BY <1>4, WritesKept
<1>9. OpenStep(t)
  <2>1. \A e : Forgets(e, e)
    BY DEF Forgets
  <2> QED
    BY <1>1, <1>3, <1>4, <1>5, <2>1, WhileOpen DEF OpenStep
<1> QED
  BY <1>1, <1>6, <1>7, <1>8, <1>9, OpenStepKeeps

\* A request of sendOffsets() times out.
LEMMA OffsetsTimeoutKeeps ==
    ASSUME TxnInv, NEW t \in Txns, OffsetsTimeout(t)
    PROVE  TxnInv'
<1>1. offs[t] \in {"adding", "committing"} /\ tx[t] = "open" /\ t \in WithOffsets
  BY DEF OffsetsTimeout, TxnInv, TasksOK
<1>2. /\ offs' = [offs EXCEPT ![t] = "failed"]
      /\ faults < MaxFaults /\ faults' = faults + 1
      /\ UNCHANGED <<managerVars, cachedOffset, txVars, call, task, coordVars, log, endFaults>>
  BY DEF OffsetsTimeout
<1>3. PICK op \in {"addOffsets", "offsetCommit"} : GiveUpWaiting(op, t, None)
  BY DEF OffsetsTimeout
<1> USE DEF managerVars, txVars, coordVars
<1>4. reply' \subseteq reply
  BY <1>3 DEF GiveUpWaiting
<1>5. /\ offs \in [Txns -> OffsetStage]
      /\ faults \in 0..MaxFaults /\ MaxFaults \in Nat
      /\ \A x \in Partitions : task[t][x] = "done" => Is(t, x, "open")
  BY <1>1, TransactionsAssumption DEF TxnInv, TxnTypes, TypeOK, LogOK
<1>6. TxnTypes'
  <2>1. /\ coordNet' \in Seq(CoordRequest)
        /\ partNet' \in [Partitions -> Seq(WriteRequest)]
    BY <1>3, CoordGivenUp, WritesGivenUp
  <2> QED
    BY <1>2, <1>4, <1>5, <2>1 DEF TxnInv, TxnTypes, TypeOK, OffsetStage
<1>7. TasksOK'
  BY <1>1, <1>2, <1>5 DEF TxnInv, TasksOK, Opened
<1>8. WritesOK'
  <2>1. /\ \A x \in Partitions : Len(partNet'[x]) = Len(partNet[x])
        /\ \A x \in Partitions : \A i \in 1..Len(partNet[x]) :
              /\ Forgets(partNet[x][i], partNet'[x][i])
              /\ partNet'[x][i].heard => partNet[x][i].heard
        /\ partNet' \in [Partitions -> Seq(WriteRequest)]
    BY <1>3, WritesGivenUp
  <2>2. ASSUME NEW x \in Partitions, NEW i \in 1..Len(partNet'[x])
        PROVE  /\ partNet'[x][i].epoch = producerEpoch /\ partNet'[x][i].p = x
               /\ task[partNet'[x][i].t][x] \in {"starting", "producing"}
               /\ x \in added
               /\ partNet'[x][i].heard =>
                     i = Len(partNet'[x]) /\ task[partNet'[x][i].t][x] = "producing"
    BY <2>1, <2>2 DEF TxnInv, WritesOK, Forgets
  <2>3. \A x \in Partitions : \A r \in reply' : r.op = "produce" /\ r.p = x =>
              partNet'[x] = <<>> /\ task[r.t][x] = "producing"
    <3>1. \A x \in Partitions : partNet[x] = <<>> => partNet'[x] = <<>>
      BY <2>1
    <3> QED
      BY <1>4, <3>1 DEF TxnInv, WritesOK
  <2> QED
    BY <1>2, <1>4, <2>2, <2>3 DEF TxnInv, WritesOK
<1>9. OpenStep(t)
  <2>1. /\ Len(coordNet') = Len(coordNet)
        /\ \A i \in 1..Len(coordNet) : Forgets(coordNet[i], coordNet'[i])
    BY <1>3, CoordGivenUp
  <2> QED
    BY <1>1, <1>2, <1>4, <1>5, <2>1, WhileOpen DEF OpenStep
<1> QED
  BY <1>1, <1>6, <1>7, <1>8, <1>9, OpenStepKeeps

-----------------------------------------------------------------------------
(***************************************************************************)
(* commit() and abort()                                                    *)
(***************************************************************************)

\* Every message and offset of a transaction that was awaited without a failure
\* is with the brokers.
LEMMA AllSent ==
    ASSUME TxnInv, NEW t \in Txns, tx[t] = "open", Awaited(t), ~Failed(t)
    PROVE  /\ \A p \in PartsOf[t] : Is(t, p, "open") /\ p \in added
           /\ offs[t] \in {"none", "done"}
           /\ t \in WithOffsets => groupPending = t /\ offs[t] = "done" /\ offsetsAdded
<1>1. /\ call[t] = "ok" \/ PartsOf[t] = {}
      /\ offs[t] = "done" \/ (offs[t] = "none" /\ t \notin WithOffsets)
  BY DEF Awaited, Failed
<1>2. PartsOf[t] \subseteq Partitions /\ None \notin Txns
  BY TransactionsAssumption
<1>3. \A p \in PartsOf[t] : task[t][p] = "done"
  BY <1>1 DEF TxnInv, TasksOK
<1>4. \A p \in PartsOf[t] : Is(t, p, "open")
  BY <1>2, <1>3 DEF TxnInv, LogOK
<1>5. \A p \in PartsOf[t] : p \in added
  BY <1>2, <1>4 DEF TxnInv, LogOK
<1>6. offs[t] = "done" => groupPending = t /\ offsetsAdded
  BY <1>2 DEF TxnInv, OngoingOK
<1> QED
  BY <1>1, <1>4, <1>5, <1>6

\* Nothing of an awaited transaction is at work.
LEMMA AwaitedIsIdle ==
    ASSUME TxnInv, NEW t \in Txns, Awaited(t)
    PROVE  /\ call[t] # "sending" /\ offs[t] \notin {"adding", "committing"}
           /\ \A p \in Partitions : task[t][p] \notin {"starting", "adding", "producing"}
  BY DEF Awaited, TxnInv, TasksOK

\* commit() or abort() of a transaction with something in it: EndTxn is sent.
LEMMA EndSentKeeps ==
    ASSUME TxnInv, NEW t \in Txns, NEW result \in EndOps, End(t, result), IsOngoing
    PROVE  TxnInv'
<1> DEFINE q == Request(result, t, None)
           next == IF result = "commit" THEN "COMMITTING" ELSE "ABORTING"
<1>1. tx[t] = "open" /\ Awaited(t) /\ (result = "commit" => ~Failed(t))
  BY DEF End, IsActive
<1>2. /\ txnState' = next /\ tx' = [tx EXCEPT ![t] = "ending"]
      /\ coordNet' = Append(coordNet, q)
      /\ UNCHANGED <<added, topicKnown, offsetsAdded, didEnd, outcome, producerEpoch,
                     cachedOffset, callVars, partNet, reply, coordVars, log, bounds>>
  BY DEF End, ToCoordinator, EndTxn
<1> USE DEF callVars, coordVars, bounds
<1>3. /\ txnState = "TRANSACTING" /\ producerEpoch = epoch /\ producerEpoch # 0
      /\ outcome[t] = None /\ ~didEnd[t]
      /\ \A u \in Txns : Busy(u) => u = t
      /\ \A u \in Txns : tx[u] = "open" => u = t
      /\ \A u \in Txns : ~Ending(u) /\ \A op \in EndOps : ~EndIn(u, op)
      /\ added \subseteq ongoing /\ (offsetsAdded => ongoingOffsets)
      /\ \A r \in reply : r.op \notin EndOps
      /\ added # {} \/ offsetsAdded
  BY <1>1, WhileOpen DEF IsOngoing, Busy
<1>4. /\ tx \in [Txns -> TxStage] /\ coordNet \in Seq(CoordRequest) /\ epoch \in Nat
      /\ Len(coordNet) \in Nat
      /\ \A u \in Txns : tx'[u] = IF u = t THEN "ending" ELSE tx[u]
      /\ \A u \in Txns : Opened(u)' <=> Opened(u)
      /\ groupPending \in Txns \cup {None}
  BY <1>1, <1>2 DEF TxnInv, TxnTypes, TypeOK, Opened
<1>5. q \in CoordRequest /\ q.t = t /\ q.op = result /\ q.p = None /\ q.epoch = epoch
  BY <1>3, <1>4 DEF Request, CoordRequest, Ops
<1> HIDE DEF q
<1>6. /\ coordNet' \in Seq(CoordRequest) /\ Len(coordNet') = Len(coordNet) + 1
      /\ coordNet'[Len(coordNet')] = q /\ coordNet' # <<>>
      /\ \A i \in 1..Len(coordNet) : coordNet'[i] = coordNet[i]
  BY <1>2, <1>4, <1>5
<1>7. /\ \A u, op : EndIn(u, op)' <=> u = t /\ op = result
      /\ \A u \in Txns : Ending(u)' <=> u = t
  BY <1>5, <1>6 DEF EndIn, Ending
<1>8. TxnTypes'
  BY <1>2, <1>4, <1>6 DEF TxnInv, TxnTypes, TypeOK, TxStage, States
<1>9. ClientOK'
  BY <1>2, <1>3, <1>4 DEF TxnInv, ClientOK, Busy
<1>10. TasksOK'
  BY <1>1, <1>2, <1>4, AwaitedIsIdle DEF TxnInv, TasksOK
<1>11. WritesOK'
  BY <1>2, WritesKept
<1>12. UninitializedOK'
  BY <1>2, <1>3 DEF UninitializedOK
<1>13. InitializedOK'
  <2>1. \A r \in reply : r.t \in Txns
    BY Shapes DEF TxnInv
  <2>2. ASSUME NEW i \in 1..Len(coordNet)
        PROVE  LET e == coordNet[i]
               IN /\ e.t \in Txns /\ e.op # "init" /\ e.epoch = epoch
                  /\ e.op \notin EndOps
                  /\ e.op = "add" => e.p \in Partitions /\ call[e.t] # "none"
                  /\ e.op # "add" => e.p = None
                  /\ e.op \in {"addOffsets", "offsetCommit"} => Opened(e.t)
                  /\ e.op = "offsetCommit" =>
                        offsetsAdded /\ offs[e.t] \notin {"none", "adding"} /\ e.t = t
    <3>1. coordNet[i].t \in Txns /\ coordNet # <<>>
      BY Shapes DEF TxnInv
    <3>2. coordNet[i].op \notin EndOps
      BY <1>3, <3>1 DEF TxnInv, InitializedOK, EndIn
    <3> QED
      BY <1>3, <3>1, <3>2 DEF TxnInv, InitializedOK
  <2>3. \A i \in 1..Len(coordNet') : i \in 1..Len(coordNet) \/ (i = Len(coordNet') /\ coordNet'[i] = q)
    BY <1>4, <1>6
  <2>4. \A i \in 1..Len(coordNet') :
              LET e == coordNet'[i]
              IN /\ e.t \in Txns /\ e.op # "init" /\ e.epoch = epoch
                 /\ e.op \in EndOps => i = Len(coordNet')
                 /\ e.op = "add" => e.p \in Partitions /\ call[e.t] # "none"
                 /\ e.op # "add" => e.p = None
                 /\ e.op \in {"addOffsets", "offsetCommit"} => Opened(e.t)
                 /\ e.op = "offsetCommit" =>
                       offsetsAdded /\ offs[e.t] \notin {"none", "adding"} /\ e.t = t
    BY <1>4, <1>5, <1>6, <2>2, <2>3 DEF EndOps
  <2>5. \A r \in reply' :
              /\ r.op # "init"
              /\ r.op \in {"add", "produce"} => r.p \in Partitions
              /\ r.op \in {"add", "addOffsets", "offsetCommit"} => Opened(r.t)'
              /\ r.op # "produce" => r.ok
    BY <1>2, <1>3, <1>4, <2>1 DEF TxnInv, InitializedOK
  <2> QED
    BY <1>2, <1>3, <1>4, <1>7, <2>4, <2>5 DEF InitializedOK
<1>14. OngoingOK'
  BY <1>1, <1>2, <1>3, <1>4, <1>7 DEF TxnInv, OngoingOK
<1>15. LogOK'
  BY <1>1, <1>2, <1>3, <1>4, <1>7, IsSame DEF TxnInv, LogOK
<1>16. EndTxnOK'
  <2>1. result = "commit" => /\ \A p \in PartsOf[t] : Is(t, p, "open")
                             /\ t \in WithOffsets => groupPending = t
                             /\ offs[t] \in {"none", "done"}
    BY <1>1, AllSent
  <2> QED
    BY <1>2, <1>3, <1>4, <1>7, <2>1, IsSame DEF EndTxnOK, EndOps
<1>17. Promised'
  BY <1>2, IsSame DEF TxnInv, Promised, AbortedHidden, CommittedVisible, NothingLeftOpen
<1> QED
  BY <1>8, <1>9, <1>10, <1>11, <1>12, <1>13, <1>14, <1>15, <1>16, <1>17 DEF TxnInv

\* A transaction ends and the producer is ready again.
LEMMA EndsKeeps ==
    ASSUME TxnInv, NEW t \in Txns, NEW result \in EndOps,
           tx[t] \in {"open", "ending"}, producerEpoch # 0,
           \A p \in Partitions : task[t][p] \notin {"starting", "adding", "producing"},
           call[t] # "sending", offs[t] \notin {"adding", "committing"},
           Ends(t, result), BecomesReady, reply' \subseteq reply,
           UNCHANGED <<producerEpoch, cachedOffset, callVars, coordNet, partNet, coordVars, log,
                       bounds>>,
           \A u \in Txns : ~Ending(u),
           \A r \in reply' : r.op \notin EndOps,
           \A i \in 1..Len(coordNet) : coordNet[i].op # "offsetCommit",
           groupPending = None,
           \A u \in Txns, p \in Partitions : ~Is(u, p, "open"),
           result = "commit" => /\ \A p \in PartsOf[t] : Is(t, p, "commit")
                                /\ t \in WithOffsets => groupOffset = t /\ offs[t] = "done",
           result = "abort" => \A p \in Partitions : ~Is(t, p, "commit")
    PROVE  TxnInv'
<1> USE DEF callVars, coordVars, bounds
<1>1. /\ tx \in [Txns -> TxStage] /\ didEnd \in [Txns -> BOOLEAN]
      /\ outcome \in [Txns -> {None, "commit", "abort"}]
      /\ \A u \in Txns : Busy(u) => u = t
  BY DEF TxnInv, TxnTypes, TypeOK, ClientOK, Busy
<1>2. /\ txnState' = "READY" /\ added' = {} /\ topicKnown' = FALSE /\ offsetsAdded' = FALSE
      /\ tx' = [tx EXCEPT ![t] = "ended"] /\ didEnd' = [didEnd EXCEPT ![t] = TRUE]
      /\ outcome' = [outcome EXCEPT ![t] = result]
  BY DEF BecomesReady, Ends
<1>3. /\ \A u \in Txns : tx'[u] = IF u = t THEN "ended" ELSE tx[u]
      /\ \A u \in Txns : outcome'[u] = IF u = t THEN result ELSE outcome[u]
      /\ \A u \in Txns : u # t => didEnd'[u] = didEnd[u]
      /\ \A u \in Txns : Opened(u) => Opened(u)'
      /\ \A u \in Txns : ~Busy(u)'
  BY <1>1, <1>2 DEF Opened, Busy
<1>4. \A u \in Txns : ~Ending(u)' /\ \A op \in EndOps : ~EndIn(u, op)'
  BY EndSame DEF Ending
<1>5. /\ topicKnown' \in BOOLEAN /\ offsetsAdded' \in BOOLEAN /\ ~offsetsAdded'
  BY <1>2, Zenon
<1>6. TxnTypes'
  <2>1. /\ tx' \in [Txns -> TxStage] /\ didEnd' \in [Txns -> BOOLEAN]
        /\ outcome' \in [Txns -> {None, "commit", "abort"}]
    BY <1>1, <1>2 DEF TxStage, EndOps
  <2> QED
    BY <1>2, <1>5, <2>1 DEF TxnInv, TxnTypes, TypeOK, States
<1>7. ClientOK'
  <2>1. \A u \in Txns : tx'[u] \notin {"initializing", "initialized", "open", "ending"}
    BY <1>3 DEF Busy
  <2> QED
    BY <1>2, <1>3, <2>1 DEF TxnInv, ClientOK, Busy
<1>8. TasksOK'
  <2>1. \A u \in Txns : tx[u] = "open" => u = t
    BY <1>1 DEF Busy
  <2> QED
    BY <1>3, <2>1 DEF TxnInv, TasksOK
<1>9. WritesOK'
  <2>1. \A u \in Txns, p \in Partitions : task[u][p] \notin {"starting", "adding", "producing"}
    BY <1>1 DEF TxnInv, TasksOK, Busy
  <2>2. \A p \in Partitions : 1..Len(partNet[p]) = {}
    BY <2>1, WriteShapes DEF TxnInv, WritesOK
  <2>3. \A p \in Partitions, r \in reply : ~(r.op = "produce" /\ r.p = p)
    BY <2>1, Shapes DEF TxnInv, WritesOK
  <2> QED
    BY <2>2, <2>3 DEF TxnInv, WritesOK
<1>10. UninitializedOK'
  BY DEF UninitializedOK
<1>11. InitializedOK'
  <2>1. \A i \in 1..Len(coordNet) : coordNet[i].t \in Txns
    BY Shapes DEF TxnInv
  <2>2. \A r \in reply' : r.t \in Txns
    BY Shapes DEF TxnInv
  <2> QED
    BY <1>3, <2>1, <2>2 DEF TxnInv, InitializedOK
<1>12. OngoingOK'
  BY <1>2, <1>3, <1>4 DEF OngoingOK, Busy
<1>13. LogOK'
  BY <1>3, <1>4, IsSame DEF TxnInv, LogOK, Busy, EndOps
<1>14. EndTxnOK'
  BY <1>4 DEF EndTxnOK
<1>15. Promised'
  <2>1. AbortedHidden'
    BY <1>3, IsSame DEF TxnInv, Promised, AbortedHidden, EndOps
  <2>2. CommittedVisible'
    BY <1>3, IsSame DEF TxnInv, Promised, CommittedVisible, EndOps
  <2>3. NothingLeftOpen'
    BY IsSame DEF NothingLeftOpen
  <2> QED
    BY <2>1, <2>2, <2>3 DEF Promised
<1> QED
  BY <1>6, <1>7, <1>8, <1>9, <1>10, <1>11, <1>12, <1>13, <1>14, <1>15 DEF TxnInv

\* commit() or abort() of a transaction with nothing in it: isOngoing() is
\* right, the brokers know nothing of it either.
LEMMA EndEmptyKeeps ==
    ASSUME TxnInv, NEW t \in Txns, NEW result \in EndOps, End(t, result), ~IsOngoing
    PROVE  TxnInv'
<1>1. tx[t] = "open" /\ Awaited(t) /\ (result = "commit" => ~Failed(t))
  BY DEF End, IsActive
<1>2. added = {} /\ ~offsetsAdded
  BY DEF IsOngoing
<1>3. /\ Ends(t, result) /\ BecomesReady
      /\ UNCHANGED <<producerEpoch, cachedOffset, callVars, coordNet, partNet, reply, coordVars,
                     log, bounds>>
  BY DEF End
<1>4. /\ producerEpoch # 0
      /\ \A u \in Txns : ~Ending(u)
      /\ \A r \in reply : r.op \notin EndOps
  BY <1>1, WhileOpen
<1>5. \A i \in 1..Len(coordNet) : coordNet[i].op # "offsetCommit"
  BY <1>2, <1>4 DEF TxnInv, InitializedOK
<1>6. groupPending = None
  BY <1>2 DEF TxnInv, OngoingOK
<1>7. \A u \in Txns, p \in Partitions : ~Is(u, p, "open")
  BY <1>2 DEF TxnInv, LogOK
<1>8. result = "commit" => PartsOf[t] = {} /\ t \notin WithOffsets
  BY <1>1, <1>2, AllSent
<1>9. \A p \in Partitions : ~Is(t, p, "commit")
  BY <1>1 DEF TxnInv, LogOK
<1>10. reply' \subseteq reply /\ \A r \in reply' : r.op \notin EndOps
  BY <1>3, <1>4
<1> QED
  BY <1>1, <1>3, <1>4, <1>5, <1>6, <1>7, <1>8, <1>9, <1>10, AwaitedIsIdle, EndsKeeps

\* EndTxn is answered: the markers are written and nothing is left in the queue.
LEMMA EndReplyKeeps ==
    ASSUME TxnInv, NEW t \in Txns, EndReply(t)
    PROVE  TxnInv'
<1>1. tx[t] = "ending" /\ txnState \in {"COMMITTING", "ABORTING"} /\ producerEpoch # 0
  BY DEF EndReply, TxnInv, ClientOK
<1>2. PICK op \in EndOps :
          /\ HasResponse(op, t, None)
          /\ Take(op, t, None)
          /\ IF Response(op, t, None).ok
             THEN /\ BecomesReady
                  /\ Ends(t, IF txnState = "COMMITTING" THEN "commit" ELSE "abort")
             ELSE /\ tx' = [tx EXCEPT ![t] = "rejected"]
                  /\ UNCHANGED <<txnState, added, topicKnown, offsetsAdded, didEnd, outcome>>
  BY DEF EndReply, AfterEndTxn, EndOps
<1> DEFINE r == Response(op, t, None)
<1>3. /\ r \in reply /\ r.op = op /\ r.t = t /\ reply' = reply \ {r}
      /\ UNCHANGED <<producerEpoch, cachedOffset, callVars, coordNet, partNet, coordVars, log,
                     bounds>>
  BY <1>2, Taken DEF EndReply, Take
<1>4. /\ r.p = None /\ r.ok = TRUE /\ r.epoch = epoch
      /\ coordNet = <<>>
      /\ txnState = IF op = "commit" THEN "COMMITTING" ELSE "ABORTING"
      /\ groupPending = None
      /\ \A u \in Txns, p \in Partitions : ~Is(u, p, "open")
      /\ op = "commit" =>
            /\ \A p \in PartsOf[t] : Is(t, p, "commit")
            /\ t \in WithOffsets => groupOffset = t /\ offs[t] = "done"
      /\ op = "abort" => \A p \in Partitions : ~Is(t, p, "commit")
  BY <1>2, <1>3 DEF TxnInv, EndTxnOK
<1>5. Ends(t, op) /\ BecomesReady
  BY <1>2, <1>4 DEF EndOps
<1>6. \A s \in reply : s.op \in EndOps => s = r
  <2>1. SUFFICES ASSUME NEW s \in reply, s.op \in EndOps PROVE s = r
    OBVIOUS
  <2>2. s \in Answer /\ r \in Answer
    BY <1>3 DEF TxnInv, TxnTypes
  <2>3. /\ s.p = None /\ s.ok = TRUE /\ s.epoch = epoch /\ tx[s.t] = "ending"
        /\ txnState = IF s.op = "commit" THEN "COMMITTING" ELSE "ABORTING"
    BY <2>1 DEF TxnInv, EndTxnOK
  <2>4. s.t = t
    BY <1>1, <2>3, Shapes DEF TxnInv, ClientOK, Busy
  <2>5. s.op = op
    BY <1>2, <1>4, <2>1, <2>3 DEF EndOps
  <2> QED
    BY <1>3, <1>4, <2>2, <2>3, <2>4, <2>5 DEF Answer
<1> HIDE DEF r
<1>7. /\ \A p \in Partitions : task[t][p] \notin {"starting", "adding", "producing"}
      /\ call[t] # "sending" /\ offs[t] \notin {"adding", "committing"}
  BY <1>1 DEF TxnInv, TasksOK
<1>8. \A u \in Txns : ~Ending(u)
  BY <1>4 DEF Ending, EndIn
<1>9. reply' \subseteq reply /\ \A s \in reply' : s.op \notin EndOps
  BY <1>3, <1>6
<1>10. \A i \in 1..Len(coordNet) : coordNet[i].op # "offsetCommit"
  BY <1>4
<1> QED
  BY <1>1, <1>3, <1>4, <1>5, <1>7, <1>8, <1>9, <1>10, EndsKeeps

\* EndTxn fails: the transaction is rejected, the request may still be handled.
LEMMA EndFailsKeeps ==
    ASSUME TxnInv, NEW t \in Txns, EndFails(t)
    PROVE  TxnInv'
<1>1. /\ tx[t] = "ending" /\ txnState \in {"COMMITTING", "ABORTING"} /\ producerEpoch # 0
      /\ \A u \in Txns : Busy(u) => u = t
  BY DEF EndFails, TxnInv, ClientOK, Busy
<1>2. /\ tx' = [tx EXCEPT ![t] = "rejected"]
      /\ endFaults < MaxEndFaults /\ endFaults' = endFaults + 1
      /\ UNCHANGED <<managerVars, cachedOffset, didEnd, outcome, callVars, coordVars, log,
                     faults>>
  BY DEF EndFails
<1>3. PICK op \in EndOps : /\ op = IF txnState = "COMMITTING" THEN "commit" ELSE "abort"
                           /\ GiveUpWaiting(op, t, None)
  BY DEF EndFails, EndOps
<1> USE DEF managerVars, callVars, coordVars
<1>4. /\ tx \in [Txns -> TxStage] /\ endFaults \in 0..MaxEndFaults /\ MaxEndFaults \in Nat
      /\ \A u \in Txns : tx'[u] = IF u = t THEN "rejected" ELSE tx[u]
      /\ \A u \in Txns : Opened(u)' <=> Opened(u)
      /\ \A u \in Txns : tx[u] # "open" /\ tx'[u] # "open"
      /\ \A u \in Txns : ~Busy(u)'
      /\ groupPending \in Txns \cup {None}
  BY <1>1, <1>2, TransactionsAssumption DEF TxnInv, TxnTypes, TypeOK, Opened, Busy
<1>5. /\ coordNet' \in Seq(CoordRequest) /\ Len(coordNet') = Len(coordNet)
      /\ \A i \in 1..Len(coordNet) :
            /\ Forgets(coordNet[i], coordNet'[i])
            /\ coordNet'[i].heard =>
                  /\ coordNet[i].heard
                  /\ ~(coordNet[i].op = op /\ coordNet[i].t = t /\ coordNet[i].p = None)
      /\ partNet' \in [Partitions -> Seq(WriteRequest)]
      /\ \A x \in Partitions : Len(partNet'[x]) = Len(partNet[x])
  <2>1. GiveUpWaiting(op, t, None)
    BY <1>3
  <2> QED
    BY <2>1, CoordGivenUp, WritesGivenUp
<1>6. reply' \subseteq reply /\ \A r \in reply' : r.op \notin EndOps
  <2>1. \A r : r \in reply' <=> r \in reply /\ ~(r.op = op /\ r.t = t /\ r.p = None)
    BY <1>3 DEF GiveUpWaiting
  <2>2. ASSUME NEW r \in reply, r.op \in EndOps PROVE r.op = op /\ r.t = t /\ r.p = None
    <3>1. /\ r.p = None /\ tx[r.t] = "ending"
          /\ txnState = IF r.op = "commit" THEN "COMMITTING" ELSE "ABORTING"
      BY <2>2 DEF TxnInv, EndTxnOK
    <3>2. r.t = t
      BY <1>1, <3>1, Shapes DEF TxnInv, Busy
    <3> QED
      BY <1>3, <2>2, <3>1, <3>2 DEF EndOps
  <2> QED
    BY <2>1, <2>2
<1>7. /\ \A u, o : EndIn(u, o)' <=> EndIn(u, o)
      /\ \A u \in Txns : Ending(u)' <=> Ending(u)
  <2>1. coordNet \in Seq(CoordRequest) /\ (coordNet = <<>> <=> coordNet' = <<>>)
    BY <1>5 DEF TxnInv, TxnTypes
  <2>2. coordNet # <<>> => Forgets(coordNet[Len(coordNet)], coordNet'[Len(coordNet')])
    BY <1>5, <2>1
  <2> QED
    BY <2>1, <2>2 DEF EndIn, Ending, Forgets
<1>8. TxnTypes'
  BY <1>2, <1>4, <1>5, <1>6 DEF TxnInv, TxnTypes, TypeOK, TxStage
<1>9. ClientOK'
  BY <1>1, <1>2, <1>4 DEF TxnInv, ClientOK, Busy
<1>10. TasksOK'
  BY <1>1, <1>2, <1>4 DEF TxnInv, TasksOK
<1>11. WritesOK'
  <2>1. \A u \in Txns, p \in Partitions : task[u][p] \notin {"starting", "adding", "producing"}
    BY <1>4 DEF TxnInv, TasksOK
  <2>2. \A p \in Partitions : 1..Len(partNet'[p]) = {}
    BY <1>5, <2>1, WriteShapes DEF TxnInv, WritesOK
  <2>3. \A p \in Partitions, r \in reply' : ~(r.op = "produce" /\ r.p = p)
    BY <1>6, <2>1, Shapes DEF TxnInv, WritesOK
  <2> QED
    BY <1>6, <2>2, <2>3 DEF TxnInv, WritesOK
<1>12. UninitializedOK'
  BY <1>1, <1>2 DEF UninitializedOK
<1>13. InitializedOK'
  <2>1. \A i \in 1..Len(coordNet) :
              LET e == coordNet[i]
              IN /\ e.t \in Txns /\ e.op # "init" /\ e.epoch = epoch
                 /\ e.op \in EndOps => i = Len(coordNet)
                 /\ e.op = "add" => e.p \in Partitions /\ call[e.t] # "none"
                 /\ e.op # "add" => e.p = None
                 /\ e.op \in {"addOffsets", "offsetCommit"} => Opened(e.t)
                 /\ e.op = "offsetCommit" =>
                       offsetsAdded /\ offs[e.t] \notin {"none", "adding"} /\ Ending(e.t)
    BY <1>1, <1>4, Shapes DEF TxnInv, InitializedOK
  <2>2. \A i \in 1..Len(coordNet') :
              LET e == coordNet'[i]
              IN /\ e.t \in Txns /\ e.op # "init" /\ e.epoch = epoch
                 /\ e.op \in EndOps => i = Len(coordNet')
                 /\ e.op = "add" => e.p \in Partitions /\ call[e.t] # "none"
                 /\ e.op # "add" => e.p = None
                 /\ e.op \in {"addOffsets", "offsetCommit"} => Opened(e.t)
                 /\ e.op = "offsetCommit" =>
                       offsetsAdded /\ offs[e.t] \notin {"none", "adding"} /\ Ending(e.t)
    BY <1>5, <2>1 DEF Forgets
  <2>3. \A r \in reply' : r.t \in Txns
    BY <1>6, Shapes DEF TxnInv
  <2>4. \A r \in reply' :
              /\ r.op # "init"
              /\ r.op \in {"add", "produce"} => r.p \in Partitions
              /\ r.op \in {"add", "addOffsets", "offsetCommit"} => Opened(r.t)'
              /\ r.op # "produce" => r.ok
    BY <1>1, <1>4, <1>6, <2>3 DEF TxnInv, InitializedOK
  <2>5. producerEpoch' = epoch'
    BY <1>1, <1>2 DEF TxnInv, InitializedOK
  <2> QED
    BY <1>2, <1>4, <1>7, <2>2, <2>4, <2>5 DEF InitializedOK
<1>14. OngoingOK'
  BY <1>2, <1>4, <1>7 DEF TxnInv, OngoingOK
<1>15. LogOK'
  BY <1>2, <1>4, <1>7, IsSame DEF TxnInv, LogOK
<1>16. EndTxnOK'
  <2>1. ASSUME NEW u \in Txns, Ending(u) PROVE ~coordNet'[Len(coordNet')].heard
    <3> DEFINE e == coordNet[Len(coordNet)]
    <3>1. coordNet \in Seq(CoordRequest) /\ coordNet # <<>> /\ Len(coordNet) \in 1..Len(coordNet)
          /\ e.op \in EndOps /\ e.t = u
      BY <2>1 DEF Ending, EndIn, TxnInv, TxnTypes
    <3>2. e.p = None
      BY <1>1, <3>1 DEF TxnInv, InitializedOK, EndOps
    <3>3. /\ e.heard => tx[u] = "ending"
          /\ txnState = IF EndIn(u, "commit") THEN "COMMITTING" ELSE "ABORTING"
      BY <2>1 DEF TxnInv, EndTxnOK
    <3>4. e.op = op
      BY <1>3, <3>1, <3>3 DEF EndIn, EndOps
    <3>5. e.heard => u = t
      BY <1>1, <3>3 DEF Busy
    <3>6. coordNet'[Len(coordNet')].heard => e.heard /\ ~(e.op = op /\ e.t = t /\ e.p = None)
      BY <1>5, <3>1
    <3> QED
      BY <3>1, <3>2, <3>4, <3>5, <3>6
  <2> QED
    BY <1>2, <1>4, <1>6, <1>7, <2>1, IsSame DEF TxnInv, EndTxnOK
<1>17. Promised'
  BY <1>2, IsSame DEF TxnInv, Promised, AbortedHidden, CommittedVisible, NothingLeftOpen
<1> QED
  BY <1>8, <1>9, <1>10, <1>11, <1>12, <1>13, <1>14, <1>15, <1>16, <1>17 DEF TxnInv

-----------------------------------------------------------------------------
(***************************************************************************)
(* The brokers                                                             *)
(***************************************************************************)

\* The coordinator takes its oldest request; the others move up.
LEMMA Served ==
    ASSUME TxnInv, NEW ops, NEW ok, NEW e, Handles(ops, ok, e)
    PROVE  /\ coordNet # <<>> /\ coordNet[1] = Head(coordNet) /\ 1 \in 1..Len(coordNet)
           /\ coordNet[1] \in CoordRequest /\ coordNet[1].t \in Txns /\ coordNet[1].op \in ops
           /\ coordNet' \in Seq(CoordRequest) /\ Len(coordNet') = Len(coordNet) - 1
           /\ coordNet' = <<>> <=> Len(coordNet) = 1
           /\ \A i \in 1..Len(coordNet') :
                 i + 1 \in 1..Len(coordNet) /\ coordNet'[i] = coordNet[i + 1]
<1>1. /\ coordNet # <<>> /\ Head(coordNet).op \in ops /\ coordNet' = Tail(coordNet)
      /\ coordNet \in Seq(CoordRequest)
  BY DEF Handles, TxnInv, TxnTypes
<1>2. /\ coordNet[1] = Head(coordNet) /\ 1 \in 1..Len(coordNet)
      /\ coordNet' \in Seq(CoordRequest) /\ Len(coordNet') = Len(coordNet) - 1
      /\ \A i \in 1..Len(coordNet') :
            i + 1 \in 1..Len(coordNet) /\ coordNet'[i] = coordNet[i + 1]
  BY <1>1
<1>3. coordNet[1] \in CoordRequest /\ coordNet[1].t \in Txns
  BY <1>2, Shapes DEF TxnInv
<1>4. Len(coordNet) \in Nat
  BY <1>1
<1>5. coordNet' = <<>> <=> Len(coordNet) = 1
  <2>1. coordNet' = <<>> <=> Len(coordNet') = 0
    BY <1>2, EmptySeq
  <2> QED
    BY <1>2, <1>4, <2>1
<1> QED
  BY <1>1, <1>2, <1>3, <1>5

\* Its answer, if somebody waits for it.
LEMMA Answered ==
    ASSUME TxnInv, NEW ops, NEW ok \in BOOLEAN, NEW e \in Nat, Handles(ops, ok, e)
    PROVE  \/ reply' = reply /\ ~coordNet[1].heard
           \/ /\ coordNet[1].heard
              /\ \E a \in Answer :
                    /\ reply' = reply \cup {a}
                    /\ a.op = coordNet[1].op /\ a.t = coordNet[1].t /\ a.p = coordNet[1].p
                    /\ a.ok = ok /\ a.epoch = e
<1> DEFINE q == coordNet[1]
           a == [op |-> q.op, t |-> q.t, p |-> q.p, ok |-> ok, epoch |-> e]
<1>1. q = Head(coordNet) /\ q \in CoordRequest
  BY Served
<1>2. a \in Answer /\ a.op = q.op /\ a.t = q.t /\ a.p = q.p /\ a.ok = ok /\ a.epoch = e
  BY <1>1 DEF CoordRequest, Answer
<1>3. reply' = IF q.heard THEN reply \cup {a} ELSE reply
  BY <1>1 DEF Handles
<1> HIDE DEF a, q
<1>4. CASE q.heard
  BY <1>2, <1>3, <1>4 DEF q
<1>5. CASE ~q.heard
  BY <1>3, <1>5 DEF q
<1> QED
  BY <1>4, <1>5

\* InitProducerId: it finds nothing to abort.
LEMMA CoordinatorInitKeeps ==
    ASSUME TxnInv, CoordinatorInit
    PROVE  TxnInv'
<1>1. PICK e \in Nat : e = epoch + 1 /\ epoch \in Nat
  BY DEF TxnInv, TxnTypes, TypeOK
<1>2. PICK ops : \E ok \in BOOLEAN : ops = {"init"} /\ ok = TRUE /\ Handles(ops, ok, e)
  BY <1>1 DEF CoordinatorInit
<1>3. /\ coordNet # <<>> /\ 1 \in 1..Len(coordNet)
      /\ coordNet[1] \in CoordRequest /\ coordNet[1].t \in Txns /\ coordNet[1].op = "init"
      /\ coordNet' \in Seq(CoordRequest) /\ Len(coordNet') = Len(coordNet) - 1
      /\ coordNet' = <<>> <=> Len(coordNet) = 1
      /\ \A i \in 1..Len(coordNet') :
            i + 1 \in 1..Len(coordNet) /\ coordNet'[i] = coordNet[i + 1]
  BY <1>2, Served
<1>4. producerEpoch = 0
  BY <1>3 DEF TxnInv, InitializedOK
<1>5. /\ ongoing = {} /\ ~ongoingOffsets /\ groupPending = None
      /\ \A r \in reply : FALSE
  BY <1>3, <1>4 DEF TxnInv, UninitializedOK
<1>6. /\ log' = log /\ groupOffset' = groupOffset /\ groupPending' = groupPending
      /\ ongoing' = {} /\ ~ongoingOffsets' /\ ongoingOffsets' \in BOOLEAN
  <2>1. log \in [Partitions -> Seq(Entry)]
    BY DEF TxnInv, TxnTypes
  <2>2. log' = [p \in Partitions |-> log[p]]
    BY <1>5 DEF CoordinatorInit, Completes
  <2>3. groupOffset' = groupOffset /\ groupPending' = None /\ ongoing' = {}
    BY <1>5 DEF CoordinatorInit, Completes
  <2>4. ~ongoingOffsets' /\ ongoingOffsets' \in BOOLEAN
    BY Zenon DEF CoordinatorInit, Completes
  <2> QED
    BY <1>5, <2>1, <2>2, <2>3, <2>4
<1>7. /\ epoch' = e
      /\ UNCHANGED <<managerVars, cachedOffset, txVars, callVars, partNet, bounds>>
  BY <1>1 DEF CoordinatorInit
<1>8. \A r \in reply' : /\ r \in Answer /\ r.op = "init" /\ r.p = None /\ r.ok = TRUE
                        /\ r.epoch = e /\ coordNet' = <<>> /\ tx[r.t] = "initializing"
  <2>1. CASE reply' = reply
    BY <1>5, <2>1
  <2>2. CASE coordNet[1].heard /\ \E a \in Answer :
                    /\ reply' = reply \cup {a}
                    /\ a.op = coordNet[1].op /\ a.t = coordNet[1].t /\ a.p = coordNet[1].p
                    /\ a.ok = TRUE /\ a.epoch = e
    <3>1. PICK a \in Answer :
                    /\ reply' = reply \cup {a}
                    /\ a.op = coordNet[1].op /\ a.t = coordNet[1].t /\ a.p = coordNet[1].p
                    /\ a.ok = TRUE /\ a.epoch = e
      BY <2>2
    <3>2. coordNet[1].p = None /\ 1 = Len(coordNet) /\ tx[coordNet[1].t] = "initializing"
      BY <1>3, <1>4, <2>2 DEF TxnInv, UninitializedOK
    <3>3. coordNet' = <<>>
      BY <1>3, <3>2
    <3> QED
      BY <1>3, <1>5, <3>1, <3>2, <3>3
  <2>3. \/ reply' = reply /\ ~coordNet[1].heard
        \/ /\ coordNet[1].heard
           /\ \E a \in Answer :
                    /\ reply' = reply \cup {a}
                    /\ a.op = coordNet[1].op /\ a.t = coordNet[1].t /\ a.p = coordNet[1].p
                    /\ a.ok = TRUE /\ a.epoch = e
    <3>1. PICK ok \in BOOLEAN : ok = TRUE /\ Handles(ops, ok, e)
      BY <1>2
    <3> QED
      BY <3>1, Answered
  <2> QED
    BY <1>2, <2>1, <2>2, <2>3
<1> USE DEF managerVars, txVars, callVars, bounds
<1>9. TxnTypes'
  <2>1. producerEpoch' \in 0..epoch' /\ epoch' \in Nat
    BY <1>1, <1>4, <1>7
  <2>2. reply' \subseteq Answer
    BY <1>8
  <2>3. ongoing' \subseteq Partitions
    BY <1>6
  <2> QED
    BY <1>3, <1>6, <1>7, <2>1, <2>2, <2>3 DEF TxnInv, TxnTypes, TypeOK
<1>10. ClientOK'
  BY <1>7 DEF TxnInv, ClientOK, Busy
<1>11. UninitializedOK'
  <2>1. \A i \in 1..Len(coordNet') :
              /\ coordNet'[i].op = "init" /\ coordNet'[i].p = None
              /\ coordNet'[i].heard => i = Len(coordNet') /\ tx[coordNet'[i].t] = "initializing"
    BY <1>3, <1>4 DEF TxnInv, UninitializedOK
  <2>2. epoch' > 0
    BY <1>1, <1>7
  <2> QED
    BY <1>5, <1>4, <1>6, <1>7, <1>8, <2>1, <2>2 DEF TxnInv, UninitializedOK
<1>12. \A u \in Txns : Opened(u) => Opened(u)'
  BY <1>7 DEF Opened
<1> QED
  BY <1>4, <1>6, <1>7, <1>9, <1>10, <1>11, <1>12, StillNothing

\* A request of a transaction, not one to end it, is handled.
LEMMA CoordinatorAddsKeeps ==
    ASSUME TxnInv, CoordinatorAdds
    PROVE  TxnInv'
<1> DEFINE q == coordNet[1]
<1>1. PICK e \in Nat : e = epoch
  BY DEF TxnInv, TxnTypes, TypeOK
<1>2. PICK ok \in BOOLEAN : ok = (Head(coordNet).epoch = epoch)
  OBVIOUS
<1>3. PICK ops : ops = {"add", "addOffsets", "offsetCommit"} /\ Handles(ops, ok, e)
  BY <1>1, <1>2 DEF CoordinatorAdds
<1>4. /\ coordNet # <<>> /\ 1 \in 1..Len(coordNet) /\ q = Head(coordNet)
      /\ q \in CoordRequest /\ q.t \in Txns /\ q.op \in {"add", "addOffsets", "offsetCommit"}
      /\ coordNet' \in Seq(CoordRequest) /\ Len(coordNet') = Len(coordNet) - 1
      /\ coordNet' = <<>> <=> Len(coordNet) = 1
      /\ \A i \in 1..Len(coordNet') :
            i + 1 \in 1..Len(coordNet) /\ coordNet'[i] = coordNet[i + 1]
  BY <1>3, Served
<1>5. producerEpoch # 0
  BY <1>4 DEF TxnInv, UninitializedOK
<1>6. /\ producerEpoch = epoch /\ q.epoch = epoch
      /\ q.op = "add" => q.p \in Partitions /\ call[q.t] # "none"
      /\ Opened(q.t)
      /\ q.op = "offsetCommit" =>
            /\ offsetsAdded /\ offs[q.t] \notin {"none", "adding"}
            /\ tx[q.t] = "open" \/ Ending(q.t)
  BY <1>4, <1>5 DEF TxnInv, InitializedOK, TasksOK
<1>7. /\ ongoing' = IF q.op = "add" THEN ongoing \cup {q.p} ELSE ongoing
      /\ ongoingOffsets' = (ongoingOffsets \/ q.op = "addOffsets")
      /\ groupPending' = IF q.op = "offsetCommit" THEN q.t ELSE groupPending
      /\ UNCHANGED <<managerVars, cachedOffset, txVars, callVars, partNet, epoch, groupOffset,
                     log, bounds>>
  BY <1>4, <1>6 DEF CoordinatorAdds
<1>8. \A r \in reply' : \/ r \in reply
                        \/ /\ r \in Answer /\ r.op = q.op /\ r.t = q.t /\ r.p = q.p
                           /\ r.ok = TRUE
  <2>1. ok = TRUE
    BY <1>2, <1>4, <1>6
  <2>2. \/ reply' = reply
        \/ \E a \in Answer :
               /\ reply' = reply \cup {a}
               /\ a.op = q.op /\ a.t = q.t /\ a.p = q.p /\ a.ok = ok
    BY <1>3, Answered
  <2> QED
    BY <2>1, <2>2
<1>9. reply \subseteq reply'
  BY <1>3, Answered
<1>10. \A r \in reply : r.op \notin EndOps
  BY <1>4 DEF TxnInv, EndTxnOK
<1>11. /\ \A u, op : op \in EndOps => (EndIn(u, op)' <=> EndIn(u, op))
       /\ \A u \in Txns : Ending(u)' <=> Ending(u)
  <2>1. coordNet' # <<>> => coordNet'[Len(coordNet')] = coordNet[Len(coordNet)]
    BY <1>4
  <2>2. coordNet' = <<>> => coordNet[Len(coordNet)] = q
    BY <1>4
  <2> QED
    BY <1>4, <2>1, <2>2 DEF EndIn, Ending, EndOps
<1> HIDE DEF q
<1> USE DEF managerVars, txVars, callVars, bounds
<1>12. /\ \A r \in reply' : r \in Answer /\ r.t \in Txns
       /\ \A r \in reply' : r.op \notin EndOps
       /\ \A r \in reply' : r.op \in {"init", "produce"} => r \in reply
  BY <1>4, <1>8, <1>10, Shapes DEF TxnInv, EndOps
<1>13. /\ ongoing \subseteq ongoing' /\ ongoing' \subseteq Partitions
       /\ ongoingOffsets \in BOOLEAN /\ (ongoingOffsets => ongoingOffsets')
       /\ groupPending \in Txns \cup {None} /\ groupPending' \in Txns \cup {None}
  BY <1>4, <1>6, <1>7 DEF TxnInv, TxnTypes, TypeOK
<1>14. TxnTypes'
  <2>1. ongoingOffsets' \in BOOLEAN
    BY <1>7, Zenon
  <2> QED
    BY <1>4, <1>7, <1>12, <1>13, <2>1 DEF TxnInv, TxnTypes, TypeOK
<1>15. ClientOK' /\ TasksOK'
  BY <1>7 DEF TxnInv, ClientOK, TasksOK, Busy, Opened
<1>16. WritesOK'
  BY <1>7, <1>12 DEF TxnInv, WritesOK
<1>17. UninitializedOK'
  BY <1>5, <1>7 DEF UninitializedOK
<1>18. \A u \in Txns : Opened(u)' <=> Opened(u)
  BY <1>7 DEF Opened
<1>19. InitializedOK'
  <2>1. ASSUME NEW i \in 1..Len(coordNet')
        PROVE  LET g == coordNet'[i]
               IN /\ g.t \in Txns /\ g.op # "init" /\ g.epoch = epoch
                  /\ g.op \in EndOps => i = Len(coordNet')
                  /\ g.op = "add" => g.p \in Partitions /\ call[g.t] # "none"
                  /\ g.op # "add" => g.p = None
                  /\ g.op \in {"addOffsets", "offsetCommit"} => Opened(g.t)
                  /\ g.op = "offsetCommit" =>
                        /\ offsetsAdded /\ offs[g.t] \notin {"none", "adding"}
                        /\ tx[g.t] = "open" \/ Ending(g.t)
    <3>1. i + 1 \in 1..Len(coordNet) /\ coordNet'[i] = coordNet[i + 1]
      BY <1>4
    <3>2. coordNet[i + 1].t \in Txns
      BY <3>1, Shapes DEF TxnInv
    <3> QED
      BY <1>4, <1>5, <3>1, <3>2 DEF TxnInv, InitializedOK
  <2>2. \A r \in reply' :
              /\ r.op # "init"
              /\ r.op \in {"add", "produce"} => r.p \in Partitions
              /\ r.op \in {"add", "addOffsets", "offsetCommit"} => Opened(r.t)
              /\ r.op # "produce" => r.ok
    BY <1>4, <1>5, <1>6, <1>8 DEF TxnInv, InitializedOK
  <2> QED
    BY <1>6, <1>7, <1>11, <1>12, <1>18, <2>1, <2>2 DEF InitializedOK
<1>20. groupPending' # None =>
          /\ offsetsAdded /\ offs[groupPending'] \notin {"none", "adding"}
          /\ tx[groupPending'] = "open" \/ Ending(groupPending')
  BY <1>6, <1>7 DEF TxnInv, OngoingOK
<1>21. ASSUME NEW t \in Txns, tx[t] = "open", q.op = "offsetCommit" PROVE q.t = t
  BY <1>4, <1>6, <1>21, WhileOpen DEF Busy
<1>22. OngoingOK'
  <2>1. ASSUME NEW t \in Txns, tx[t] = "open"
        PROVE  /\ \A r \in reply' : r.t = t =>
                     /\ r.op = "add" => r.p \in ongoing'
                     /\ r.op = "addOffsets" => ongoingOffsets'
                     /\ r.op = "offsetCommit" => groupPending' = t
               /\ offs[t] = "done" => groupPending' = t
    <3>1. groupPending = t => groupPending' = t
      BY <1>7, <1>21, <2>1
    <3>2. \A r \in reply : r.t = t =>
                     /\ r.op = "add" => r.p \in ongoing
                     /\ r.op = "addOffsets" => ongoingOffsets
                     /\ r.op = "offsetCommit" => groupPending = t
      BY <2>1 DEF TxnInv, OngoingOK
    <3>3. offs[t] = "done" => groupPending' = t
      BY <2>1, <3>1 DEF TxnInv, OngoingOK
    <3>4. /\ q.op = "add" => q.p \in ongoing'
          /\ q.op = "addOffsets" => ongoingOffsets'
          /\ q.op = "offsetCommit" => groupPending' = q.t
      BY <1>7
    <3> QED
      BY <1>8, <1>13, <3>1, <3>2, <3>3, <3>4
  <2>2. txnState = "TRANSACTING" \/ (\E t \in Txns : Ending(t)) =>
          added \subseteq ongoing' /\ (offsetsAdded => ongoingOffsets')
    BY <1>13 DEF TxnInv, OngoingOK
  <2> QED
    BY <1>7, <1>11, <1>13, <1>20, <2>1, <2>2 DEF OngoingOK
<1>23. LogOK'
  <2>1. \A r \in reply' : r.op = "produce" => r \in reply
    BY <1>12
  <2> QED
    BY <1>7, <1>11, <1>13, <2>1, IsSame DEF TxnInv, LogOK, EndOps
<1>24. EndTxnOK'
  <2>1. ASSUME NEW t \in Txns, Ending(t)
        PROVE  /\ groupPending = t => groupPending' = t
               /\ coordNet'[Len(coordNet')] = coordNet[Len(coordNet)]
    <3>1. txnState # "TRANSACTING"
      BY <2>1 DEF TxnInv, EndTxnOK
    <3>2. q.op = "offsetCommit" => q.t = t
      <4>1. tx[q.t] # "open"
        BY <1>4, <3>1 DEF TxnInv, ClientOK
      <4> QED
        BY <1>6, <2>1, <4>1 DEF Ending, EndIn
    <3>3. Ending(t)'
      BY <1>11, <2>1
    <3>4. coordNet' # <<>>
      BY <3>3 DEF Ending, EndIn
    <3> QED
      BY <1>4, <1>7, <3>2, <3>4
  <2>2. /\ \A t \in Txns : EndIn(t, "commit")' <=> EndIn(t, "commit")
    BY <1>11 DEF EndOps
  <2> QED
    BY <1>7, <1>11, <1>12, <2>1, <2>2, IsSame DEF TxnInv, EndTxnOK
<1>25. Promised'
  <2>1. txnState = "READY" => groupPending' = None
    <3>1. txnState = "READY" => ~offsetsAdded
      BY DEF TxnInv, TxnTypes, TypeOK
    <3> QED
      BY <1>20, <3>1
  <2> QED
    BY <1>7, <2>1, IsSame DEF TxnInv, Promised, AbortedHidden, CommittedVisible, NothingLeftOpen
<1> QED
  BY <1>14, <1>15, <1>16, <1>17, <1>19, <1>22, <1>23, <1>24, <1>25 DEF TxnInv

\* What the markers of EndTxn do to the logs, all of which is of one transaction.
LEMMA MarkersWritten ==
    ASSUME TxnInv, NEW t \in Txns, NEW k \in EndOps, Completes(k),
           \A u \in Txns, p \in Partitions : Is(u, p, "open") => p \in ongoing /\ u = t
    PROVE  \A u \in Txns, p \in Partitions :
              /\ ~Is(u, p, "open")'
              /\ \A f \in EndOps :
                    Is(u, p, f)' <=> Is(u, p, f) \/ (f = k /\ u = t /\ Is(t, p, "open"))
<1> SUFFICES ASSUME NEW u \in Txns, NEW p \in Partitions
             PROVE  /\ ~Is(u, p, "open")'
                    /\ \A f \in EndOps : Is(u, p, f)' <=>
                          Is(u, p, f) \/ (f = k /\ u = t /\ Is(t, p, "open"))
  OBVIOUS
<1>1. log[p] \in Seq(Entry)
  BY DEF TxnInv, TxnTypes
<1>2. Is(u, p, "open") => p \in ongoing /\ u = t
  OBVIOUS
<1>3. "open" \notin EndOps
  BY DEF EndOps
<1>4. CASE p \in ongoing
  <2>1. log'[p] = Append(log[p], [t |-> None, kind |-> k])
    BY <1>4 DEF Completes
  <2>2. \A f : IsIn(log'[p], u, f) <=>
           (IsIn(log[p], u, f) /\ f # "open") \/ (f = k /\ IsIn(log[p], u, "open"))
    BY <1>1, <2>1, MarkerDecides
  <2>3. \A f : (Is(u, p, f) <=> IsIn(log[p], u, f)) /\ (Is(u, p, f)' <=> IsIn(log'[p], u, f))
    BY IsOfLog
  <2> QED
    BY <1>2, <1>3, <2>2, <2>3
<1>5. CASE p \notin ongoing
  <2>1. log'[p] = log[p]
    BY <1>5 DEF Completes
  <2>2. \A f : (Is(u, p, f) <=> IsIn(log[p], u, f)) /\ (Is(u, p, f)' <=> IsIn(log'[p], u, f))
    BY IsOfLog
  <2>3. Is(t, p, "open") => p \in ongoing
    OBVIOUS
  <2> QED
    BY <1>2, <1>5, <2>1, <2>2, <2>3
<1> QED
  BY <1>4, <1>5

\* EndTxn: the markers are written to all partitions of the transaction.
LEMMA CoordinatorEndsKeeps ==
    ASSUME TxnInv, CoordinatorEnds
    PROVE  TxnInv'
<1> DEFINE q == coordNet[1]
<1>1. PICK e \in Nat : e = epoch
  BY DEF TxnInv, TxnTypes, TypeOK
<1>2. PICK ok \in BOOLEAN :
         ok = (Head(coordNet).epoch = epoch /\ (ongoing # {} \/ ongoingOffsets))
  OBVIOUS
<1>3. PICK ops : ops = EndOps /\ Handles(ops, ok, e)
  BY <1>1, <1>2 DEF CoordinatorEnds, EndOps
<1>4. /\ coordNet # <<>> /\ 1 \in 1..Len(coordNet) /\ q = Head(coordNet)
      /\ q \in CoordRequest /\ q.t \in Txns /\ q.op \in EndOps
      /\ coordNet' = <<>> <=> Len(coordNet) = 1
  BY <1>3, Served
<1>5. producerEpoch # 0
  BY <1>4 DEF TxnInv, UninitializedOK, EndOps
<1>6. q.epoch = epoch /\ producerEpoch = epoch /\ Len(coordNet) = 1 /\ q.p = None
  BY <1>4, <1>5 DEF TxnInv, InitializedOK, EndOps
<1>7. PICK t \in Txns : t = q.t
  BY <1>4
<1>8. PICK k \in EndOps : k = q.op
  BY <1>4
<1>9. /\ EndIn(t, k) /\ Ending(t)
      /\ \A u, op : EndIn(u, op) => u = t /\ op = k
      /\ \A u : Ending(u) => u = t
  BY <1>4, <1>6, <1>7, <1>8 DEF EndIn, Ending
<1>10. /\ tx[t] \in {"ending", "rejected"} /\ (q.heard => tx[t] = "ending")
       /\ txnState = IF k = "commit" THEN "COMMITTING" ELSE "ABORTING"
       /\ added # {} \/ offsetsAdded
       /\ \A r \in reply : r.op \notin EndOps
       /\ k = "commit" =>
             /\ \A p \in PartsOf[t] : Is(t, p, "open")
             /\ t \in WithOffsets => groupPending = t
             /\ offs[t] \in {"none", "done"}
  <2>1. q = coordNet[Len(coordNet)]
    BY <1>6
  <2> HIDE DEF q
  <2> QED
    BY <1>9, <2>1 DEF TxnInv, EndTxnOK
<1>11. added \subseteq ongoing /\ (offsetsAdded => ongoingOffsets)
  BY <1>9 DEF TxnInv, OngoingOK
<1>12. ok = TRUE
  BY <1>2, <1>4, <1>6, <1>10, <1>11
<1>13. /\ Completes(k)
       /\ UNCHANGED <<managerVars, cachedOffset, txVars, callVars, partNet, epoch, bounds>>
  BY <1>2, <1>4, <1>8, <1>12 DEF CoordinatorEnds
<1>14. coordNet' = <<>>
  BY <1>4, <1>6
<1>15. \A u \in Txns : tx[u] # "open"
  BY <1>10 DEF TxnInv, ClientOK
<1>16. \A u \in Txns, p \in Partitions : Is(u, p, "open") => p \in ongoing /\ u = t
  BY <1>9, <1>15 DEF TxnInv, LogOK
<1>17. \A u \in Txns, p \in Partitions :
              /\ ~Is(u, p, "open")'
              /\ \A f \in EndOps :
                    Is(u, p, f)' <=> Is(u, p, f) \/ (f = k /\ u = t /\ Is(t, p, "open"))
  BY <1>13, <1>16, MarkersWritten
<1>18. \A r \in reply' : \/ r \in reply
                         \/ /\ q.heard /\ r \in Answer /\ r.op = k /\ r.t = t /\ r.p = None
                            /\ r.ok = TRUE /\ r.epoch = epoch
  <2>1. \/ reply' = reply
        \/ /\ q.heard
           /\ \E a \in Answer :
                 /\ reply' = reply \cup {a}
                 /\ a.op = q.op /\ a.t = q.t /\ a.p = q.p /\ a.ok = ok /\ a.epoch = e
    BY <1>3, Answered
  <2> QED
    BY <1>1, <1>6, <1>7, <1>8, <1>12, <2>1
<1>19. \A u, op : ~EndIn(u, op)' /\ ~Ending(u)'
  BY <1>14 DEF EndIn, Ending
<1>20. groupPending # None => groupPending = t
  <2>1. groupPending # None => groupPending \in Txns
    BY DEF TxnInv, TxnTypes, TypeOK
  <2>2. groupPending # None => tx[groupPending] = "open" \/ Ending(groupPending)
    BY DEF TxnInv, OngoingOK
  <2> QED
    BY <1>9, <1>15, <2>1, <2>2
<1>21. groupPending # None => offs[t] \notin {"none", "adding"}
  BY <1>20 DEF TxnInv, OngoingOK
<1>22. /\ groupPending' = None /\ ongoing' = {} /\ ongoingOffsets' = FALSE
       /\ groupOffset' = IF k = "commit" /\ groupPending # None THEN groupPending ELSE groupOffset
  BY <1>13 DEF Completes
<1>23. t # None /\ PartsOf[t] \subseteq Partitions
  BY TransactionsAssumption
<1> HIDE DEF q
<1> USE DEF managerVars, txVars, callVars, bounds
<1>24. \A r \in reply' : r.op \notin EndOps => r \in reply
  BY <1>18
<1>25. TxnTypes'
  <2>1. log' \in [Partitions -> Seq(Entry)]
    <3>1. [t |-> None, kind |-> k] \in Entry
      BY DEF Entry
    <3>2. log \in [Partitions -> Seq(Entry)]
      BY DEF TxnInv, TxnTypes
    <3>3. \A p \in Partitions : Append(log[p], [t |-> None, kind |-> k]) \in Seq(Entry)
      BY <3>1, <3>2
    <3> QED
      BY <1>13, <3>2, <3>3 DEF Completes
  <2>2. groupOffset' \in Txns \cup {None}
    BY <1>20, <1>22 DEF TxnInv, TxnTypes, TypeOK
  <2>3. coordNet' \in Seq(CoordRequest)
    BY <1>14
  <2>4. reply' \subseteq Answer
    BY <1>18 DEF TxnInv, TxnTypes
  <2>5. groupPending' \in Txns \cup {None} /\ ongoing' \subseteq Partitions
        /\ ongoingOffsets' \in BOOLEAN
    BY <1>22
  <2> QED
    BY <1>13, <2>1, <2>2, <2>3, <2>4, <2>5 DEF TxnInv, TxnTypes, TypeOK
<1>26. ClientOK' /\ TasksOK'
  BY <1>13 DEF TxnInv, ClientOK, TasksOK, Busy, Opened
<1>27. WritesOK'
  <2>1. \A r \in reply' : r.op = "produce" => r \in reply
    BY <1>24 DEF EndOps
  <2> QED
    BY <1>13, <2>1 DEF TxnInv, WritesOK
<1>28. UninitializedOK'
  BY <1>5, <1>13 DEF UninitializedOK
<1>29. InitializedOK'
  <2>1. \A i \in 1..Len(coordNet') : FALSE
    BY <1>14
  <2>2. \A u \in Txns : Opened(u)' <=> Opened(u)
    BY <1>13 DEF Opened
  <2>3. \A r \in reply' :
              /\ r.t \in Txns
              /\ r.op # "init"
              /\ r.op \in {"add", "produce"} => r.p \in Partitions
              /\ r.op \in {"add", "addOffsets", "offsetCommit"} => Opened(r.t)
              /\ r.op # "produce" => r.ok
    <3>1. \A r \in reply :
              /\ r.t \in Txns
              /\ r.op # "init"
              /\ r.op \in {"add", "produce"} => r.p \in Partitions
              /\ r.op \in {"add", "addOffsets", "offsetCommit"} => Opened(r.t)
              /\ r.op # "produce" => r.ok
      BY <1>5, Shapes DEF TxnInv, InitializedOK
    <3> QED
      BY <1>18, <3>1 DEF EndOps
  <2> QED
    BY <1>6, <1>13, <2>1, <2>2, <2>3 DEF InitializedOK
<1>30. OngoingOK'
  BY <1>10, <1>13, <1>15, <1>19, <1>22 DEF OngoingOK
<1>31. LogOK'
  <2>1. \A u \in Txns, p \in Partitions :
           \A f \in {"open", "commit", "abort"} : Is(u, p, f)' => call[u] # "none"
    BY <1>17 DEF TxnInv, LogOK, EndOps
  <2> QED
    BY <1>13, <1>15, <1>17, <1>19, <2>1 DEF LogOK
<1>32. EndTxnOK'
  <2>1. ASSUME NEW r \in reply', r.op \in EndOps
        PROVE  /\ r.p = None /\ r.ok = TRUE /\ r.epoch = epoch
               /\ tx[r.t] = "ending"
               /\ txnState = IF r.op = "commit" THEN "COMMITTING" ELSE "ABORTING"
               /\ r.op = k /\ r.t = t
    BY <1>10, <1>18, <2>1
  <2>2. k = "commit" =>
                /\ \A p \in PartsOf[t] : Is(t, p, "commit")'
                /\ t \in WithOffsets => groupOffset' = t /\ offs[t] = "done"
    BY <1>10, <1>17, <1>21, <1>22, <1>23
  <2>3. k = "abort" => \A p \in Partitions : ~Is(t, p, "commit")'
    <3>1. k = "abort" => \A p \in Partitions : ~Is(t, p, "commit")
      BY <1>9 DEF TxnInv, LogOK
    <3> QED
      BY <1>17, <3>1 DEF EndOps
  <2> QED
    BY <1>13, <1>14, <1>17, <1>19, <1>22, <2>1, <2>2, <2>3 DEF EndTxnOK
<1>33. Promised'
  <2>1. \A u \in Txns : outcome[u] \in EndOps => u # t
    BY <1>10, TransactionsAssumption DEF TxnInv, ClientOK, EndOps
  <2>2. AbortedHidden'
    BY <1>13, <1>17, <2>1 DEF TxnInv, Promised, AbortedHidden, EndOps
  <2>3. NothingLeftOpen'
    BY <1>10, <1>13 DEF NothingLeftOpen
  <2>4. ASSUME NEW u \in Txns, outcome[u] = "commit"
        PROVE  /\ \A p \in PartsOf[u] : Is(u, p, "commit")'
               /\ u \in WithOffsets =>
                     \/ groupOffset' = u
                     \/ \E w \in WithOffsets \ {u} : offs[w] = "done"
    <3>1. \A p \in PartsOf[u] : p \in Partitions /\ Is(u, p, "commit")
      BY <2>4, TransactionsAssumption DEF TxnInv, Promised, CommittedVisible
    <3>2. \A p \in PartsOf[u] : Is(u, p, "commit")'
      BY <1>17, <3>1 DEF EndOps
    <3>3. CASE groupOffset' = groupOffset
      BY <2>4, <3>2, <3>3 DEF TxnInv, Promised, CommittedVisible
    <3>4. CASE groupOffset' # groupOffset
      <4>1. k = "commit" /\ groupPending # None
        BY <1>22, <3>4
      <4>2. offs[t] = "done"
        BY <1>10, <1>21, <4>1
      <4>3. t \in WithOffsets
        BY <4>2 DEF TxnInv, TasksOK
      <4>4. t # u
        BY <2>1, <2>4 DEF EndOps
      <4> QED
        BY <3>2, <4>2, <4>3, <4>4
    <3> QED
      BY <3>3, <3>4
  <2>5. CommittedVisible'
    BY <1>13, <2>4 DEF CommittedVisible
  <2> QED
    BY <2>2, <2>3, <2>5 DEF Promised
<1> QED
  BY <1>25, <1>26, <1>27, <1>28, <1>29, <1>30, <1>31, <1>32, <1>33 DEF TxnInv

\* What is in a log is open, committed or aborted.
LEMMA OneOfThree ==
    ASSUME NEW lg \in Seq(Entry), NEW t
    PROVE  (\E i \in 1..Len(lg) : lg[i].t = t)
              <=> \E f \in {"open", "commit", "abort"} : IsIn(lg, t, f)
<1>1. \A i \in 1..Len(lg) : FateIn(lg, i) \in {"open", "commit", "abort"}
  <2> SUFFICES ASSUME NEW i \in 1..Len(lg)
               PROVE  FateIn(lg, i) \in {"open", "commit", "abort"}
    OBVIOUS
  <2>1. CASE Markers(lg, i) = {}
    BY <2>1, OpenFate
  <2>2. CASE Markers(lg, i) # {}
    <3>1. lg[i] \in Entry
      OBVIOUS
    <3>2. FateIn(lg, i) \in EndOps
      BY <2>2, <3>1, FateStays
    <3> QED
      BY <3>2 DEF EndOps
  <2> QED
    BY <2>1, <2>2
<1> QED
  BY <1>1 DEF IsIn

\* The leader's log after a write: it is there once, and open.
LEMMA WrittenOnce ==
    ASSUME TxnInv, NEW t \in Txns, NEW p \in Partitions, tx[t] = "open",
           NEW accepted \in BOOLEAN,
           log' = IF accepted /\ ~(\E i \in 1..Len(log[p]) : log[p][i].t = t)
                  THEN [log EXCEPT ![p] = Append(@, [t |-> t, kind |-> "data"])]
                  ELSE log
    PROVE  /\ log' \in [Partitions -> Seq(Entry)]
           /\ \A u \in Txns, x \in Partitions, f \in {"open", "commit", "abort"} :
                 /\ Is(u, x, f) => Is(u, x, f)'
                 /\ Is(u, x, f)' => Is(u, x, f) \/ (u = t /\ x = p /\ f = "open")
           /\ accepted => Is(t, p, "open")'
<1> DEFINE known == \E i \in 1..Len(log[p]) : log[p][i].t = t
           w == [t |-> t, kind |-> "data"]
<1>1. log \in [Partitions -> Seq(Entry)] /\ log[p] \in Seq(Entry)
  BY DEF TxnInv, TxnTypes
<1>2. known => Is(t, p, "open")
  <2>1. ~Is(t, p, "commit") /\ ~Is(t, p, "abort")
    BY DEF TxnInv, LogOK
  <2>2. known => \E f \in {"open", "commit", "abort"} : IsIn(log[p], t, f)
    BY <1>1, OneOfThree
  <2>3. \A f : Is(t, p, f) <=> IsIn(log[p], t, f)
    BY IsOfLog
  <2> QED
    BY <2>1, <2>2, <2>3
<1> HIDE DEF known
<1>3. CASE ~(accepted /\ ~known)
  <2>1. log' = log
    BY <1>3 DEF known
  <2> QED
    BY <1>1, <1>2, <1>3, <2>1, IsSame
<1>4. CASE accepted /\ ~known
  <2>1. log' = [log EXCEPT ![p] = Append(@, w)]
    BY <1>4 DEF known
  <2>2. w \in Entry
    BY DEF Entry
  <2>3. log'[p] = Append(log[p], w) /\ \A x \in Partitions \ {p} : log'[x] = log[x]
    BY <1>1, <2>1
  <2>4. log' \in [Partitions -> Seq(Entry)]
    <3> HIDE DEF w
    <3> QED
      BY <1>1, <2>1, <2>2
  <2>5. \A u \in Txns : \A f : IsIn(log'[p], u, f) <=> IsIn(log[p], u, f) \/ (u = t /\ f = "open")
    BY <1>1, <2>3, WriteIsOpen
  <2>6. \A u, x, f : (Is(u, x, f) <=> IsIn(log[x], u, f)) /\ (Is(u, x, f)' <=> IsIn(log'[x], u, f))
    BY IsOfLog
  <2> HIDE DEF w
  <2> QED
    BY <2>3, <2>4, <2>5, <2>6
<1> QED
  BY <1>3, <1>4

\* The leader answers a write of the open transaction, which it may have
\* appended before.
LEMMA LeaderHandlesKeeps ==
    ASSUME OnePartition, TxnInv, NEW p \in Partitions, NEW refuse \in BOOLEAN,
           LeaderHandles(p, refuse)
    PROVE  TxnInv'
<1> DEFINE q == partNet[p][1]
<1>1. /\ partNet[p] # <<>> /\ 1 \in 1..Len(partNet[p]) /\ q = Head(partNet[p])
      /\ q \in WriteRequest /\ q.t \in Txns
      /\ partNet \in [Partitions -> Seq(WriteRequest)] /\ partNet[p] \in Seq(WriteRequest)
  <2>1. partNet[p] # <<>> /\ partNet \in [Partitions -> Seq(WriteRequest)]
    BY DEF LeaderHandles, TxnInv, TxnTypes
  <2>2. 1 \in 1..Len(partNet[p]) /\ q = Head(partNet[p]) /\ partNet[p] \in Seq(WriteRequest)
    BY <2>1
  <2> QED
    BY <2>1, <2>2, WriteShapes DEF TxnInv
<1>2. /\ q.epoch = producerEpoch /\ q.p = p /\ task[q.t][p] \in {"starting", "producing"}
      /\ p \in added
      /\ q.heard => 1 = Len(partNet[p]) /\ task[q.t][p] = "producing"
  BY <1>1 DEF TxnInv, WritesOK
<1>3. PICK t \in Txns : t = q.t
  BY <1>1
<1>4. /\ tx[t] = "open" /\ call[t] = "sending"
      /\ \A u \in Txns, x \in Partitions :
            task[u][x] \in {"starting", "adding", "producing"} => u = t /\ x = p
  BY <1>2, <1>3, AtWork
<1>5. /\ txnState = "TRANSACTING" /\ producerEpoch = epoch /\ producerEpoch # 0
      /\ \A u \in Txns : tx[u] = "open" => u = t
      /\ added \subseteq ongoing
      /\ \A r \in reply : r.op \notin EndOps
  BY <1>4, WhileOpen DEF Busy
<1>6. \A r \in reply : r.op # "produce"
  <2>1. \A r \in reply : r.op = "produce" => r.p \in Partitions /\ r.t \in Txns
    BY <1>5, Shapes DEF TxnInv, InitializedOK
  <2>2. \A r \in reply : r.op = "produce" => partNet[r.p] = <<>> /\ task[r.t][r.p] = "producing"
    BY <2>1 DEF TxnInv, WritesOK
  <2> QED
    BY <1>1, <1>4, <2>1, <2>2
<1>7. PICK ok \in BOOLEAN : ok = (~refuse)
  OBVIOUS
<1>8. /\ refuse => faults < MaxFaults
      /\ faults' = IF refuse THEN faults + 1 ELSE faults
      /\ partNet' = [partNet EXCEPT ![p] = Tail(@)]
      /\ UNCHANGED <<managerVars, cachedOffset, txVars, callVars, coordNet, coordVars, endFaults>>
  BY DEF LeaderHandles
<1>9. log' = IF ok /\ ~(\E i \in 1..Len(log[p]) : log[p][i].t = t)
             THEN [log EXCEPT ![p] = Append(@, [t |-> t, kind |-> "data"])]
             ELSE log
  BY <1>1, <1>2, <1>3, <1>5, <1>7 DEF LeaderHandles
<1>10. /\ log' \in [Partitions -> Seq(Entry)]
       /\ \A u \in Txns, x \in Partitions, f \in {"open", "commit", "abort"} :
             /\ Is(u, x, f) => Is(u, x, f)'
             /\ Is(u, x, f)' => Is(u, x, f) \/ (u = t /\ x = p /\ f = "open")
       /\ ok => Is(t, p, "open")'
  BY <1>4, <1>9, WrittenOnce
<1>11. /\ \A r \in reply' : \/ r \in reply
                            \/ /\ q.heard /\ r \in Answer /\ r.op = "produce" /\ r.t = t
                               /\ r.p = p /\ (r.ok => ok)
       /\ \A r, s \in reply' : r.op = "produce" /\ s.op = "produce" => r = s
  <2> DEFINE a == [op |-> "produce", t |-> t, p |-> p, ok |-> ok, epoch |-> epoch]
  <2>1. reply' = IF q.heard THEN reply \cup {a} ELSE reply
    BY <1>1, <1>2, <1>3, <1>5, <1>7 DEF LeaderHandles
  <2>2. epoch \in Nat
    BY DEF TxnInv, TxnTypes, TypeOK
  <2>3. a \in Answer /\ a.op = "produce" /\ a.t = t /\ a.p = p /\ (a.ok => ok)
    BY <2>2 DEF Answer
  <2> HIDE DEF a
  <2> QED
    BY <1>6, <2>1, <2>3
<1>12. /\ \A x \in Partitions \ {p} : partNet'[x] = partNet[x]
       /\ partNet'[p] \in Seq(WriteRequest) /\ Len(partNet'[p]) = Len(partNet[p]) - 1
       /\ Len(partNet[p]) \in Nat
       /\ \A i \in 1..Len(partNet'[p]) :
             i + 1 \in 1..Len(partNet[p]) /\ partNet'[p][i] = partNet[p][i + 1]
       /\ partNet' \in [Partitions -> Seq(WriteRequest)]
  <2>1. partNet'[p] = Tail(partNet[p]) /\ \A x \in Partitions \ {p} : partNet'[x] = partNet[x]
    BY <1>1, <1>8
  <2>2. /\ Tail(partNet[p]) \in Seq(WriteRequest)
        /\ Len(Tail(partNet[p])) = Len(partNet[p]) - 1 /\ Len(partNet[p]) \in Nat
        /\ \A i \in 1..Len(Tail(partNet[p])) :
             i + 1 \in 1..Len(partNet[p]) /\ Tail(partNet[p])[i] = partNet[p][i + 1]
    BY <1>1
  <2>3. partNet' \in [Partitions -> Seq(WriteRequest)]
    BY <1>1, <1>8, <2>2
  <2> QED
    BY <2>1, <2>2, <2>3
<1>13. q.heard => partNet'[p] = <<>>
  <2>1. q.heard => Len(partNet'[p]) = 0
    BY <1>2, <1>12
  <2> QED
    BY <1>12, <2>1, EmptySeq
<1> HIDE DEF q
<1> USE DEF managerVars, txVars, callVars, coordVars
<1>14. /\ \A u, op : EndIn(u, op)' <=> EndIn(u, op)
       /\ \A u : Ending(u)' <=> Ending(u)
       /\ \A u : Opened(u)' <=> Opened(u)
  BY <1>8, EndSame DEF Opened
<1>15. \A r \in reply' : r.op # "produce" => r \in reply
  BY <1>11
<1>16. TxnTypes'
  <2>1. MaxFaults \in Nat
    BY TransactionsAssumption
  <2>2. faults' \in 0..MaxFaults
    BY <1>8, <2>1 DEF TxnInv, TxnTypes, TypeOK
  <2>3. reply' \subseteq Answer
    BY <1>11 DEF TxnInv, TxnTypes
  <2> QED
    BY <1>8, <1>10, <1>12, <2>2, <2>3 DEF TxnInv, TxnTypes, TypeOK
<1>17. ClientOK' /\ TasksOK'
  BY <1>8 DEF TxnInv, ClientOK, TasksOK, Busy, Opened
<1>18. WritesOK'
  <2>1. ASSUME NEW x \in Partitions, NEW i \in 1..Len(partNet'[x])
        PROVE  LET g == partNet'[x][i]
               IN /\ g.epoch = producerEpoch /\ g.p = x
                  /\ task[g.t][x] \in {"starting", "producing"}
                  /\ x \in added
                  /\ g.heard => i = Len(partNet'[x]) /\ task[g.t][x] = "producing"
    <3>1. CASE x = p
      <4>1. i + 1 \in 1..Len(partNet[p]) /\ partNet'[p][i] = partNet[p][i + 1]
        BY <1>12, <3>1
      <4>2. /\ partNet[p][i + 1].epoch = producerEpoch /\ partNet[p][i + 1].p = p
            /\ task[partNet[p][i + 1].t][p] \in {"starting", "producing"}
            /\ p \in added
            /\ partNet[p][i + 1].heard => i + 1 = Len(partNet[p])
                                          /\ task[partNet[p][i + 1].t][p] = "producing"
        BY <4>1 DEF TxnInv, WritesOK
      <4> QED
        BY <1>12, <3>1, <4>1, <4>2
    <3>2. CASE x # p
      BY <1>12, <3>2 DEF TxnInv, WritesOK
    <3> QED
      BY <3>1, <3>2
  <2>2. ASSUME NEW r \in reply', r.op = "produce"
        PROVE  r.p = p /\ partNet'[p] = <<>> /\ task[r.t][p] = "producing"
    <3>1. q.heard /\ r.t = t /\ r.p = p
      BY <1>6, <1>11, <2>2
    <3> QED
      BY <1>2, <1>3, <1>13, <3>1
  <2> QED
    BY <1>8, <1>11, <2>1, <2>2 DEF WritesOK
<1>19. UninitializedOK'
  BY <1>5, <1>8 DEF UninitializedOK
<1>20. InitializedOK'
  <2>1. \A r \in reply' :
              /\ r.op # "init"
              /\ r.op \in {"add", "produce"} => r.p \in Partitions
              /\ r.op \in {"add", "addOffsets", "offsetCommit"} => Opened(r.t)
              /\ r.op # "produce" => r.ok
    BY <1>5, <1>11 DEF TxnInv, InitializedOK
  <2> QED
    BY <1>5, <1>8, <1>14, <2>1 DEF TxnInv, InitializedOK
<1>21. OngoingOK'
  <2>1. \A u \in Txns : tx[u] = "open" => \A r \in reply' : r.t = u =>
                /\ r.op = "add" => r.p \in ongoing
                /\ r.op = "addOffsets" => ongoingOffsets
                /\ r.op = "offsetCommit" => groupPending = u
    BY <1>15 DEF TxnInv, OngoingOK
  <2> QED
    BY <1>8, <1>14, <2>1 DEF TxnInv, OngoingOK
<1>22. LogOK'
  <2>1. ASSUME NEW u \in Txns, NEW x \in Partitions
        PROVE  /\ Is(u, x, "open")' =>
                     x \in added /\ x \in ongoing /\ (tx[u] = "open" \/ Ending(u))
               /\ \A f \in {"open", "commit", "abort"} : Is(u, x, f)' => call[u] # "none"
               /\ tx[u] = "open" \/ EndIn(u, "abort") => ~Is(u, x, "commit")'
               /\ tx[u] = "open" => ~Is(u, x, "abort")'
               /\ tx[u] = "open" /\ task[u][x] = "done" => Is(u, x, "open")'
    <3>1. /\ Is(u, x, "open") =>
                     x \in added /\ x \in ongoing /\ (tx[u] = "open" \/ Ending(u))
          /\ \A f \in {"open", "commit", "abort"} : Is(u, x, f) => call[u] # "none"
          /\ tx[u] = "open" \/ EndIn(u, "abort") => ~Is(u, x, "commit")
          /\ tx[u] = "open" => ~Is(u, x, "abort")
          /\ tx[u] = "open" /\ task[u][x] = "done" => Is(u, x, "open")
      BY DEF TxnInv, LogOK
    <3> QED
      BY <1>2, <1>4, <1>5, <1>10, <3>1
  <2>2. ASSUME NEW r \in reply', r.op = "produce", r.ok
        PROVE  r.t = t /\ r.p = p /\ Is(t, p, "open")'
    BY <1>6, <1>10, <1>11, <2>2
  <2> QED
    BY <1>8, <1>14, <2>1, <2>2 DEF LogOK
<1>23. EndTxnOK'
  <2>1. \A u \in Txns : ~Ending(u)
    BY <1>4, WhileOpen
  <2>2. \A r \in reply' : r.op \notin EndOps
    BY <1>5, <1>11 DEF EndOps
  <2> QED
    BY <1>14, <2>1, <2>2 DEF EndTxnOK
<1>24. Promised'
  <2>1. \A u \in Txns : PartsOf[u] \subseteq Partitions
    BY TransactionsAssumption
  <2>2. NothingLeftOpen'
    BY <1>5, <1>8 DEF NothingLeftOpen
  <2>3. AbortedHidden'
    BY <1>8, <1>10 DEF TxnInv, Promised, AbortedHidden
  <2>4. CommittedVisible'
    BY <1>8, <1>10, <2>1 DEF TxnInv, Promised, CommittedVisible
  <2> QED
    BY <2>2, <2>3, <2>4 DEF Promised
<1> QED
  BY <1>16, <1>17, <1>18, <1>19, <1>20, <1>21, <1>22, <1>23, <1>24 DEF TxnInv

-----------------------------------------------------------------------------
(***************************************************************************)
(* The theorems                                                            *)
(***************************************************************************)

\* The invariant holds at the start.
LEMMA TxnInitially ==
    ASSUME Init
    PROVE  TxnInv
<1>1. /\ log = [p \in Partitions |-> <<>>] /\ coordNet = <<>> /\ reply = {}
      /\ partNet = [p \in Partitions |-> <<>>]
      /\ task = [t \in Txns |-> [p \in Partitions |-> "none"]]
      /\ tx = [t \in Txns |-> "idle"] /\ call = [t \in Txns |-> "none"]
      /\ offs = [t \in Txns |-> "none"] /\ outcome = [t \in Txns |-> None]
      /\ producerEpoch = 0 /\ txnState = "UNINITIALIZED"
  BY DEF Init
<1>2. \A t \in Txns, p \in Partitions : \A f : ~Is(t, p, f)
  BY <1>1 DEF Is
<1>3. \A t, op : ~EndIn(t, op) /\ ~Ending(t)
  BY <1>1 DEF EndIn, Ending
<1>4. TxnTypes
  <2>1. /\ MaxFaults \in Nat /\ MaxEndFaults \in Nat
    BY TransactionsAssumption
  <2>2. /\ topicKnown \in BOOLEAN /\ offsetsAdded \in BOOLEAN /\ ongoingOffsets \in BOOLEAN
        /\ ~offsetsAdded /\ didEnd \in [Txns -> BOOLEAN]
    BY Zenon DEF Init
  <2>3. /\ txnState \in States /\ tx \in [Txns -> TxStage]
        /\ task \in [Txns -> [Partitions -> TaskStage]] /\ offs \in [Txns -> OffsetStage]
    BY <1>1 DEF States, TxStage, TaskStage, OffsetStage
  <2>4. TypeOK
    BY <1>1, <2>1, <2>2, <2>3 DEF Init, TypeOK
  <2> QED
    BY <1>1, <2>4 DEF TxnTypes
<1>5. ClientOK
  BY <1>1 DEF Init, ClientOK, Busy
<1>6. TasksOK
  BY <1>1 DEF TasksOK
<1>7. WritesOK
  BY <1>1 DEF WritesOK
<1>8. UninitializedOK
  BY <1>1 DEF Init, UninitializedOK
<1>9. InitializedOK
  BY <1>1 DEF InitializedOK
<1>10. OngoingOK
  BY <1>1, <1>3 DEF Init, OngoingOK
<1>11. LogOK
  BY <1>1, <1>2, <1>3 DEF LogOK
<1>12. EndTxnOK
  BY <1>1, <1>3 DEF EndTxnOK
<1>13. Promised
  BY <1>1, TransactionsAssumption DEF Promised, AbortedHidden, CommittedVisible, NothingLeftOpen
<1> QED
  BY <1>4, <1>5, <1>6, <1>7, <1>8, <1>9, <1>10, <1>11, <1>12, <1>13 DEF TxnInv

\* Nothing changes.
LEMMA TxnStutters ==
    ASSUME TxnInv, UNCHANGED vars
    PROVE  TxnInv'
<1> USE DEF vars, managerVars, txVars, callVars, netVars, coordVars, bounds
<1>1. /\ \A u, op : EndIn(u, op)' <=> EndIn(u, op)
      /\ \A u : Ending(u)' <=> Ending(u)
      /\ \A u, p, f : Is(u, p, f)' <=> Is(u, p, f)
      /\ \A u : (Opened(u)' <=> Opened(u)) /\ (Busy(u)' <=> Busy(u))
  BY IsSame, EndSame DEF Opened, Busy
<1>2. TxnTypes' /\ ClientOK' /\ TasksOK' /\ WritesOK'
  BY <1>1 DEF TxnInv, TxnTypes, TypeOK, ClientOK, TasksOK, WritesOK
<1>3. UninitializedOK' /\ InitializedOK' /\ OngoingOK'
  BY <1>1 DEF TxnInv, UninitializedOK, InitializedOK, OngoingOK
<1>4. LogOK' /\ EndTxnOK'
  BY <1>1 DEF TxnInv, LogOK, EndTxnOK
<1>5. Promised'
  BY <1>1 DEF TxnInv, Promised, AbortedHidden, CommittedVisible, NothingLeftOpen
<1> QED
  BY <1>2, <1>3, <1>4, <1>5 DEF TxnInv

\* Every step keeps the invariant.
LEMMA TxnStepKeeps ==
    ASSUME OnePartition, TxnInv, [Next]_vars
    PROVE  TxnInv'
<1>1. CASE UNCHANGED vars
  BY <1>1, TxnStutters
<1>2. ASSUME NEW t \in Txns, Transaction(t) PROVE TxnInv'
  BY <1>2, TransactionKeeps
<1>3. ASSUME NEW t \in Txns, TxnStep(t) PROVE TxnInv'
  <2>1. ASSUME NEW result \in EndOps, End(t, result) PROVE TxnInv'
    BY <2>1, EndSentKeeps, EndEmptyKeeps
  <2>2. CASE InitProducerIdReply(t) \/ Begin(t)
    BY <2>2, InitProducerIdReplyKeeps, BeginKeeps
  <2>3. CASE Send(t) \/ SendOffsets(t)
    BY <2>3, SendKeeps, SendOffsetsKeeps
  <2>4. CASE AddOffsetsReply(t) \/ OffsetCommitReply(t)
    BY <2>4, AddOffsetsReplyKeeps, OffsetCommitReplyKeeps
  <2>5. CASE EndReply(t)
    BY <2>5, EndReplyKeeps
  <2> QED
    BY <1>3, <2>1, <2>2, <2>3, <2>4, <2>5 DEF TxnStep, EndOps
<1>4. ASSUME NEW t \in Txns, NEW p \in Partitions, TaskStep(t, p) PROVE TxnInv'
  BY <1>4, AddPartitionsKeeps, AddPartitionsReplyKeeps, ProduceReplyKeeps DEF TaskStep
<1>5. CASE BrokerStep
  BY <1>5, CoordinatorInitKeeps, CoordinatorAddsKeeps, CoordinatorEndsKeeps DEF BrokerStep
<1>6. ASSUME NEW p \in Partitions, NEW refuse \in BOOLEAN, LeaderHandles(p, refuse)
      PROVE  TxnInv'
  BY <1>6, LeaderHandlesKeeps
<1>7. CASE Fault
  <2>1. ASSUME NEW t \in Txns, OffsetsTimeout(t) \/ EndFails(t) PROVE TxnInv'
    BY <2>1, OffsetsTimeoutKeeps, EndFailsKeeps
  <2>2. ASSUME NEW t \in Txns, NEW retried \in BOOLEAN, InitProducerIdFails(t, retried)
        PROVE  TxnInv'
    BY <2>2, InitProducerIdFailsKeeps
  <2>3. ASSUME NEW t \in Txns, NEW p \in Partitions, TaskTimeout(t, p) PROVE TxnInv'
    BY <2>3, TaskTimeoutKeeps
  <2> QED
    BY <1>6, <1>7, <2>1, <2>2, <2>3 DEF Fault
<1>8. CASE Terminated
  BY <1>8, TxnStutters DEF Terminated
<1> QED
  BY <1>1, <1>2, <1>3, <1>4, <1>5, <1>6, <1>7, <1>8 DEF Next

\* The invariant of the transactional producer holds throughout.
THEOREM TransactionsInvariant ==
    ASSUME OnePartition
    PROVE  Spec => []TxnInv
<1>1. Init => TxnInv
  BY TxnInitially
<1>2. TxnInv /\ [Next]_vars => TxnInv'
  BY TxnStepKeeps
<1> QED
  BY <1>1, <1>2, PTL DEF Spec

\* Once abort() has resolved no message of the transaction is ever committed,
\* by this transaction's end or by that of a later one.
THEOREM AbortedStaysHidden ==
    ASSUME OnePartition
    PROVE  Spec => []AbortedHidden
<1>1. TxnInv => AbortedHidden
  BY DEF TxnInv, Promised
<1> QED
  BY <1>1, TransactionsInvariant, PTL

\* Once commit() has resolved all messages of the transaction are committed, and
\* its offsets unless those of another transaction have replaced them.
THEOREM CommittedIsVisible ==
    ASSUME OnePartition
    PROVE  Spec => []CommittedVisible
<1>1. TxnInv => CommittedVisible
  BY DEF TxnInv, Promised
<1> QED
  BY <1>1, TransactionsInvariant, PTL

\* Whenever the state machine is READY nothing is open on the brokers, though
\* commit() and abort() send no EndTxn if they believe that nothing was begun.
THEOREM NothingStaysOpen ==
    ASSUME OnePartition
    PROVE  Spec => []NothingLeftOpen
<1>1. TxnInv => NothingLeftOpen
  BY DEF TxnInv, Promised
<1> QED
  BY <1>1, TransactionsInvariant, PTL
=============================================================================

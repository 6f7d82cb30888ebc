---------------------------- MODULE Transactions ----------------------------
(***************************************************************************)
(* The transactional producer: producer.transaction() and the object it    *)
(* returns (src/src/producer/index.js), the transactional methods of       *)
(* src/src/producer/eosManager/index.js with their state machine, and the  *)
(* part of sendMessages.js that registers partitions and produces.         *)
(*                                                                         *)
(* The application makes one transaction after the other and awaits what it*)
(* sends before it ends a transaction.  As in the documentation it commits *)
(* if all of that succeeded and aborts otherwise; it may also abort without*)
(* a reason.                                                               *)
(*                                                                         *)
(* External: a broker that is the coordinator of the transactional id and  *)
(* of the consumer group, and a broker for each partition.  Each handles   *)
(* its requests in order.  A write is accepted from the current producer   *)
(* epoch, and a write that is in the log already is not appended again.    *)
(***************************************************************************)
EXTENDS Naturals, Sequences, FiniteSets

CONSTANTS
    Partitions,
    Txns,         \* the application's calls of transaction()
    PartsOf,      \* the partitions each of them sends to, with one send()
    WithOffsets,  \* those that call sendOffsets()
    None,
    MaxFaults,    \* bound on timed-out requests and refused writes
    MaxEndFaults  \* bound on failing EndTxn requests

ASSUME TransactionsAssumption ==
    /\ PartsOf \in [Txns -> SUBSET Partitions]
    /\ WithOffsets \subseteq Txns
    /\ None \notin Txns \cup Partitions \cup {"commit", "abort"}
    /\ MaxFaults \in Nat
    /\ MaxEndFaults \in Nat

\* The application sends to one partition in each transaction.  With several,
\* send() rejects with the first failure and leaves a write to another under way.
OnePartition == \A t \in Txns : \A p, q \in PartsOf[t] : p = q

VARIABLES
    txnState,      \* currentState of the state machine
    producerEpoch, \* 0 as long as the producer id is not initialised
    added,         \* transactionTopicPartitions, the entries that are true
    topicKnown,    \* transactionTopicPartitions has an entry for the topic
    offsetsAdded,  \* hasOffsetsAddedToTransaction
    cachedOffset,  \* committedOffsetsByGroup: whose offset it holds
    tx,            \* where each transaction() is, and the object it returned
    didEnd,        \* transactionDidEnd of each
    outcome,       \* which of its commit() and abort() has resolved
    call,          \* its send()
    task,          \* its request to each partition
    offs,          \* its sendOffsets()
    coordNet,      \* requests on their way to the coordinator
    partNet,       \* requests on their way to the leader of each partition
    reply,         \* responses on their way back
    epoch,         \* the epoch the coordinator has given out last
    ongoing,       \* partitions of the coordinator's ongoing transaction
    ongoingOffsets,\* it includes offsets
    groupPending,  \* the offsets a transaction has left with the group
    groupOffset,   \* the committed offsets of the group
    log,
    faults, endFaults

managerVars == <<txnState, producerEpoch, added, topicKnown, offsetsAdded>>
txVars == <<tx, didEnd, outcome>>
callVars == <<call, task, offs>>
netVars == <<coordNet, partNet, reply>>
coordVars == <<epoch, ongoing, ongoingOffsets, groupPending, groupOffset>>
bounds == <<faults, endFaults>>
vars == <<managerVars, cachedOffset, txVars, callVars, netVars, coordVars, log,
          bounds>>

States == {"UNINITIALIZED", "READY", "TRANSACTING", "COMMITTING", "ABORTING"}

TxStage == {"idle", "initializing", "initialized", "open", "ending", "ended",
            "rejected"}

TaskStage == {"none", "starting", "adding", "producing", "done", "failed"}

OffsetStage == {"none", "adding", "committing", "done", "failed"}

Init ==
    /\ txnState = "UNINITIALIZED"
    /\ producerEpoch = 0
    /\ added = {}
    /\ topicKnown = FALSE
    /\ offsetsAdded = FALSE
    /\ cachedOffset = None
    /\ tx = [t \in Txns |-> "idle"]
    /\ didEnd = [t \in Txns |-> FALSE]
    /\ outcome = [t \in Txns |-> None]
    /\ call = [t \in Txns |-> "none"]
    /\ task = [t \in Txns |-> [p \in Partitions |-> "none"]]
    /\ offs = [t \in Txns |-> "none"]
    /\ coordNet = <<>>
    /\ partNet = [p \in Partitions |-> <<>>]
    /\ reply = {}
    /\ epoch = 0
    /\ ongoing = {}
    /\ ongoingOffsets = FALSE
    /\ groupPending = None
    /\ groupOffset = None
    /\ log = [p \in Partitions |-> <<>>]
    /\ faults = 0
    /\ endFaults = 0

-----------------------------------------------------------------------------
(***************************************************************************)
(* Helpers                                                                 *)
(***************************************************************************)

\* A request and the response to it are told apart by what they are for.  heard
\* says that the client still waits for the response.
Request(op, t, p) ==
    [op |-> op, t |-> t, p |-> p, epoch |-> producerEpoch, heard |-> TRUE]

ToCoordinator(op, t, p) == coordNet' = Append(coordNet, Request(op, t, p))

Response(op, t, p) ==
    CHOOSE r \in reply : r.op = op /\ r.t = t /\ r.p = p

HasResponse(op, t, p) == \E r \in reply : r.op = op /\ r.t = t /\ r.p = p

Take(op, t, p) == reply' = reply \ {Response(op, t, p)}

\* The client does not wait any longer: the request may still be handled.
Unheard(q, op, t, p) ==
    [i \in 1..Len(q) |-> IF q[i].op = op /\ q[i].t = t /\ q[i].p = p
                         THEN [q[i] EXCEPT !.heard = FALSE] ELSE q[i]]

GiveUpWaiting(op, t, p) ==
    /\ coordNet' = Unheard(coordNet, op, t, p)
    /\ partNet' = [x \in Partitions |-> Unheard(partNet[x], op, t, p)]
    /\ reply' = {r \in reply : ~(r.op = op /\ r.t = t /\ r.p = p)}

\* The listener of the transition to READY.
KeepsPartitions ==
    /\ txnState' = "READY"
    /\ offsetsAdded' = FALSE
    /\ UNCHANGED <<added, topicKnown>>

BecomesReady ==
    /\ txnState' = "READY"
    /\ added' = {}
    /\ topicKnown' = FALSE
    /\ offsetsAdded' = FALSE

\* isOngoing()
IsOngoingWithoutOffsets == added # {}
IsOngoing == offsetsAdded \/ added # {}

\* isActive() of the object of t.
IsActive(t) == tx[t] = "open" /\ txnState = "TRANSACTING" /\ ~didEnd[t]

\* The application has awaited what it sent in t.
Awaited(t) ==
    /\ call[t] \in {"ok", "failed"} \/ (call[t] = "none" /\ PartsOf[t] = {})
    /\ offs[t] \in {"done", "failed"} \/ (offs[t] = "none" /\ t \notin WithOffsets)

Failed(t) == call[t] = "failed" \/ offs[t] = "failed"

Over(t) == tx[t] \in {"ended", "rejected"}

-----------------------------------------------------------------------------
(***************************************************************************)
(* transaction()                                                           *)
(***************************************************************************)

\* beginTransaction(), guarded by the state READY.
BeginTransaction(t) ==
    IF txnState = "READY"
    THEN txnState' = "TRANSACTING" /\ tx' = [tx EXCEPT ![t] = "open"]
    ELSE tx' = [tx EXCEPT ![t] = "rejected"] /\ UNCHANGED txnState

\* The call of transaction() up to its first await.  The application waits for
\* the end of one transaction before it calls for the next.
Transaction(t) ==
    /\ tx[t] = "idle"
    /\ \A u \in Txns \ {t} : tx[u] = "idle" \/ Over(u)
    /\ \/ /\ txnState = "TRANSACTING"
          /\ tx' = [tx EXCEPT ![t] = "rejected"]
          /\ UNCHANGED <<txnState, coordNet>>
       \/ /\ txnState # "TRANSACTING"
          /\ producerEpoch # 0
          /\ BeginTransaction(t)
          /\ UNCHANGED coordNet
       \/ /\ txnState # "TRANSACTING"
          /\ producerEpoch = 0
          /\ tx' = [tx EXCEPT ![t] = "initializing"]
          /\ ToCoordinator("init", t, None)
          /\ UNCHANGED txnState
    /\ UNCHANGED <<producerEpoch, added, topicKnown, offsetsAdded, cachedOffset,
                   didEnd, outcome, callVars, partNet, reply, coordVars, log,
                   bounds>>

\* initProducerId() gets its response.  The transition to READY may be invalid
\* by now, in which case it gives up.
InitProducerIdReply(t) ==
    /\ tx[t] = "initializing"
    /\ HasResponse("init", t, None)
    /\ Take("init", t, None)
    /\ IF txnState \in {"UNINITIALIZED", "READY"}
       THEN /\ BecomesReady
            /\ producerEpoch' = Response("init", t, None).epoch
            /\ tx' = [tx EXCEPT ![t] = "initialized"]
       ELSE /\ tx' = [tx EXCEPT ![t] = "rejected"]
            /\ UNCHANGED managerVars
    /\ UNCHANGED <<cachedOffset, didEnd, outcome, callVars, coordNet, partNet,
                   coordVars, log, bounds>>

\* InitProducerId fails with an error that is retried (the coordinator is not
\* available, an earlier transaction is still being completed) or another one.
InitProducerIdFails(t, retried) ==
    /\ tx[t] = "initializing"
    /\ faults < MaxFaults
    /\ faults' = faults + 1
    /\ IF retried
       THEN /\ coordNet' = Append(Unheard(coordNet, "init", t, None),
                                  Request("init", t, None))
            /\ UNCHANGED tx
       ELSE /\ coordNet' = Unheard(coordNet, "init", t, None)
            /\ tx' = [tx EXCEPT ![t] = "rejected"]
    /\ reply' = {r \in reply : ~(r.op = "init" /\ r.t = t)}
    /\ UNCHANGED <<managerVars, cachedOffset, didEnd, outcome, callVars, partNet,
                   coordVars, log, endFaults>>

\* transaction() goes on after initProducerId().
Begin(t) ==
    /\ tx[t] = "initialized"
    /\ BeginTransaction(t)
    /\ UNCHANGED <<producerEpoch, added, topicKnown, offsetsAdded, cachedOffset,
                   didEnd, outcome, callVars, netVars, coordVars, log, bounds>>

(***************************************************************************)
(* send()                                                                  *)
(***************************************************************************)

\* send() of the transaction object; each partition is at a broker of its own.
Send(t) ==
    /\ IsActive(t)
    /\ call[t] = "none" /\ PartsOf[t] # {}
    /\ call' = [call EXCEPT ![t] = "sending"]
    /\ task' = [task EXCEPT ![t] = [p \in Partitions |->
                  IF p \in PartsOf[t] THEN "starting" ELSE "none"]]
    /\ UNCHANGED <<managerVars, cachedOffset, txVars, offs, netVars, coordVars,
                   log, bounds>>

\* A request fails for good: send() rejects with the first of these.
TaskFails(t, p) ==
    /\ task' = [task EXCEPT ![t][p] = "failed"]
    /\ call' = [call EXCEPT ![t] = IF @ = "sending" THEN "failed" ELSE @]

ToLeader(t, p) == partNet' = [partNet EXCEPT ![p] = Append(@, Request("produce", t, p))]

\* The partition is registered and broker.produce() called.
StartsProducing(t, p) ==
    /\ task' = [task EXCEPT ![t][p] = "producing"]
    /\ ToLeader(t, p)

\* With the lock of the broker, addPartitionsToTransaction(), guarded by the
\* state TRANSACTING: the partition is registered with the coordinator unless
\* it is known to be.
AddPartitionsToTransaction(t, p) ==
    /\ task[t][p] = "starting"
    /\ \A u \in Txns : task[u][p] \notin {"adding", "producing"}
    /\ \/ /\ txnState # "TRANSACTING"
          /\ TaskFails(t, p)
          /\ UNCHANGED <<topicKnown, coordNet, partNet>>
       \/ /\ txnState = "TRANSACTING"
          /\ p \in added
          /\ StartsProducing(t, p)
          /\ UNCHANGED <<topicKnown, call, coordNet>>
       \/ /\ txnState = "TRANSACTING"
          /\ p \notin added
          /\ topicKnown' = TRUE
          /\ task' = [task EXCEPT ![t][p] = "adding"]
          /\ ToCoordinator("add", t, p)
          /\ UNCHANGED <<call, partNet>>
    /\ UNCHANGED <<txnState, producerEpoch, added, offsetsAdded, cachedOffset,
                   txVars, offs, reply, coordVars, log, bounds>>

\* The coordinator has answered.  If a transition to READY has cleared the
\* table meanwhile, the assignment to its entry throws a TypeError.
AddPartitionsReply(t, p) ==
    /\ task[t][p] = "adding"
    /\ HasResponse("add", t, p)
    /\ Take("add", t, p)
    /\ IF Response("add", t, p).ok /\ topicKnown
       THEN /\ added' = added \cup {p}
            /\ StartsProducing(t, p)
            /\ UNCHANGED call
       ELSE /\ TaskFails(t, p)
            /\ UNCHANGED <<added, partNet>>
    /\ UNCHANGED <<txnState, producerEpoch, topicKnown, offsetsAdded,
                   cachedOffset, txVars, offs, coordNet, coordVars, log, bounds>>

\* The leader has answered; send() resolves with the last response.
ProduceReply(t, p) ==
    /\ task[t][p] = "producing"
    /\ HasResponse("produce", t, p)
    /\ Take("produce", t, p)
    /\ IF Response("produce", t, p).ok
       THEN /\ task' = [task EXCEPT ![t][p] = "done"]
            /\ call' = [call EXCEPT ![t] =
                  IF @ = "sending" /\ \A x \in PartsOf[t] \ {p} : task[t][x] = "done"
                  THEN "ok" ELSE @]
       ELSE TaskFails(t, p)
    /\ UNCHANGED <<managerVars, cachedOffset, txVars, offs, coordNet, partNet,
                   coordVars, log, bounds>>

\* A request of the task times out, which is retried without a limit.
TaskTimeout(t, p) ==
    /\ faults < MaxFaults
    /\ faults' = faults + 1
    /\ task[t][p] \in {"adding", "producing"}
    /\ GiveUpWaiting(IF task[t][p] = "adding" THEN "add" ELSE "produce", t, p)
    /\ task' = [task EXCEPT ![t][p] = "starting"]
    /\ UNCHANGED <<managerVars, cachedOffset, txVars, call, offs, coordVars, log,
                   endFaults>>

(***************************************************************************)
(* sendOffsets()                                                           *)
(***************************************************************************)

SendOffsets(t) ==
    /\ IsActive(t)
    /\ offs[t] = "none" /\ t \in WithOffsets
    /\ offs' = [offs EXCEPT ![t] = "adding"]
    /\ ToCoordinator("addOffsets", t, None)
    /\ UNCHANGED <<managerVars, cachedOffset, txVars, call, task, partNet, reply,
                   coordVars, log, bounds>>

\* The offsets are part of the transaction and go to the group's coordinator.
AddOffsetsReply(t) ==
    /\ offs[t] = "adding"
    /\ HasResponse("addOffsets", t, None)
    /\ Take("addOffsets", t, None)
    /\ IF Response("addOffsets", t, None).ok
       THEN /\ offsetsAdded' = TRUE
            /\ offs' = [offs EXCEPT ![t] = "committing"]
            /\ ToCoordinator("offsetCommit", t, None)
       ELSE /\ offs' = [offs EXCEPT ![t] = "failed"]
            /\ UNCHANGED <<offsetsAdded, coordNet>>
    /\ UNCHANGED <<txnState, producerEpoch, added, topicKnown, cachedOffset,
                   txVars, call, task, partNet, coordVars, log, bounds>>

\* The group has the offsets: they are marked as committed in the cache the
\* consumers of this client share.
OffsetCommitReply(t) ==
    /\ offs[t] = "committing"
    /\ HasResponse("offsetCommit", t, None)
    /\ Take("offsetCommit", t, None)
    /\ IF Response("offsetCommit", t, None).ok
       THEN /\ offs' = [offs EXCEPT ![t] = "done"]
            /\ cachedOffset' = t
       ELSE /\ offs' = [offs EXCEPT ![t] = "failed"]
            /\ UNCHANGED cachedOffset
    /\ UNCHANGED <<managerVars, txVars, call, task, coordNet, partNet, coordVars,
                   log, bounds>>

\* A request of sendOffsets() times out, which is not retried.
OffsetsTimeout(t) ==
    /\ faults < MaxFaults
    /\ faults' = faults + 1
    /\ offs[t] \in {"adding", "committing"}
    /\ GiveUpWaiting(IF offs[t] = "adding" THEN "addOffsets" ELSE "offsetCommit",
                     t, None)
    /\ offs' = [offs EXCEPT ![t] = "failed"]
    /\ UNCHANGED <<managerVars, cachedOffset, txVars, call, task, coordVars, log,
                   endFaults>>

(***************************************************************************)
(* commit() and abort()                                                    *)
(***************************************************************************)

\* The EndTxn request of each, told apart by its transactionResult.
EndTxnAlwaysCommits(result) == "commit"
EndTxn(result) == result

\* The method has resolved.
Ends(t, result) ==
    /\ tx' = [tx EXCEPT ![t] = "ended"]
    /\ didEnd' = [didEnd EXCEPT ![t] = TRUE]
    /\ outcome' = [outcome EXCEPT ![t] = result]

\* commit() or abort(); nothing is sent if the transaction is empty.
End(t, result) ==
    /\ IsActive(t)
    /\ Awaited(t)
    /\ result = "commit" => ~Failed(t)
    /\ IF IsOngoing
       THEN /\ txnState' = IF result = "commit" THEN "COMMITTING" ELSE "ABORTING"
            /\ tx' = [tx EXCEPT ![t] = "ending"]
            /\ ToCoordinator(EndTxn(result), t, None)
            /\ UNCHANGED <<added, topicKnown, offsetsAdded, didEnd, outcome>>
       ELSE /\ BecomesReady
            /\ Ends(t, result)
            /\ UNCHANGED coordNet
    /\ UNCHANGED <<producerEpoch, cachedOffset, callVars, partNet, reply,
                   coordVars, log, bounds>>

\* The transition after a successful EndTxn.
StaysInState == UNCHANGED <<txnState, added, topicKnown, offsetsAdded>>
AfterEndTxn == BecomesReady

\* The response to EndTxn.  An error leaves the state as it is.
EndReply(t) ==
    /\ tx[t] = "ending"
    /\ \E op \in {"commit", "abort"} :
          /\ HasResponse(op, t, None)
          /\ Take(op, t, None)
          /\ IF Response(op, t, None).ok
             THEN /\ AfterEndTxn
                  /\ Ends(t, IF txnState = "COMMITTING" THEN "commit" ELSE "abort")
             ELSE /\ tx' = [tx EXCEPT ![t] = "rejected"]
                  /\ UNCHANGED <<txnState, added, topicKnown, offsetsAdded,
                                 didEnd, outcome>>
    /\ UNCHANGED <<producerEpoch, cachedOffset, callVars, coordNet, partNet,
                   coordVars, log, bounds>>

\* EndTxn times out, or the coordinator is not found.  It is not retried, and
\* the object refuses an abort() from now on.
EndFails(t) ==
    /\ endFaults < MaxEndFaults
    /\ endFaults' = endFaults + 1
    /\ tx[t] = "ending"
    /\ GiveUpWaiting(IF txnState = "COMMITTING" THEN "commit" ELSE "abort", t, None)
    /\ tx' = [tx EXCEPT ![t] = "rejected"]
    /\ UNCHANGED <<managerVars, cachedOffset, didEnd, outcome, callVars,
                   coordVars, log, faults>>

-----------------------------------------------------------------------------
(***************************************************************************)
(* The brokers (external)                                                  *)
(***************************************************************************)

\* The coordinator takes its oldest request, of a kind in ops, and answers.
Handles(ops, ok, newEpoch) ==
    LET q == Head(coordNet)
    IN /\ coordNet # <<>> /\ q.op \in ops
       /\ coordNet' = Tail(coordNet)
       /\ reply' = IF q.heard
                   THEN reply \cup {[op |-> q.op, t |-> q.t, p |-> q.p, ok |-> ok,
                                     epoch |-> newEpoch]}
                   ELSE reply

\* The markers of the ongoing transaction are written.
Completes(kind) ==
    /\ log' = [p \in Partitions |-> IF p \in ongoing
                  THEN Append(log[p], [t |-> None, kind |-> kind]) ELSE log[p]]
    /\ groupOffset' = IF kind = "commit" /\ groupPending # None
                      THEN groupPending ELSE groupOffset
    /\ groupPending' = None
    /\ ongoing' = {}
    /\ ongoingOffsets' = FALSE

\* InitProducerId aborts what was ongoing and fences the producers before.
CoordinatorInit ==
    /\ Handles({"init"}, TRUE, epoch + 1)
    /\ epoch' = epoch + 1
    /\ Completes("abort")
    /\ UNCHANGED <<managerVars, cachedOffset, txVars, callVars, partNet, bounds>>

\* AddPartitionsToTxn, AddOffsetsToTxn, TxnOffsetCommit.
CoordinatorAdds ==
    LET q == Head(coordNet)
        valid == q.epoch = epoch
    IN /\ Handles({"add", "addOffsets", "offsetCommit"}, valid, epoch)
       /\ ongoing' = IF valid /\ q.op = "add" THEN ongoing \cup {q.p} ELSE ongoing
       /\ ongoingOffsets' = (ongoingOffsets \/ (valid /\ q.op = "addOffsets"))
       /\ groupPending' = IF valid /\ q.op = "offsetCommit" THEN q.t ELSE groupPending
       /\ UNCHANGED <<managerVars, cachedOffset, txVars, callVars, partNet, epoch,
                      groupOffset, log, bounds>>

\* EndTxn.
CoordinatorEnds ==
    LET q == Head(coordNet)
        valid == q.epoch = epoch /\ (ongoing # {} \/ ongoingOffsets)
    IN /\ Handles({"commit", "abort"}, valid, epoch)
       /\ IF valid THEN Completes(q.op)
                   ELSE UNCHANGED <<log, ongoing, ongoingOffsets, groupPending,
                                    groupOffset>>
       /\ UNCHANGED <<managerVars, cachedOffset, txVars, callVars, partNet, epoch,
                      bounds>>

\* The leader of p answers its oldest write: it appends it (once), or refuses
\* it, for example as too large.
LeaderHandles(p, refuse) ==
    LET q == Head(partNet[p])
        ok == q.epoch = epoch /\ ~refuse
        known == \E i \in 1..Len(log[p]) : log[p][i].t = q.t
    IN /\ partNet[p] # <<>>
       /\ refuse => faults < MaxFaults /\ ~known
       /\ faults' = IF refuse THEN faults + 1 ELSE faults
       /\ log' = IF ok /\ ~known
                 THEN [log EXCEPT ![p] = Append(@, [t |-> q.t, kind |-> "data"])]
                 ELSE log
       /\ partNet' = [partNet EXCEPT ![p] = Tail(@)]
       /\ reply' = IF q.heard
                   THEN reply \cup {[op |-> "produce", t |-> q.t, p |-> p,
                                     ok |-> ok, epoch |-> epoch]}
                   ELSE reply
       /\ UNCHANGED <<managerVars, cachedOffset, txVars, callVars, coordNet,
                      coordVars, endFaults>>

-----------------------------------------------------------------------------
\* Nothing is left to do: every transaction is over and nothing under way.
Terminated ==
    /\ \A t \in Txns : Over(t)
    /\ coordNet = <<>> /\ \A p \in Partitions : partNet[p] = <<>>
    /\ \A t \in Txns, p \in Partitions : task[t][p] \in {"none", "done", "failed"}
    /\ UNCHANGED vars

\* The steps of the library, and of the application in its transactions.
TxnStep(t) ==
    \/ InitProducerIdReply(t) \/ Begin(t)
    \/ Send(t) \/ SendOffsets(t)
    \/ AddOffsetsReply(t) \/ OffsetCommitReply(t)
    \/ End(t, "commit") \/ End(t, "abort") \/ EndReply(t)

TaskStep(t, p) ==
    AddPartitionsToTransaction(t, p) \/ AddPartitionsReply(t, p) \/ ProduceReply(t, p)

BrokerStep == CoordinatorInit \/ CoordinatorAdds \/ CoordinatorEnds

Fault ==
    \/ \E t \in Txns : OffsetsTimeout(t) \/ EndFails(t)
    \/ \E t \in Txns, retried \in BOOLEAN : InitProducerIdFails(t, retried)
    \/ \E t \in Txns, p \in Partitions : TaskTimeout(t, p)
    \/ \E p \in Partitions : LeaderHandles(p, TRUE)

Next ==
    \/ \E t \in Txns : Transaction(t) \/ TxnStep(t)
    \/ \E t \in Txns, p \in Partitions : TaskStep(t, p)
    \/ BrokerStep
    \/ \E p \in Partitions : LeaderHandles(p, FALSE)
    \/ Fault
    \/ Terminated

Spec == Init /\ [][Next]_vars

\* Promise callbacks run and brokers answer; an application ends what it began.
Fairness ==
    /\ \A t \in Txns : WF_vars(TxnStep(t))
    /\ \A t \in Txns, p \in Partitions : WF_vars(TaskStep(t, p))
    /\ WF_vars(BrokerStep)
    /\ \A p \in Partitions : WF_vars(LeaderHandles(p, FALSE))

FairSpec == Spec /\ Fairness

-----------------------------------------------------------------------------
(***************************************************************************)
(* Properties                                                              *)
(***************************************************************************)

\* Type invariant.  Outside of a transaction nothing is remembered of the
\* partitions and offsets of an earlier one.
TypeOK ==
    /\ txnState \in States
    /\ producerEpoch \in 0..epoch
    /\ added \subseteq Partitions
    /\ topicKnown \in BOOLEAN
    /\ offsetsAdded \in BOOLEAN
    /\ txnState \in {"UNINITIALIZED", "READY"} => added = {} /\ ~offsetsAdded
    /\ cachedOffset \in Txns \cup {None}
    /\ tx \in [Txns -> TxStage]
    /\ didEnd \in [Txns -> BOOLEAN]
    /\ outcome \in [Txns -> {None, "commit", "abort"}]
    /\ call \in [Txns -> {"none", "sending", "ok", "failed"}]
    /\ task \in [Txns -> [Partitions -> TaskStage]]
    /\ offs \in [Txns -> OffsetStage]
    /\ epoch \in Nat
    /\ ongoing \subseteq Partitions
    /\ ongoingOffsets \in BOOLEAN
    /\ groupPending \in Txns \cup {None}
    /\ groupOffset \in Txns \cup {None}
    /\ faults \in 0..MaxFaults
    /\ endFaults \in 0..MaxEndFaults

\* Message i of the log of p: what the first marker after it says, if any.
Fate(p, i) ==
    LET markers == {j \in (i + 1)..Len(log[p]) : log[p][j].kind # "data"}
    IN IF markers = {} THEN "open"
       ELSE log[p][CHOOSE j \in markers : \A k \in markers : j <= k].kind

\* The messages of t in p have fate f.
Is(t, p, f) == \E i \in 1..Len(log[p]) : log[p][i].t = t /\ Fate(p, i) = f

\* "If transaction.abort is called, all messages will be rolled back": no
\* message of an aborted transaction is ever committed, not even by the
\* transaction that follows it.
AbortedHidden ==
    \A t \in Txns : outcome[t] = "abort" =>
        \A p \in Partitions : ~Is(t, p, "commit")

\* When commit() has resolved, all messages and offsets of the transaction are
\* committed: no partition was left out because it was taken for registered.
CommittedVisible ==
    \A t \in Txns : outcome[t] = "commit" =>
        /\ \A p \in PartsOf[t] : Is(t, p, "commit")
        /\ t \in WithOffsets =>
              \/ groupOffset = t
              \/ \E u \in WithOffsets \ {t} : offs[u] = "done"

\* Between transactions nothing is open on the brokers: a commit() or abort()
\* that found nothing to end was right.
NothingLeftOpen ==
    txnState = "READY" =>
        /\ groupPending = None
        /\ \A t \in Txns, p \in Partitions : ~Is(t, p, "open")

\* A commit() or abort() that was begun makes the producer ready for another
\* transaction, whatever has failed before in this one, unless the EndTxn
\* request itself fails.
EndedUnlessItFails ==
    txnState \in {"COMMITTING", "ABORTING"} ~> txnState = "READY" \/ endFaults > 0
=============================================================================

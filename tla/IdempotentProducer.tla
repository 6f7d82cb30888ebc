------------------------- MODULE IdempotentProducer -------------------------
(***************************************************************************)
(* producer.send() with idempotent = true: the retried attempts of         *)
(* src/src/producer/sendMessages.js, the sequence numbers and broker locks *)
(* of src/src/producer/eosManager/index.js, the Lock of                    *)
(* src/src/utils/lock.js and the retry loop of src/src/retry/index.js.     *)
(*                                                                         *)
(* An attempt starts one task per leader that has not answered yet.  The   *)
(* attempt is over at the first failed task (Promise.all), but the other   *)
(* tasks of it go on in the background.  A task waits for the lock of its  *)
(* broker, takes sequence numbers, sends, and gives the lock back.         *)
(*                                                                         *)
(* The brokers are outside of the repository: one connection each, requests*)
(* handled in order, a partition log that survives leader changes, and     *)
(* Kafka's rule for producer sequences (a batch that is in the log already *)
(* is acknowledged and not appended, a gap is an error).                   *)
(***************************************************************************)
EXTENDS Integers, FiniteSets, SequencesExt

CONSTANTS
    Brokers,
    Partitions,
    Messages,
    Sends,          \* calls of producer.send()
    MessagesOf,     \* the messages of each call
    Targets,        \* where the partitioner may put each message: a single
                    \* partition if it has a key or a partition
    Awaited,        \* the calls the application awaits before each call
    InitialLeader,  \* leader of each partition at the start
    Int32Max,       \* INT_32_MAX_VALUE
    MaxAttempts,    \* bound on the attempts of a call
    MaxFaults       \* bound on timeouts, closed connections, leader changes

ASSUME IdempotentProducerAssumption ==
    /\ MessagesOf \in [Sends -> SUBSET Messages]
    /\ Targets \in [Messages -> SUBSET Partitions]
    /\ Awaited \in [Sends -> SUBSET Sends]
    /\ InitialLeader \in [Partitions -> Brokers]
    /\ MaxAttempts \in Nat
    /\ MaxFaults \in Nat
    /\ Int32Max \in Nat \ {0}

\* The use for which the producer keeps its promise: the application sends the
\* messages of a call to one partition, awaits a call before it makes the next
\* one to that partition, and sends fewer messages than there are numbers.
SequentialUse ==
    /\ IsFiniteSet(Messages) /\ Cardinality(Messages) < Int32Max
    /\ \A s \in Sends :
          /\ MessagesOf[s] # {}
          /\ \E p \in Partitions : \A m \in MessagesOf[s] : Targets[m] = {p}
          /\ s \notin Awaited[s] /\ \A d \in Awaited[s] : Awaited[d] \subseteq Awaited[s]
    /\ \A s, r \in Sends : s # r =>
          /\ MessagesOf[s] \cap MessagesOf[r] = {}
          /\ \A m \in MessagesOf[s], n \in MessagesOf[r] :
                Targets[m] = Targets[n] => r \in Awaited[s] \/ s \in Awaited[r]

VARIABLES
    phase,      \* where each send() is, see Phase
    attempt,    \* its number of attempts so far
    plan,       \* messagesPerPartition of the current attempt
    planLeader, \* partitionsPerLeader of the current attempt
    resp,       \* responsePerBroker: "absent", "null" or "response"
    task,       \* the tasks of all attempts
    locked,     \* LOCKED of the lock of each broker
    waiting,    \* WAITING of the lock of each broker
    seq,        \* producerSequence
    meta,       \* leaders in the cluster's cached metadata
    leader,     \* the real leaders
    log,        \* the partition logs
    net,        \* requests on their way to each broker
    reply,      \* the broker's answer to each task
    faults

sendVars == <<phase, attempt, plan, planLeader, resp>>
lockVars == <<task, locked, waiting>>
brokerVars == <<leader, log, net, reply>>
vars == <<sendVars, lockVars, seq, meta, brokerVars, faults>>

\* A task is one call, one of its attempts, one broker.
TaskIds == Sends \X (1..MaxAttempts) \X Brokers
SendOf(t) == t[1]
AttemptOf(t) == t[2]
BrokerOf(t) == t[3]

Phase == {"idle", "planning", "mapping", "producing", "refreshing",
          "resolved", "rejected"}

Stage == {"none", "waiting", "locked", "sent", "done", "failed"}

NoBatch == [p \in Partitions |-> {}]

Init ==
    /\ phase = [s \in Sends |-> "idle"]
    /\ attempt = [s \in Sends |-> 0]
    /\ plan = [s \in Sends |-> NoBatch]
    /\ planLeader = [s \in Sends |-> InitialLeader]
    /\ resp = [s \in Sends |-> [b \in Brokers |-> "absent"]]
    /\ task = [t \in TaskIds |-> [stage |-> "none", batch |-> NoBatch,
                                  first |-> [p \in Partitions |-> 0]]]
    /\ locked = [b \in Brokers |-> FALSE]
    /\ waiting = [b \in Brokers |-> <<>>]
    /\ seq = [p \in Partitions |-> 0]
    /\ meta = InitialLeader
    /\ leader = InitialLeader
    /\ log = [p \in Partitions |-> <<>>]
    /\ net = [b \in Brokers |-> <<>>]
    /\ reply = [t \in TaskIds |-> "none"]
    /\ faults = 0

-----------------------------------------------------------------------------
(***************************************************************************)
(* Helpers                                                                 *)
(***************************************************************************)

\* The partitions a task produces to.
Parts(t) == {p \in Partitions : task[t].batch[p] # {}}

\* updateSequence(): the new value of a sequence.
UpdateSequence(previous, increment) ==
    IF previous + increment >= Int32Max THEN 0 ELSE previous + increment

\* The sequences stay where they are after a failed request.
MoveSequencesForward(t, sign) ==
    [p \in Partitions |->
        IF p \in Parts(t) /\ sign = 1
        THEN UpdateSequence(seq[p], Cardinality(task[t].batch[p]))
        ELSE seq[p]]

\* producerSequence after every partition of t was moved by sign batches.
MoveSequences(t, sign) ==
    [p \in Partitions |->
        IF p \in Parts(t)
        THEN UpdateSequence(seq[p], sign * Cardinality(task[t].batch[p]))
        ELSE seq[p]]

\* releaseBrokerLock(): the oldest waiting task gets the lock at once.  tk is
\* the task table as the caller leaves it.
ReleaseLock(b, tk) ==
    IF waiting[b] = <<>>
    THEN /\ locked' = [locked EXCEPT ![b] = FALSE]
         /\ task' = tk
         /\ UNCHANGED waiting
    ELSE /\ task' = [tk EXCEPT ![Head(waiting[b])].stage = "locked"]
         /\ waiting' = [waiting EXCEPT ![b] = Tail(@)]
         /\ UNCHANGED locked

\* A failed task that nobody hears of.
FailCallSwallowed(t, next) == phase' = phase

\* What the failure of task t does to its call: Promise.all rejects if t is of
\* the attempt under way and is its first failure.
FailCall(t, next) ==
    phase' = IF AttemptOf(t) = attempt[SendOf(t)]
                /\ phase[SendOf(t)] = "producing"
             THEN [phase EXCEPT ![SendOf(t)] = next]
             ELSE phase

\* broker.produce() rejects: the sequences are rolled back, the broker is
\* forgotten in responsePerBroker and its lock is released.
FailTask(t, next) ==
    /\ seq' = MoveSequences(t, -1)
    /\ resp' = [resp EXCEPT ![SendOf(t)][BrokerOf(t)] = "absent"]
    /\ ReleaseLock(BrokerOf(t), [task EXCEPT ![t].stage = "failed"])
    /\ FailCall(t, next)
    /\ UNCHANGED <<attempt, plan, planLeader, meta>>

-----------------------------------------------------------------------------
(***************************************************************************)
(* The producer                                                            *)
(***************************************************************************)

\* The application calls send(), once the calls it awaits have resolved.
Send(s) ==
    /\ phase[s] = "idle"
    /\ \A d \in Awaited[s] : phase[d] = "resolved"
    /\ phase' = [phase EXCEPT ![s] = "planning"]
    /\ UNCHANGED <<attempt, plan, planLeader, resp, lockVars, seq, meta,
                   brokerVars, faults>>

\* Leaders are only entered in responsePerBroker by the first attempt.
PlanOnce(s) ==
    /\ phase[s] = "planning"
    /\ attempt[s] < MaxAttempts
    /\ plan' = [plan EXCEPT ![s] = [p \in Partitions |->
                  {m \in MessagesOf[s] : p \in Targets[m]}]]
    /\ resp' = [resp EXCEPT ![s] = [b \in Brokers |->
                  IF attempt[s] = 0 /\ \E p \in Partitions :
                       plan'[s][p] # {} /\ meta[p] = b
                  THEN "null" ELSE resp[s][b]]]
    /\ planLeader' = [planLeader EXCEPT ![s] = meta]
    /\ attempt' = [attempt EXCEPT ![s] = @ + 1]
    /\ phase' = [phase EXCEPT ![s] = "mapping"]
    /\ UNCHANGED <<lockVars, seq, meta, brokerVars, faults>>

\* An attempt up to the awaited findBroker() calls: the metadata is refreshed
\* if it is too old, every message is partitioned (again), and the leaders
\* without an entry get one.
Plan(s) ==
    /\ phase[s] = "planning"
    /\ attempt[s] < MaxAttempts
    /\ meta' \in {meta, leader}
    /\ \E pt \in [MessagesOf[s] -> Partitions] :
          /\ \A m \in MessagesOf[s] : pt[m] \in Targets[m]
          /\ plan' = [plan EXCEPT ![s] = [p \in Partitions |->
                                            {m \in MessagesOf[s] : pt[m] = p}]]
          /\ resp' = [resp EXCEPT ![s] = [b \in Brokers |->
                        IF /\ resp[s][b] = "absent"
                           /\ \E m \in MessagesOf[s] : meta'[pt[m]] = b
                        THEN "null" ELSE resp[s][b]]]
    /\ planLeader' = [planLeader EXCEPT ![s] = meta']
    /\ attempt' = [attempt EXCEPT ![s] = @ + 1]
    /\ phase' = [phase EXCEPT ![s] = "mapping"]
    /\ UNCHANGED <<lockVars, seq, brokerVars, faults>>

\* The rest of createProducerRequests(): a task for every broker without a
\* response, up to the await of its lock.
Launch(s) ==
    LET started == {<<s, attempt[s], b>> :
                       b \in {c \in Brokers : resp[s][c] = "null"}}
    IN /\ phase[s] = "mapping"
       /\ task' = [t \in TaskIds |->
             IF t \in started
             THEN [stage |-> IF locked[BrokerOf(t)] THEN "waiting" ELSE "locked",
                   batch |-> [p \in Partitions |->
                                IF planLeader[s][p] = BrokerOf(t)
                                THEN plan[s][p] ELSE {}],
                   first |-> task[t].first]
             ELSE task[t]]
       /\ waiting' = [b \in Brokers |->
             IF <<s, attempt[s], b>> \in started /\ locked[b]
             THEN Append(waiting[b], <<s, attempt[s], b>>) ELSE waiting[b]]
       /\ locked' = [b \in Brokers |->
             locked[b] \/ <<s, attempt[s], b>> \in started]
       /\ phase' = [phase EXCEPT ![s] = "producing"]
       /\ UNCHANGED <<attempt, plan, planLeader, resp, seq, meta, brokerVars,
                      faults>>

\* updateSequence() before getSequence().
ProduceMovesFirst(t) ==
    /\ task[t].stage = "locked"
    /\ seq' = MoveSequences(t, 1)
    /\ task' = [task EXCEPT ![t].stage = "sent", ![t].first = seq']
    /\ net' = [net EXCEPT ![BrokerOf(t)] = Append(@, t)]
    /\ UNCHANGED <<sendVars, locked, waiting, meta, leader, log, reply, faults>>

\* A task that has the lock takes its sequences and calls broker.produce().
Produce(t) ==
    /\ task[t].stage = "locked"
    /\ task' = [task EXCEPT ![t].stage = "sent", ![t].first = seq]
    /\ seq' = MoveSequences(t, 1)
    /\ net' = [net EXCEPT ![BrokerOf(t)] = Append(@, t)]
    /\ UNCHANGED <<sendVars, locked, waiting, meta, leader, log, reply, faults>>

\* broker.produce() resolves: the response is kept and the lock released.
ProduceSucceeds(t) ==
    /\ task[t].stage = "sent"
    /\ reply[t] = "ok"
    /\ resp' = [resp EXCEPT ![SendOf(t)][BrokerOf(t)] = "response"]
    /\ ReleaseLock(BrokerOf(t), [task EXCEPT ![t].stage = "done"])
    /\ UNCHANGED <<phase, attempt, plan, planLeader, seq, meta, brokerVars,
                   faults>>

\* The broker answers that it is not the leader: stale metadata, the call
\* refreshes it and tries again.
NotLeaderReply(t) ==
    /\ task[t].stage = "sent"
    /\ reply[t] = "not_leader"
    /\ FailTask(t, "refreshing")
    /\ UNCHANGED <<brokerVars, faults>>

\* The broker answers with an error that is not retriable: bail().
FatalReply(t) ==
    /\ task[t].stage = "sent"
    /\ reply[t] \in {"out_of_order", "refused"}
    /\ FailTask(t, "rejected")
    /\ UNCHANGED <<brokerVars, faults>>

\* The request times out in the client.  The broker may still handle it.
RequestTimeout(t) ==
    /\ faults < MaxFaults
    /\ task[t].stage = "sent"
    /\ FailTask(t, "planning")
    /\ faults' = faults + 1
    /\ UNCHANGED brokerVars

\* The connection closes under the request.  The broker has received some of
\* what was written to it.
ConnectionClosed(t) ==
    /\ faults < MaxFaults
    /\ task[t].stage = "sent"
    /\ FailTask(t, "refreshing")
    /\ \E k \in 0..Len(net[BrokerOf(t)]) :
          net' = [net EXCEPT ![BrokerOf(t)] = SubSeq(@, 1, k)]
    /\ faults' = faults + 1
    /\ UNCHANGED <<leader, log, reply>>

\* acquire() gives up waiting: the task rejects before its try block, with an
\* error that is not retriable.
LockTimeout(t) ==
    /\ faults < MaxFaults
    /\ task[t].stage = "waiting"
    /\ task' = [task EXCEPT ![t].stage = "failed"]
    /\ \E i \in DOMAIN waiting[BrokerOf(t)] :
          /\ waiting[BrokerOf(t)][i] = t
          /\ waiting' = [waiting EXCEPT ![BrokerOf(t)] = RemoveAt(@, i)]
    /\ FailCall(t, "rejected")
    /\ faults' = faults + 1
    /\ UNCHANGED <<attempt, plan, planLeader, resp, locked, seq, meta,
                   brokerVars>>

\* The catch block refreshes the metadata before the next attempt.
RefreshMetadata(s) ==
    /\ phase[s] = "refreshing"
    /\ meta' = leader
    /\ phase' = [phase EXCEPT ![s] = "planning"]
    /\ UNCHANGED <<attempt, plan, planLeader, resp, lockVars, seq, brokerVars,
                   faults>>

\* Every task of the attempt resolved, so send() does.
Resolve(s) ==
    /\ phase[s] = "producing"
    /\ \A b \in Brokers : task[<<s, attempt[s], b>>].stage \in {"none", "done"}
    /\ phase' = [phase EXCEPT ![s] = "resolved"]
    /\ UNCHANGED <<attempt, plan, planLeader, resp, lockVars, seq, meta,
                   brokerVars, faults>>

-----------------------------------------------------------------------------
(***************************************************************************)
(* The brokers (external)                                                  *)
(***************************************************************************)

\* The sequence the leader expects next.
Expected(p) ==
    IF log[p] = <<>> THEN 0
    ELSE LET last == log[p][Len(log[p])]
         IN last.first + Cardinality(last.msgs)

\* The batch of t for p has the sequence numbers of one in the log.
IsDuplicate(t, p) ==
    \E i \in 1..Len(log[p]) :
        /\ log[p][i].first = task[t].first[p]
        /\ Cardinality(log[p][i].msgs) = Cardinality(task[t].batch[p])

\* The error code of partition p in the response to t.
PartitionResult(t, p) ==
    IF leader[p] # BrokerOf(t) THEN "not_leader"
    ELSE IF IsDuplicate(t, p) \/ task[t].first[p] = Expected(p) THEN "ok"
    ELSE "out_of_order"

\* A broker handles the oldest request on its connection, partition by
\* partition.  The client sees the first error, so any of them.
BrokerHandles(b) ==
    LET t == Head(net[b])
        errors == {PartitionResult(t, p) : p \in Parts(t)} \ {"ok"}
    IN /\ net[b] # <<>>
       /\ log' = [p \in Partitions |->
             IF /\ p \in Parts(t)
                /\ PartitionResult(t, p) = "ok"
                /\ ~IsDuplicate(t, p)
             THEN Append(log[p], [first |-> task[t].first[p],
                                  msgs |-> task[t].batch[p]])
             ELSE log[p]]
       /\ \E e \in (IF errors = {} THEN {"ok"} ELSE errors) :
             reply' = [reply EXCEPT ![t] = e]
       /\ net' = [net EXCEPT ![b] = Tail(@)]
       /\ UNCHANGED <<sendVars, lockVars, seq, meta, leader, faults>>

\* A broker refuses a request for another reason that is not retriable, such
\* as the size of its messages.
BrokerRefuses(b) ==
    LET t == Head(net[b])
    IN /\ faults < MaxFaults
       /\ net[b] # <<>>
       /\ \A p \in Parts(t) : ~IsDuplicate(t, p)
       /\ reply' = [reply EXCEPT ![t] = "refused"]
       /\ net' = [net EXCEPT ![b] = Tail(@)]
       /\ faults' = faults + 1
       /\ UNCHANGED <<sendVars, lockVars, seq, meta, leader, log>>

\* Another broker becomes the leader of p, with the whole log.
LeaderChange(p, b) ==
    /\ faults < MaxFaults
    /\ leader[p] # b
    /\ leader' = [leader EXCEPT ![p] = b]
    /\ faults' = faults + 1
    /\ UNCHANGED <<sendVars, lockVars, seq, meta, log, net, reply>>

-----------------------------------------------------------------------------
SendStep(s) == Send(s) \/ Plan(s) \/ Launch(s) \/ RefreshMetadata(s) \/ Resolve(s)

TaskStep(t) ==
    Produce(t) \/ ProduceSucceeds(t) \/ NotLeaderReply(t) \/ FatalReply(t)

Fault ==
    \/ \E t \in TaskIds : RequestTimeout(t) \/ ConnectionClosed(t) \/ LockTimeout(t)
    \/ \E b \in Brokers : BrokerRefuses(b)
    \/ \E p \in Partitions, b \in Brokers : LeaderChange(p, b)

\* Every call has settled, or will not be made because one it awaits was
\* rejected, and nothing is under way.
Terminated ==
    /\ \A s \in Sends :
          \/ phase[s] \in {"resolved", "rejected"}
          \/ phase[s] = "idle" /\ \E d \in Awaited[s] : phase[d] # "resolved"
    /\ \A b \in Brokers : net[b] = <<>>
    /\ UNCHANGED vars

Next ==
    \/ \E s \in Sends : SendStep(s)
    \/ \E t \in TaskIds : TaskStep(t)
    \/ \E b \in Brokers : BrokerHandles(b)
    \/ Fault
    \/ Terminated

Spec == Init /\ [][Next]_vars

\* The event loop runs what is ready, the brokers answer, retry timers fire;
\* faults and the application's calls need not happen.
Fairness ==
    /\ \A s \in Sends : WF_vars(Plan(s) \/ Launch(s) \/ RefreshMetadata(s)
                                \/ Resolve(s))
    /\ \A t \in TaskIds : WF_vars(TaskStep(t))
    /\ \A b \in Brokers : WF_vars(BrokerHandles(b))

FairSpec == Spec /\ Fairness

-----------------------------------------------------------------------------
(***************************************************************************)
(* Properties                                                              *)
(***************************************************************************)

\* Type invariant.  The next sequence of a partition stays in the range that
\* updateSequence() rotates over as long as nothing is rolled back over a
\* rotation.
TypeOK ==
    /\ phase \in [Sends -> Phase]
    /\ attempt \in [Sends -> 0..MaxAttempts]
    /\ plan \in [Sends -> [Partitions -> SUBSET Messages]]
    /\ planLeader \in [Sends -> [Partitions -> Brokers]]
    /\ resp \in [Sends -> [Brokers -> {"absent", "null", "response"}]]
    /\ task \in [TaskIds -> [stage : Stage,
                             batch : [Partitions -> SUBSET Messages],
                             first : [Partitions -> Int]]]
    /\ locked \in [Brokers -> BOOLEAN]
    /\ waiting \in [Brokers -> Seq(TaskIds)]
    /\ seq \in [Partitions -> 0..(Int32Max - 1)]
    /\ meta \in [Partitions -> Brokers]
    /\ leader \in [Partitions -> Brokers]
    /\ log \in [Partitions -> Seq([first : Int, msgs : SUBSET Messages])]
    /\ net \in [Brokers -> Seq(TaskIds)]
    /\ reply \in [TaskIds -> {"none", "ok", "not_leader", "out_of_order", "refused"}]
    /\ faults \in 0..MaxFaults

\* Where a message is in the logs.
Copies(m) ==
    UNION {{<<p, i>> : i \in {k \in DOMAIN log[p] : m \in log[p][k].msgs}} : p \in Partitions}

\* No retry of an idempotent producer writes a message a second time.
AtMostOnce == \A m \in Messages : Cardinality(Copies(m)) <= 1

\* When send() resolves, all of its messages are in the log.
AckedIsWritten ==
    \A s \in Sends : phase[s] = "resolved" =>
        \A m \in MessagesOf[s] : Copies(m) # {}

\* The sequences the producer rolls back after failures and the broker's view
\* of them never part: no batch is refused as out of order, so that no call
\* is rejected for it.
NeverOutOfOrder == \A t \in TaskIds : reply[t] # "out_of_order"

\* Every call settles once the faults stop: no task is left waiting for a lock
\* and no attempt waits for a task that is gone.
SendSettles ==
    \A s \in Sends : phase[s] = "planning" ~> phase[s] \in {"resolved", "rejected"}
=============================================================================

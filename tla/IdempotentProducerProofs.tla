---------------------- MODULE IdempotentProducerProofs ----------------------
(***************************************************************************)
(* Proofs about the idempotent producer, for applications that use it the  *)
(* way it can keep its promise (SequentialUse), with any brokers, leader   *)
(* changes, lost connections, timeouts and retries: a message is written   *)
(* at most once, it is written when send() resolves, and no batch is ever  *)
(* refused for its sequence number.                                        *)
(***************************************************************************)
EXTENDS IdempotentProducer, FiniteSetTheorems, SequenceTheorems, TLAPS

\* The partition of a call, its batch, and the calls to it that come before.
PartOf(s) == CHOOSE p \in Partitions : \A m \in MessagesOf[s] : Targets[m] = {p}
BatchOf(s) == [p \in Partitions |-> IF p = PartOf(s) THEN MessagesOf[s] ELSE {}]
Calls(p) == {s \in Sends : PartOf(s) = p}
MessagesOfAll(S) == UNION {MessagesOf[s] : s \in S}
Before(s) == Awaited[s] \cap Calls(PartOf(s))

\* The first sequence number of a call, and its batch in the log.
Base(s) == Cardinality(MessagesOfAll(Before(s)))
Entry(s) == [first |-> Base(s), msgs |-> MessagesOf[s]]
Written(s) == \E i \in 1..Len(log[PartOf(s)]) : log[PartOf(s)][i] = Entry(s)

\* A task that is not over; there is one in an attempt, at the leader planned.
Active(t) == task[t].stage \in {"waiting", "locked", "sent", "done"}
TaskOf(s) == <<s, attempt[s], planLeader[s][PartOf(s)]>>

\* A call has started when those it awaits have resolved; it is written when it
\* has resolved; responsePerBroker has the leader planned and no other.
SendOK(s) ==
    /\ phase[s] # "idle" => \A d \in Awaited[s] : phase[d] = "resolved"
    /\ phase[s] = "resolved" => Written(s)
    /\ phase[s] \in {"mapping", "producing"} =>
         /\ attempt[s] >= 1
         /\ \A b \in Brokers \ {planLeader[s][PartOf(s)]} : resp[s][b] = "absent"
    /\ phase[s] = "mapping" =>
         plan[s] = BatchOf(s) /\ resp[s][planLeader[s][PartOf(s)]] = "null"
    /\ phase[s] = "producing" => Active(TaskOf(s))
    /\ phase[s] \in {"idle", "planning", "refreshing"} =>
         \A b \in Brokers : resp[s][b] = "absent"

\* A task has the batch of its call. It is active only in the attempt under
\* way; it is done when its batch is written.
TaskOK(t) ==
    /\ task[t].stage # "none" => phase[SendOf(t)] # "idle" /\ task[t].batch = BatchOf(SendOf(t))
    /\ Active(t) => /\ t = TaskOf(SendOf(t))
                    /\ \/ phase[SendOf(t)] = "producing"
                       \/ phase[SendOf(t)] = "resolved" /\ task[t].stage = "done"
    /\ task[t].stage = "done" \/ reply[t] = "ok" => Written(SendOf(t))
    /\ reply[t] # "out_of_order"

\* A request on its way carries the first sequence number of its call.
NetOK == \A b \in Brokers : \A i \in 1..Len(net[b]) :
            /\ task[net[b][i]].stage # "none"
            /\ task[net[b][i]].first[PartOf(SendOf(net[b][i]))] = Base(SendOf(net[b][i]))

\* The log has the batches of calls that started, in the order of the calls.
LogOK ==
    \A p \in Partitions :
       /\ \A i \in 1..Len(log[p]) : \E s \in Calls(p) : phase[s] # "idle" /\ log[p][i] = Entry(s)
       /\ \A i, k \in 1..Len(log[p]) : \A s, r \in Calls(p) :
             i < k /\ log[p][i] = Entry(s) /\ log[p][k] = Entry(r) => s \in Awaited[r]

\* A call has taken its sequence numbers: its request is out, or it resolved.
Claims(s) == phase[s] = "resolved" \/ \E t \in TaskIds : /\ SendOf(t) = s
                                                         /\ task[t].stage \in {"sent", "done"}
\* The next sequence number counts the messages of those calls.
SeqOK == \A p \in Partitions :
            seq[p] = Cardinality(MessagesOfAll({s \in Calls(p) : Claims(s)}))

\* The tasks waiting for a lock, each once.
WaitOK ==
    \A b \in Brokers :
       /\ \A i \in 1..Len(waiting[b]) : /\ task[waiting[b][i]].stage = "waiting"
                                        /\ BrokerOf(waiting[b][i]) = b
       /\ \A i, k \in 1..Len(waiting[b]) : i # k => waiting[b][i] # waiting[b][k]

ProducerInv ==
    /\ TypeOK
    /\ \A s \in Sends : SendOK(s)
    /\ \A t \in TaskIds : TaskOK(t)
    /\ NetOK
    /\ LogOK
    /\ SeqOK
    /\ WaitOK

-----------------------------------------------------------------------------
(* The calls of an application that uses the producer sequentially          *)

\* The parts of a task's name.
LEMMA TaskIdFacts ==
  /\ \A t \in TaskIds : SendOf(t) \in Sends /\ AttemptOf(t) \in 1..MaxAttempts
                        /\ BrokerOf(t) \in Brokers
  /\ \A s \in Sends, k \in 1..MaxAttempts, b \in Brokers :
        /\ <<s, k, b>> \in TaskIds /\ SendOf(<<s, k, b>>) = s
        /\ AttemptOf(<<s, k, b>>) = k /\ BrokerOf(<<s, k, b>>) = b
BY DEF TaskIds, SendOf, AttemptOf, BrokerOf

\* A call has one partition, and at least one message.
LEMMA CallFacts ==
  ASSUME SequentialUse, NEW s \in Sends
  PROVE  /\ PartOf(s) \in Partitions /\ \A m \in MessagesOf[s] : Targets[m] = {PartOf(s)}
         /\ MessagesOf[s] \subseteq Messages /\ MessagesOf[s] # {}
         /\ IsFiniteSet(MessagesOf[s]) /\ Cardinality(MessagesOf[s]) \in Nat
         /\ Cardinality(MessagesOf[s]) > 0
         /\ s \in Calls(PartOf(s)) /\ Awaited[s] \subseteq Sends
         /\ BatchOf(s) \in [Partitions -> SUBSET Messages]
<1>1. MessagesOf[s] \subseteq Messages /\ Awaited[s] \subseteq Sends
  BY IdempotentProducerAssumption
<1>2. \E p \in Partitions : \A m \in MessagesOf[s] : Targets[m] = {p}
  BY DEF SequentialUse
<1>3. PartOf(s) \in Partitions /\ \A m \in MessagesOf[s] : Targets[m] = {PartOf(s)}
  BY <1>2 DEF PartOf
<1>4. IsFiniteSet(MessagesOf[s]) /\ MessagesOf[s] # {}
  BY <1>1, FS_Subset DEF SequentialUse
<1>5. Cardinality(MessagesOf[s]) \in Nat /\ Cardinality(MessagesOf[s]) # 0
  BY <1>4, FS_CardinalityType, FS_EmptySet
<1>6. BatchOf(s) \in [Partitions -> SUBSET Messages]
  BY <1>1 DEF BatchOf
<1> QED
  BY <1>1, <1>3, <1>4, <1>5, <1>6 DEF Calls

\* Of two calls to a partition one awaits the other.
LEMMA OneAwaitsTheOther ==
  ASSUME SequentialUse, NEW s \in Sends, NEW r \in Sends, s # r, PartOf(s) = PartOf(r)
  PROVE  r \in Awaited[s] \/ s \in Awaited[r]
<1>1. PICK m \in MessagesOf[s] : TRUE
  BY CallFacts
<1>2. PICK n \in MessagesOf[r] : TRUE
  BY CallFacts
<1>3. Targets[m] = Targets[n]
  BY <1>1, <1>2, CallFacts
<1> QED
  BY <1>3 DEF SequentialUse

\* A batch in the log tells which call it is of.
LEMMA EntryOfOne ==
  ASSUME SequentialUse, NEW s \in Sends, NEW r \in Sends, Entry(s) = Entry(r)
  PROVE  s = r
<1>1. MessagesOf[s] = MessagesOf[r]
  BY DEF Entry
<1>2. MessagesOf[s] # {}
  BY CallFacts
<1> QED
  BY <1>1, <1>2 DEF SequentialUse

\* The messages of some calls can be counted, with sequence numbers to spare.
LEMMA CountCalls ==
  ASSUME SequentialUse, NEW S \in SUBSET Sends
  PROVE  /\ IsFiniteSet(MessagesOfAll(S)) /\ Cardinality(MessagesOfAll(S)) \in Nat
         /\ Cardinality(MessagesOfAll(S)) < Int32Max
         /\ MessagesOfAll(S) = {} => Cardinality(MessagesOfAll(S)) = 0
<1>1. MessagesOfAll(S) \subseteq Messages
  BY IdempotentProducerAssumption DEF MessagesOfAll
<1>2. IsFiniteSet(Messages) /\ Cardinality(Messages) \in Nat /\ Cardinality(Messages) < Int32Max
  BY FS_CardinalityType DEF SequentialUse
<1>3. IsFiniteSet(MessagesOfAll(S)) /\ Cardinality(MessagesOfAll(S)) <= Cardinality(Messages)
  BY <1>1, <1>2, FS_Subset
<1>4. Cardinality(MessagesOfAll(S)) \in Nat
  BY <1>3, FS_CardinalityType
<1>5. Int32Max \in Nat
  BY IdempotentProducerAssumption
<1> QED
  BY <1>2, <1>3, <1>4, <1>5, FS_EmptySet

\* One more call adds as many messages as it has.
LEMMA CountOneMore ==
  ASSUME SequentialUse, NEW S \in SUBSET Sends, NEW s \in Sends, s \notin S
  PROVE  Cardinality(MessagesOfAll(S \cup {s}))
           = Cardinality(MessagesOfAll(S)) + Cardinality(MessagesOf[s])
<1>1. MessagesOfAll(S \cup {s}) = MessagesOfAll(S) \cup MessagesOf[s]
  BY DEF MessagesOfAll
<1>2. MessagesOfAll(S) \cap MessagesOf[s] = {}
  BY DEF MessagesOfAll, SequentialUse
<1>3. IsFiniteSet(MessagesOfAll(S)) /\ Cardinality(MessagesOfAll(S)) \in Nat
  BY CountCalls
<1>4. IsFiniteSet(MessagesOf[s]) /\ Cardinality(MessagesOf[s]) \in Nat
  BY CallFacts
<1>5. Cardinality(MessagesOfAll(S) \cup MessagesOf[s])
        = Cardinality(MessagesOfAll(S)) + Cardinality(MessagesOf[s])
          - Cardinality(MessagesOfAll(S) \cap MessagesOf[s])
  BY <1>3, <1>4, FS_Union
<1>6. Cardinality(MessagesOfAll(S) \cap MessagesOf[s]) = 0
  BY <1>2, FS_EmptySet
<1>7. \A a, c, d \in Nat : \A x : x = a + c - d /\ d = 0 => x = a + c
  OBVIOUS
<1>8. Cardinality(MessagesOfAll(S \cup {s})) = Cardinality(MessagesOfAll(S) \cup MessagesOf[s])
  BY <1>1
<1>9. Cardinality(MessagesOfAll(S) \cup MessagesOf[s])
        = Cardinality(MessagesOfAll(S)) + Cardinality(MessagesOf[s])
  BY <1>3, <1>4, <1>5, <1>6, <1>7
<1> QED
  BY <1>8, <1>9

\* A call's sequence numbers come after those of the calls before it.
LEMMA BaseGrows ==
  ASSUME SequentialUse, NEW s \in Sends, NEW r \in Sends, PartOf(s) = PartOf(r), r \in Awaited[s]
  PROVE  /\ Base(r) \in Nat /\ Base(s) \in Nat
         /\ Base(s) >= Base(r) + Cardinality(MessagesOf[r])
         /\ Base(s) # Base(r)
<1>1. Before(r) \in SUBSET Sends /\ Before(s) \in SUBSET Sends /\ r \notin Before(r)
  BY CallFacts DEF Before, Calls, SequentialUse
<1>2. Before(r) \cup {r} \subseteq Before(s)
  BY DEF Before, Calls, SequentialUse
<1>3. MessagesOfAll(Before(r) \cup {r}) \subseteq MessagesOfAll(Before(s))
  BY <1>2 DEF MessagesOfAll
<1>4. Cardinality(MessagesOfAll(Before(r) \cup {r})) <= Base(s)
  BY <1>1, <1>3, CountCalls, FS_Subset DEF Base
<1>5. Cardinality(MessagesOfAll(Before(r) \cup {r})) = Base(r) + Cardinality(MessagesOf[r])
  BY <1>1, CountOneMore DEF Base
<1>6. Base(r) \in Nat /\ Base(s) \in Nat
  BY <1>1, CountCalls DEF Base
<1>7. Cardinality(MessagesOf[r]) \in Nat /\ Cardinality(MessagesOf[r]) > 0
  BY CallFacts
<1> QED
  BY <1>4, <1>5, <1>6, <1>7

\* Calls to one partition do not have the same first sequence number.
LEMMA BaseOfOne ==
  ASSUME SequentialUse, NEW s \in Sends, NEW r \in Sends, PartOf(s) = PartOf(r), Base(s) = Base(r)
  PROVE  s = r
<1>1. SUFFICES ASSUME s # r PROVE FALSE
  OBVIOUS
<1>2. r \in Awaited[s] \/ s \in Awaited[r]
  BY <1>1, OneAwaitsTheOther
<1> QED
  BY <1>2, BaseGrows

\* Of the calls to its partition, one that is under way has only those before it
\* started, and they have resolved.
LEMMA StartedBefore ==
  ASSUME SequentialUse, \A c \in Sends : SendOK(c), NEW s \in Sends,
         phase[s] \notin {"idle", "resolved"}
  PROVE  /\ \A r \in Calls(PartOf(s)) \ {s} :
              phase[r] # "idle" => r \in Before(s) /\ phase[r] = "resolved"
         /\ \A r \in Before(s) : r \in Calls(PartOf(s)) \ {s} /\ phase[r] = "resolved"
<1>1. ASSUME NEW r \in Calls(PartOf(s)) \ {s}, phase[r] # "idle"
      PROVE  r \in Before(s) /\ phase[r] = "resolved"
  <2>1. r \in Sends /\ PartOf(r) = PartOf(s)
    BY DEF Calls
  <2>2. r \in Awaited[s] \/ s \in Awaited[r]
    BY <2>1, OneAwaitsTheOther
  <2>3. s \notin Awaited[r]
    BY <1>1, <2>1 DEF SendOK
  <2>4. phase[r] = "resolved"
    BY <2>2, <2>3 DEF SendOK
  <2> QED
    BY <1>1, <2>2, <2>3, <2>4 DEF Before
<1>2. ASSUME NEW r \in Before(s)
      PROVE  r \in Calls(PartOf(s)) \ {s} /\ phase[r] = "resolved"
  BY <1>2 DEF Before, SendOK, SequentialUse
<1> QED
  BY <1>1, <1>2

\* The next sequence number of the partition of a call under way.
LEMMA SeqOfCall ==
  ASSUME SequentialUse, ProducerInv, NEW s \in Sends, phase[s] \notin {"idle", "resolved"}
  PROVE  /\ Base(s) \in Nat
         /\ Base(s) + Cardinality(MessagesOf[s]) < Int32Max
         /\ {r \in Calls(PartOf(s)) : Claims(r)} \ {s} = Before(s)
         /\ ~Claims(s) => seq[PartOf(s)] = Base(s)
         /\ Claims(s) => seq[PartOf(s)] = Base(s) + Cardinality(MessagesOf[s])
<1> DEFINE C == {r \in Calls(PartOf(s)) : Claims(r)}
<1>1. \A r \in Sends : Claims(r) => phase[r] # "idle"
  BY DEF Claims, ProducerInv, TaskOK
<1>2. C \ {s} = Before(s)
  <2>1. ASSUME NEW r \in C \ {s} PROVE r \in Before(s)
    BY <1>1, StartedBefore DEF ProducerInv, Calls
  <2>2. ASSUME NEW r \in Before(s) PROVE r \in C \ {s}
    BY StartedBefore DEF ProducerInv, Claims
  <2> QED
    BY <2>1, <2>2
<1>3. Before(s) \in SUBSET Sends /\ s \notin Before(s)
  BY CallFacts DEF Before, SequentialUse
<1>4. Base(s) \in Nat
  BY <1>3, CountCalls DEF Base
<1>5. Cardinality(MessagesOfAll(Before(s) \cup {s})) = Base(s) + Cardinality(MessagesOf[s])
  BY <1>3, CountOneMore DEF Base
<1>6. Cardinality(MessagesOfAll(Before(s) \cup {s})) < Int32Max
  BY <1>3, CountCalls
<1>7. seq[PartOf(s)] = Cardinality(MessagesOfAll(C))
  BY CallFacts DEF ProducerInv, SeqOK
<1>8. ~Claims(s) => C = Before(s)
  BY <1>2
<1>9. Claims(s) => C = Before(s) \cup {s}
  BY <1>2, CallFacts
<1> HIDE DEF C
<1>10. ~Claims(s) => seq[PartOf(s)] = Base(s)
  BY <1>7, <1>8 DEF Base
<1>11. Claims(s) => seq[PartOf(s)] = Base(s) + Cardinality(MessagesOf[s])
  BY <1>7, <1>9, <1>5
<1> QED
  BY <1>2, <1>4, <1>5, <1>6, <1>10, <1>11 DEF C

-----------------------------------------------------------------------------
(* The invariant holds initially, and the steps of a call keep it            *)

\* The initial states satisfy the invariant.
LEMMA InitInv ==
  ASSUME SequentialUse, Init
  PROVE  ProducerInv
<1>1. TypeOK
  BY IdempotentProducerAssumption DEF Init, TypeOK, Phase, Stage, NoBatch, TaskIds
<1>2. \A s \in Sends : SendOK(s)
  BY DEF Init, SendOK
<1>3. \A t \in TaskIds : TaskOK(t)
  BY DEF Init, TaskOK, Active
<1>4. NetOK /\ LogOK /\ WaitOK
  BY DEF Init, NetOK, LogOK, WaitOK
<1>5. SeqOK
  <2>1. SUFFICES ASSUME NEW p \in Partitions
                 PROVE  seq[p] = Cardinality(MessagesOfAll({s \in Calls(p) : Claims(s)}))
    BY DEF SeqOK
  <2>2. \A s \in Sends : ~Claims(s)
    BY DEF Claims, Init
  <2>3. {s \in Calls(p) : Claims(s)} = {}
    BY <2>2 DEF Calls
  <2>4. MessagesOfAll({}) = {}
    BY DEF MessagesOfAll
  <2> QED
    BY <2>3, <2>4, FS_EmptySet DEF Init
<1> QED
  BY <1>1, <1>2, <1>3, <1>4, <1>5 DEF ProducerInv

\* The sequences are right as long as they, and the calls that have taken
\* theirs, stay the same.
LEMMA SeqKept ==
  ASSUME SeqOK, UNCHANGED seq, \A s \in Sends : Claims(s)' <=> Claims(s)
  PROVE  SeqOK'
<1>1. \A p \in Partitions : {s \in Calls(p) : Claims(s)'} = {s \in Calls(p) : Claims(s)}
  BY DEF Calls
<1> QED
  BY <1>1 DEF SeqOK

\* A step of call s alone, that starts no task.
CallStep(s) ==
    /\ TypeOK'
    /\ UNCHANGED <<lockVars, seq, log, net, reply>>
    /\ \A r \in Sends \ {s} : /\ phase'[r] = phase[r] /\ attempt'[r] = attempt[r]
                              /\ plan'[r] = plan[r] /\ resp'[r] = resp[r]
                              /\ planLeader'[r] = planLeader[r]

\* Such a step keeps the invariant if it leaves the call as it should be, does
\* not start it again, and does not touch an attempt with an active task.
LEMMA CallStepInv ==
  ASSUME ProducerInv, NEW s \in Sends, CallStep(s), SendOK(s)',
         phase[s] # "resolved", phase'[s] # "idle",
         phase[s] = "producing" => phase'[s] = "resolved" /\ UNCHANGED <<attempt, planLeader>>,
         phase'[s] = "resolved" => phase[s] = "producing" /\ task[TaskOf(s)].stage = "done",
         phase'[s] = "resolved" => TaskOf(s) \in TaskIds
  PROVE  ProducerInv'
<1> USE DEF CallStep, lockVars
<1>1. \A r \in Sends \ {s} : SendOK(r)'
  <2>1. SUFFICES ASSUME NEW r \in Sends \ {s} PROVE SendOK(r)'
    OBVIOUS
  <2>2. SendOK(r) /\ Awaited[r] \subseteq Sends
    BY IdempotentProducerAssumption DEF ProducerInv
  <2>3. \A d \in Sends : phase[d] = "resolved" => phase'[d] = "resolved"
    OBVIOUS
  <2>4. (Written(r)' <=> Written(r)) /\ (Active(TaskOf(r))' <=> Active(TaskOf(r)))
    BY DEF Written, Active, TaskOf
  <2> QED
    BY <2>2, <2>3, <2>4 DEF SendOK
<1>2. \A t \in TaskIds : TaskOK(t)'
  <2>1. SUFFICES ASSUME NEW t \in TaskIds PROVE TaskOK(t)'
    OBVIOUS
  <2>2. TaskOK(t) /\ SendOf(t) \in Sends
    BY TaskIdFacts DEF ProducerInv
  <2>3. /\ Written(SendOf(t))' <=> Written(SendOf(t))
        /\ Active(t)' <=> Active(t)
    BY DEF Written, Active
  <2>4. CASE SendOf(t) # s
    BY <2>2, <2>3, <2>4 DEF TaskOK, TaskOf
  <2>5. CASE SendOf(t) = s
    <3>1. Active(t) => phase[s] = "producing" /\ TaskOf(s)' = TaskOf(s)
      BY <2>2, <2>5 DEF TaskOK, TaskOf
    <3> QED
      BY <2>2, <2>3, <2>5, <3>1 DEF TaskOK
  <2> QED
    BY <2>4, <2>5
<1>3. NetOK' /\ WaitOK'
  BY DEF ProducerInv, NetOK, WaitOK
<1>4. LogOK'
  <2>1. \A r \in Sends : phase[r] # "idle" => phase'[r] # "idle"
    OBVIOUS
  <2> QED
    BY <2>1 DEF ProducerInv, LogOK, Calls
<1>5. SeqOK'
  <2>1. TaskOf(s) \in TaskIds => SendOf(TaskOf(s)) = s
    BY DEF TaskOf, SendOf
  <2>2. \A r \in Sends : Claims(r)' <=> Claims(r)
    BY <2>1 DEF Claims
  <2> QED
    BY <2>2, SeqKept DEF ProducerInv
<1> QED
  BY <1>1, <1>2, <1>3, <1>4, <1>5 DEF ProducerInv

\* A call under way keeps the calls it awaits.
LEMMA AwaitedStay ==
  ASSUME ProducerInv, NEW s \in Sends, phase[s] # "idle",
         \A r \in Sends : phase[r] = "resolved" => phase'[r] = "resolved"
  PROVE  \A d \in Awaited[s] : phase'[d] = "resolved"
BY IdempotentProducerAssumption DEF ProducerInv, SendOK

\* The application's call of send() keeps the invariant.
LEMMA SendInv ==
  ASSUME ProducerInv, NEW s \in Sends, Send(s)
  PROVE  ProducerInv'
<1>1. CallStep(s)
  BY DEF CallStep, Send, ProducerInv, TypeOK, Phase, lockVars, brokerVars
<1>2. SendOK(s)'
  BY DEF ProducerInv, SendOK, Send, TypeOK
<1>3. phase[s] = "idle" /\ phase'[s] = "planning"
  BY DEF Send, ProducerInv, TypeOK
<1> QED
  BY <1>1, <1>2, <1>3, CallStepInv

\* A refresh of the metadata keeps it.
LEMMA RefreshMetadataInv ==
  ASSUME ProducerInv, NEW s \in Sends, RefreshMetadata(s)
  PROVE  ProducerInv'
<1>1. CallStep(s)
  BY DEF CallStep, RefreshMetadata, ProducerInv, TypeOK, Phase, lockVars, brokerVars
<1>2. phase[s] = "refreshing" /\ phase'[s] = "planning" /\ resp'[s] = resp[s]
  BY DEF RefreshMetadata, ProducerInv, TypeOK
<1>3. \A d \in Awaited[s] : phase'[d] = "resolved"
  BY <1>1, <1>2, AwaitedStay DEF CallStep
<1>4. SendOK(s)'
  BY <1>2, <1>3 DEF ProducerInv, SendOK
<1> QED
  BY <1>1, <1>2, <1>4, CallStepInv

\* The plan of an attempt keeps the invariant: all messages go to the partition
\* of the call, and its leader is the one without a response.
LEMMA PlanInv ==
  ASSUME SequentialUse, ProducerInv, NEW s \in Sends, Plan(s)
  PROVE  ProducerInv'
<1>1. PICK pt \in [MessagesOf[s] -> Partitions] :
        /\ \A m \in MessagesOf[s] : pt[m] \in Targets[m]
        /\ plan' = [plan EXCEPT ![s] = [p \in Partitions |-> {m \in MessagesOf[s] : pt[m] = p}]]
        /\ resp' = [resp EXCEPT ![s] = [b \in Brokers |->
                      IF /\ resp[s][b] = "absent"
                         /\ \E m \in MessagesOf[s] : meta'[pt[m]] = b
                      THEN "null" ELSE resp[s][b]]]
  BY DEF Plan
<1>2. \A m \in MessagesOf[s] : pt[m] = PartOf(s)
  BY <1>1, CallFacts
<1>3. phase[s] = "planning" /\ phase'[s] = "mapping" /\ attempt'[s] = attempt[s] + 1
  BY DEF Plan, ProducerInv, TypeOK
<1>4. planLeader'[s] = meta' /\ meta' \in [Partitions -> Brokers]
  BY DEF Plan, ProducerInv, TypeOK
<1>5. plan'[s] = BatchOf(s)
  <2>1. plan'[s] = [p \in Partitions |-> {m \in MessagesOf[s] : pt[m] = p}]
    BY <1>1 DEF ProducerInv, TypeOK
  <2>2. \A p \in Partitions : {m \in MessagesOf[s] : pt[m] = p}
                                = IF p = PartOf(s) THEN MessagesOf[s] ELSE {}
    BY <1>2
  <2> QED
    BY <2>1, <2>2 DEF BatchOf
<1>6. resp'[s] = [b \in Brokers |-> IF b = meta'[PartOf(s)] THEN "null" ELSE "absent"]
  <2>1. \A b \in Brokers : resp[s][b] = "absent"
    BY <1>3 DEF ProducerInv, SendOK
  <2>2. resp'[s] = [b \in Brokers |->
                      IF /\ resp[s][b] = "absent"
                         /\ \E m \in MessagesOf[s] : meta'[pt[m]] = b
                      THEN "null" ELSE resp[s][b]]
    BY <1>1 DEF ProducerInv, TypeOK
  <2>3. MessagesOf[s] # {}
    BY CallFacts
  <2> QED
    BY <1>2, <2>1, <2>2, <2>3
<1>7. TypeOK'
  <2>1. plan' \in [Sends -> [Partitions -> SUBSET Messages]]
    BY <1>1, CallFacts DEF ProducerInv, TypeOK
  <2>2. resp' \in [Sends -> [Brokers -> {"absent", "null", "response"}]]
    BY <1>1, <1>6 DEF ProducerInv, TypeOK
  <2>3. attempt' \in [Sends -> 0..MaxAttempts]
    <3>1. attempt[s] \in 0..MaxAttempts /\ attempt[s] < MaxAttempts
      BY DEF Plan, ProducerInv, TypeOK
    <3>2. attempt[s] + 1 \in 0..MaxAttempts
      BY <3>1, IdempotentProducerAssumption
    <3> QED
      BY <3>2 DEF Plan, ProducerInv, TypeOK
  <2>4. phase' \in [Sends -> Phase]
    BY DEF Plan, ProducerInv, TypeOK, Phase
  <2>5. planLeader' \in [Sends -> [Partitions -> Brokers]]
    BY <1>4 DEF Plan, ProducerInv, TypeOK
  <2> QED
    BY <1>4, <2>1, <2>2, <2>3, <2>4, <2>5
    DEF Plan, ProducerInv, TypeOK, lockVars, brokerVars
<1>8. CallStep(s)
  BY <1>1, <1>7 DEF Plan, CallStep, ProducerInv, TypeOK, lockVars, brokerVars
<1>9. SendOK(s)'
  <2>1. attempt'[s] >= 1
    BY <1>3 DEF ProducerInv, TypeOK
  <2>2. \A r \in Sends : phase[r] = "resolved" => phase'[r] = "resolved"
    BY <1>3, <1>8 DEF CallStep
  <2>3. \A d \in Awaited[s] : phase'[d] = "resolved"
    BY <1>3, <2>2, AwaitedStay
  <2>4. meta'[PartOf(s)] \in Brokers
    BY <1>4, CallFacts
  <2> QED
    BY <1>3, <1>4, <1>5, <1>6, <2>1, <2>3, <2>4 DEF SendOK
<1> QED
  BY <1>3, <1>8, <1>9, CallStepInv

\* The task of an attempt is a task.
LEMMA TaskOfCall ==
  ASSUME SequentialUse, ProducerInv, NEW s \in Sends, phase[s] \in {"mapping", "producing"}
  PROVE  /\ TaskOf(s) \in TaskIds /\ SendOf(TaskOf(s)) = s /\ AttemptOf(TaskOf(s)) = attempt[s]
         /\ BrokerOf(TaskOf(s)) = planLeader[s][PartOf(s)]
<1>1. attempt[s] \in 1..MaxAttempts
  BY IdempotentProducerAssumption DEF ProducerInv, TypeOK, SendOK
<1>2. planLeader[s][PartOf(s)] \in Brokers
  BY CallFacts DEF ProducerInv, TypeOK
<1> QED
  BY <1>1, <1>2, TaskIdFacts DEF TaskOf

\* send() resolves once its batch is written.
LEMMA ResolveInv ==
  ASSUME SequentialUse, ProducerInv, NEW s \in Sends, Resolve(s)
  PROVE  ProducerInv'
<1>1. phase[s] = "producing" /\ phase'[s] = "resolved"
  BY DEF Resolve, ProducerInv, TypeOK
<1>2. TaskOf(s) \in TaskIds /\ SendOf(TaskOf(s)) = s
  BY <1>1, TaskOfCall
<1>7. planLeader[s][PartOf(s)] \in Brokers
  BY CallFacts DEF ProducerInv, TypeOK
<1>3. task[TaskOf(s)].stage = "done"
  BY <1>1, <1>7 DEF ProducerInv, SendOK, Active, Resolve, TaskOf
<1>4. Written(s)
  BY <1>2, <1>3 DEF ProducerInv, TaskOK
<1>5. CallStep(s)
  BY DEF CallStep, Resolve, ProducerInv, TypeOK, Phase, lockVars, brokerVars
<1>6. SendOK(s)'
  <2>1. \A d \in Awaited[s] : phase'[d] = "resolved"
    BY <1>1, <1>5, AwaitedStay DEF CallStep
  <2>2. Written(s)'
    BY <1>4, <1>5 DEF CallStep, Written
  <2> QED
    BY <1>1, <2>1, <2>2 DEF SendOK
<1> QED
  BY <1>1, <1>2, <1>3, <1>5, <1>6, CallStepInv DEF Resolve

-----------------------------------------------------------------------------
(* Tasks: launched, given a lock, over                                       *)

\* The launch of an attempt's task keeps the invariant.
LEMMA LaunchInv ==
  ASSUME SequentialUse, ProducerInv, NEW s \in Sends, Launch(s)
  PROVE  ProducerInv'
<1> DEFINE t0 == TaskOf(s)
           b0 == BrokerOf(t0)
<1>1. phase[s] = "mapping" /\ phase'[s] = "producing" /\ SendOK(s)
      /\ \A r \in Sends \ {s} : phase'[r] = phase[r]
  BY DEF Launch, ProducerInv, TypeOK
<1>2. /\ t0 \in TaskIds /\ SendOf(t0) = s /\ b0 \in Brokers
      /\ t0 = <<s, attempt[s], b0>> /\ b0 = planLeader[s][PartOf(s)]
  BY <1>1, TaskOfCall, TaskIdFacts DEF TaskOf
<1>3. {<<s, attempt[s], b>> : b \in {c \in Brokers : resp[s][c] = "null"}} = {t0}
  <2>1. {c \in Brokers : resp[s][c] = "null"} = {b0}
    BY <1>1, <1>2 DEF SendOK
  <2> QED
    BY <1>2, <2>1
<1>4. \A b \in Brokers : <<s, attempt[s], b>> \in {t0} <=> b = b0
  BY <1>2
<1>5. task' = [t \in TaskIds |->
          IF t = t0
          THEN [stage |-> IF locked[b0] THEN "waiting" ELSE "locked",
                batch |-> BatchOf(s), first |-> task[t0].first]
          ELSE task[t]]
  <2>1. [p \in Partitions |-> IF planLeader[s][p] = b0 THEN plan[s][p] ELSE {}] = BatchOf(s)
    BY <1>1, <1>2 DEF SendOK, BatchOf
  <2>2. task' = [t \in TaskIds |->
          IF t \in {t0}
          THEN [stage |-> IF locked[BrokerOf(t)] THEN "waiting" ELSE "locked",
                batch |-> [p \in Partitions |->
                             IF planLeader[s][p] = BrokerOf(t) THEN plan[s][p] ELSE {}],
                first |-> task[t].first]
          ELSE task[t]]
    BY <1>3 DEF Launch
  <2> QED
    BY <2>1, <2>2
<1>6. waiting' = [b \in Brokers |-> IF b = b0 /\ locked[b] THEN Append(waiting[b], t0)
                                    ELSE waiting[b]]
  <2>1. waiting' = [b \in Brokers |-> IF <<s, attempt[s], b>> \in {t0} /\ locked[b]
                                      THEN Append(waiting[b], <<s, attempt[s], b>>)
                                      ELSE waiting[b]]
    BY <1>3 DEF Launch
  <2> QED
    BY <1>2, <1>4, <2>1
<1>7. locked' = [b \in Brokers |-> locked[b] \/ <<s, attempt[s], b>> \in {t0}]
  BY <1>3 DEF Launch
<1>8. UNCHANGED <<attempt, plan, planLeader, resp, seq, meta, brokerVars, faults>>
  BY DEF Launch
<1>9. ~Active(t0)
  BY <1>1, <1>2 DEF ProducerInv, TaskOK
<1> HIDE DEF t0, b0
<1>10. /\ task'[t0].stage \in {"waiting", "locked"} /\ task'[t0].batch = BatchOf(s)
       /\ task'[t0].stage = IF locked[b0] THEN "waiting" ELSE "locked"
       /\ task'[t0].first = task[t0].first
       /\ \A t \in TaskIds \ {t0} : task'[t] = task[t]
  BY <1>2, <1>5
<1>11. TypeOK'
  <2>1. task' \in [TaskIds -> [stage : Stage, batch : [Partitions -> SUBSET Messages],
                               first : [Partitions -> Int]]]
    BY <1>2, <1>5, CallFacts DEF ProducerInv, TypeOK, Stage
  <2>2. waiting' \in [Brokers -> Seq(TaskIds)]
    BY <1>2, <1>6, AppendProperties DEF ProducerInv, TypeOK
  <2>3. locked' \in [Brokers -> BOOLEAN]
    BY <1>7, Zenon DEF ProducerInv, TypeOK
  <2>4. phase' \in [Sends -> Phase]
    BY DEF Launch, ProducerInv, TypeOK, Phase
  <2> QED
    BY <1>8, <2>1, <2>2, <2>3, <2>4 DEF ProducerInv, TypeOK, brokerVars
<1>12. \A r \in Sends : SendOK(r)'
  <2>1. SUFFICES ASSUME NEW r \in Sends PROVE SendOK(r)'
    OBVIOUS
  <2>2. (Written(r)' <=> Written(r)) /\ TaskOf(r)' = TaskOf(r) /\ SendOK(r)
    BY <1>8 DEF Written, TaskOf, ProducerInv, brokerVars
  <2>3. phase[r] # "idle" => \A d \in Awaited[r] : phase'[d] = "resolved"
    BY <1>1, AwaitedStay
  <2>4. CASE r = s
    <3>1. Active(TaskOf(s))'
      BY <1>10, <2>2, <2>4 DEF Active, t0
    <3> QED
      BY <1>1, <1>8, <2>2, <2>3, <2>4, <3>1 DEF SendOK
  <2>5. CASE r # s
    <3>1. phase[r] = "producing" => Active(TaskOf(r))'
      <4>1. phase[r] = "producing" => TaskOf(r) \in TaskIds /\ TaskOf(r) # t0
        BY <1>2, <2>5, TaskOfCall
      <4> QED
        BY <1>10, <2>2, <4>1 DEF Active, SendOK
    <3> QED
      BY <1>1, <1>8, <2>2, <2>3, <2>5, <3>1 DEF SendOK
  <2> QED
    BY <2>4, <2>5
<1>13. \A t \in TaskIds : TaskOK(t)'
  <2>1. SUFFICES ASSUME NEW t \in TaskIds PROVE TaskOK(t)'
    OBVIOUS
  <2>2. SendOf(t) \in Sends /\ TaskOK(t) /\ TaskOf(SendOf(t))' = TaskOf(SendOf(t))
        /\ (Written(SendOf(t))' <=> Written(SendOf(t))) /\ reply' = reply
    BY <1>8, TaskIdFacts DEF Written, TaskOf, ProducerInv, brokerVars
  <2>3. CASE t = t0
    BY <1>1, <1>2, <1>10, <2>2, <2>3 DEF TaskOK, Active, t0
  <2>4. CASE t # t0
    <3>1. task'[t] = task[t] /\ (Active(t)' <=> Active(t))
      BY <1>10, <2>4 DEF Active
    <3>2. SendOf(t) = s => ~Active(t)
      BY <1>1, <2>2 DEF TaskOK
    <3> QED
      BY <1>1, <2>2, <3>1, <3>2 DEF TaskOK
  <2> QED
    BY <2>3, <2>4
<1>14. NetOK'
  <2>1. \A t \in TaskIds : /\ task'[t].first = task[t].first
                           /\ task[t].stage # "none" => task'[t].stage # "none"
    BY <1>10
  <2>2. \A b \in Brokers : \A i \in 1..Len(net[b]) : net[b][i] \in TaskIds
    BY DEF ProducerInv, TypeOK
  <2> QED
    BY <1>8, <2>1, <2>2 DEF ProducerInv, NetOK, brokerVars
<1>15. LogOK'
  BY <1>1, <1>8 DEF ProducerInv, LogOK, Calls, brokerVars
<1>16. SeqOK'
  <2>1. \A t \in TaskIds : task'[t].stage \in {"sent", "done"} <=> task[t].stage \in {"sent", "done"}
    BY <1>9, <1>10 DEF Active
  <2>2. \A r \in Sends : phase'[r] = "resolved" <=> phase[r] = "resolved"
    BY <1>1
  <2>3. \A r \in Sends : Claims(r)' <=> Claims(r)
    BY <2>1, <2>2 DEF Claims
  <2> QED
    BY <1>8, <2>3, SeqKept DEF ProducerInv
<1>17. WaitOK'
  <2>1. SUFFICES ASSUME NEW b \in Brokers
                 PROVE  /\ \A i \in 1..Len(waiting'[b]) : /\ task'[waiting'[b][i]].stage = "waiting"
                                                          /\ BrokerOf(waiting'[b][i]) = b
                        /\ \A i, k \in 1..Len(waiting'[b]) : i # k => waiting'[b][i] # waiting'[b][k]
    BY DEF WaitOK
  <2>2. waiting[b] \in Seq(TaskIds)
        /\ \A i \in 1..Len(waiting[b]) : waiting[b][i] \in TaskIds
    BY DEF ProducerInv, TypeOK
  <2>3. \A i \in 1..Len(waiting[b]) :
           task[waiting[b][i]].stage = "waiting" /\ BrokerOf(waiting[b][i]) = b
    BY DEF ProducerInv, WaitOK
  <2>4. \A i \in 1..Len(waiting[b]) : waiting[b][i] # t0
    BY <1>9, <2>3 DEF Active
  <2>5. \A i, k \in 1..Len(waiting[b]) : i # k => waiting[b][i] # waiting[b][k]
    BY DEF ProducerInv, WaitOK
  <2>6. \A i \in 1..Len(waiting[b]) : task'[waiting[b][i]].stage = "waiting"
    BY <1>10, <2>2, <2>3, <2>4
  <2>7. CASE b = b0 /\ locked[b]
    <3>1. waiting'[b] = Append(waiting[b], t0) /\ task'[t0].stage = "waiting" /\ BrokerOf(t0) = b
      BY <1>6, <1>10, <2>7 DEF b0
    <3>2. Len(waiting[b]) \in Nat /\ Len(waiting'[b]) = Len(waiting[b]) + 1
      BY <1>2, <2>2, <3>1, AppendProperties
    <3>3. /\ \A i \in 1..Len(waiting[b]) : waiting'[b][i] = waiting[b][i]
          /\ waiting'[b][Len(waiting[b]) + 1] = t0
      BY <1>2, <2>2, <3>1, AppendProperties
    <3>4. \A i \in 1..Len(waiting'[b]) : i \in 1..Len(waiting[b]) \/ i = Len(waiting[b]) + 1
      BY <3>2
    <3>5. \A i \in 1..Len(waiting'[b]) : /\ task'[waiting'[b][i]].stage = "waiting"
                                        /\ BrokerOf(waiting'[b][i]) = b
      BY <2>3, <2>6, <3>1, <3>3, <3>4
    <3>6. \A i, k \in 1..Len(waiting'[b]) : i # k => waiting'[b][i] # waiting'[b][k]
      BY <2>4, <2>5, <3>3, <3>4
    <3> QED
      BY <3>5, <3>6
  <2>8. CASE ~(b = b0 /\ locked[b])
    <3>1. waiting'[b] = waiting[b]
      BY <1>6, <2>8
    <3> QED
      BY <2>3, <2>5, <2>6, <3>1
  <2> QED
    BY <2>7, <2>8
<1> QED
  BY <1>11, <1>12, <1>13, <1>14, <1>15, <1>16, <1>17 DEF ProducerInv

\* What releasing the lock of a task's broker leaves of the other tasks: the
\* oldest that waited may have the lock now.
TaskOver(t, stage) ==
    /\ task' \in [TaskIds -> [stage : Stage, batch : [Partitions -> SUBSET Messages],
                              first : [Partitions -> Int]]]
    /\ task'[t].stage = stage
    /\ \A u \in TaskIds : task'[u].batch = task[u].batch /\ task'[u].first = task[u].first
    /\ \A u \in TaskIds \ {t} : \/ task'[u].stage = task[u].stage
                                \/ task[u].stage = "waiting" /\ task'[u].stage = "locked"
    /\ locked' \in [Brokers -> BOOLEAN]
    /\ waiting' \in [Brokers -> Seq(TaskIds)]
    /\ WaitOK'

\* A release gives the lock to a task that waits, and to no other.
LEMMA ReleaseOK ==
  ASSUME TypeOK, WaitOK, NEW t \in TaskIds, task[t].stage = "sent",
         NEW stage \in {"done", "failed"},
         ReleaseLock(BrokerOf(t), [task EXCEPT ![t].stage = stage])
  PROVE  TaskOver(t, stage)
<1> DEFINE b == BrokerOf(t)
           T == [stage : Stage, batch : [Partitions -> SUBSET Messages],
                 first : [Partitions -> Int]]
           tk == [task EXCEPT ![t].stage = stage]
<1>1. b \in Brokers
  BY TaskIdFacts
<1>2. /\ tk \in [TaskIds -> T] /\ tk[t].stage = stage
      /\ \A u \in TaskIds : tk[u].batch = task[u].batch /\ tk[u].first = task[u].first
      /\ \A u \in TaskIds \ {t} : tk[u] = task[u]
  BY DEF TypeOK, Stage
<1>3. \A c \in Brokers :
         /\ waiting[c] \in Seq(TaskIds)
         /\ \A i \in 1..Len(waiting[c]) : /\ waiting[c][i] \in TaskIds
                                          /\ waiting[c][i] # t
                                          /\ task[waiting[c][i]].stage = "waiting"
                                          /\ BrokerOf(waiting[c][i]) = c
         /\ \A i, k \in 1..Len(waiting[c]) : i # k => waiting[c][i] # waiting[c][k]
  BY DEF TypeOK, WaitOK
<1> HIDE DEF tk, T
<1>4. CASE waiting[b] = <<>>
  <2>1. /\ locked' = [locked EXCEPT ![b] = FALSE] /\ task' = tk /\ waiting' = waiting
    BY <1>4 DEF ReleaseLock, tk
  <2>2. WaitOK'
    BY <1>2, <1>3, <2>1 DEF WaitOK
  <2>3. locked' \in [Brokers -> BOOLEAN]
    BY <1>1, <2>1 DEF TypeOK
  <2> QED
    BY <1>2, <2>1, <2>2, <2>3 DEF TaskOver, TypeOK, T
<1>5. CASE waiting[b] # <<>>
  <2> DEFINE h == Head(waiting[b])
  <2>1. /\ task' = [tk EXCEPT ![h].stage = "locked"]
        /\ waiting' = [waiting EXCEPT ![b] = Tail(waiting[b])] /\ locked' = locked
    BY <1>5 DEF ReleaseLock, tk
  <2>2. /\ Len(waiting[b]) \in Nat /\ Len(waiting[b]) >= 1 /\ h = waiting[b][1]
        /\ Tail(waiting[b]) \in Seq(TaskIds)
        /\ Len(Tail(waiting[b])) = Len(waiting[b]) - 1
        /\ \A i \in 1..(Len(waiting[b]) - 1) : Tail(waiting[b])[i] = waiting[b][i + 1]
    BY <1>1, <1>3, <1>5, HeadTailProperties
  <2>3. h \in TaskIds /\ h # t /\ task[h].stage = "waiting" /\ BrokerOf(h) = b
    BY <1>1, <1>3, <2>2
  <2> HIDE DEF h
  <2>4. /\ task' \in [TaskIds -> T] /\ task'[h].stage = "locked"
        /\ \A u \in TaskIds : task'[u].batch = tk[u].batch /\ task'[u].first = tk[u].first
        /\ \A u \in TaskIds \ {h} : task'[u] = tk[u]
    BY <1>2, <2>1, <2>3 DEF T, Stage
  <2>5. waiting' \in [Brokers -> Seq(TaskIds)] /\ waiting'[b] = Tail(waiting[b])
        /\ \A c \in Brokers \ {b} : waiting'[c] = waiting[c]
    BY <1>1, <2>1, <2>2 DEF TypeOK
  <2>6. WaitOK'
    <3>1. SUFFICES ASSUME NEW c \in Brokers
                   PROVE  /\ \A i \in 1..Len(waiting'[c]) : /\ task'[waiting'[c][i]].stage = "waiting"
                                                            /\ BrokerOf(waiting'[c][i]) = c
                          /\ \A i, k \in 1..Len(waiting'[c]) : i # k => waiting'[c][i] # waiting'[c][k]
      BY DEF WaitOK
    <3>2. CASE c # b
      <4>1. waiting'[c] = waiting[c]
        BY <2>5, <3>2
      <4>2. \A i \in 1..Len(waiting[c]) : waiting[c][i] # h
        BY <1>3, <2>3, <3>2
      <4>3. \A i \in 1..Len(waiting[c]) : task'[waiting[c][i]].stage = "waiting"
        BY <1>2, <1>3, <2>4, <4>2
      <4> QED
        BY <1>3, <4>1, <4>3
    <3>3. CASE c = b
      <4>1. \A i \in 1..Len(waiting'[b]) : /\ i + 1 \in 1..Len(waiting[b]) /\ i + 1 # 1
                                           /\ waiting'[b][i] = waiting[b][i + 1]
        BY <2>2, <2>5
      <4>2. \A i \in 1..Len(waiting'[b]) : waiting'[b][i] # h
        BY <1>1, <1>3, <2>2, <4>1
      <4>3. \A i \in 1..Len(waiting'[b]) : /\ task'[waiting'[b][i]].stage = "waiting"
                                           /\ BrokerOf(waiting'[b][i]) = b
        BY <1>1, <1>2, <1>3, <2>4, <4>1, <4>2
      <4>4. \A i, k \in 1..Len(waiting'[b]) : i # k => waiting'[b][i] # waiting'[b][k]
        <5>1. \A i, k \in 1..Len(waiting'[b]) : i # k => i + 1 # k + 1
          OBVIOUS
        <5> QED
          BY <1>1, <1>3, <4>1, <5>1
      <4> QED
        BY <3>3, <4>3, <4>4
    <3> QED
      BY <3>2, <3>3
  <2>7. task'[t].stage = stage
    BY <1>2, <2>3, <2>4
  <2>8. \A u \in TaskIds : task'[u].batch = task[u].batch /\ task'[u].first = task[u].first
    BY <1>2, <2>4
  <2>9. \A u \in TaskIds \ {t} : \/ task'[u].stage = task[u].stage
                                 \/ task[u].stage = "waiting" /\ task'[u].stage = "locked"
    BY <1>2, <2>3, <2>4
  <2> QED
    BY <2>1, <2>4, <2>5, <2>6, <2>7, <2>8, <2>9 DEF TaskOver, TypeOK, T
<1> QED
  BY <1>4, <1>5

\* A task under way is the task of its call's attempt, and has the call's batch.
LEMMA TaskUnderWay ==
  ASSUME SequentialUse, ProducerInv, NEW t \in TaskIds,
         task[t].stage \in {"waiting", "locked", "sent"}
  PROVE  /\ SendOf(t) \in Sends /\ phase[SendOf(t)] = "producing" /\ t = TaskOf(SendOf(t))
         /\ AttemptOf(t) = attempt[SendOf(t)]
         /\ BrokerOf(t) = planLeader[SendOf(t)][PartOf(SendOf(t))] /\ BrokerOf(t) \in Brokers
         /\ task[t].batch = BatchOf(SendOf(t)) /\ Parts(t) = {PartOf(SendOf(t))}
         /\ task[t].batch[PartOf(SendOf(t))] = MessagesOf[SendOf(t)]
         /\ Claims(SendOf(t)) <=> task[t].stage = "sent"
<1> DEFINE s == SendOf(t)
<1>1. s \in Sends /\ BrokerOf(t) \in Brokers /\ TaskOK(t)
  BY TaskIdFacts DEF ProducerInv
<1>2. phase[s] = "producing" /\ t = TaskOf(s) /\ task[t].batch = BatchOf(s)
  BY <1>1 DEF TaskOK, Active
<1>3. AttemptOf(t) = attempt[s] /\ BrokerOf(t) = planLeader[s][PartOf(s)]
  BY <1>1, <1>2, TaskOfCall
<1>4. \A p \in Partitions : BatchOf(s)[p] # {} <=> p = PartOf(s)
  BY <1>1, CallFacts DEF BatchOf
<1>5. Parts(t) = {PartOf(s)}
  BY <1>1, <1>2, <1>4, CallFacts DEF Parts
<1>6. BatchOf(s)[PartOf(s)] = MessagesOf[s]
  BY <1>1, CallFacts DEF BatchOf
<1>7. \A u \in TaskIds : SendOf(u) = s /\ task[u].stage \in {"sent", "done"} => u = t
  BY <1>2 DEF ProducerInv, TaskOK, Active
<1>8. Claims(s) <=> task[t].stage = "sent"
  BY <1>2, <1>7 DEF Claims
<1> QED
  BY <1>1, <1>2, <1>3, <1>5, <1>6, <1>8

\* The sequences are right when one call's have moved and no other.
LEMMA SeqMoved ==
  ASSUME SequentialUse, ProducerInv, NEW s \in Sends, phase[s] \notin {"idle", "resolved"},
         seq' \in [Partitions -> Int],
         \A p \in Partitions \ {PartOf(s)} : seq'[p] = seq[p],
         \A r \in Sends \ {s} : Claims(r)' <=> Claims(r),
         seq'[PartOf(s)] = IF Claims(s)' THEN Base(s) + Cardinality(MessagesOf[s]) ELSE Base(s)
  PROVE  SeqOK'
<1>1. SUFFICES ASSUME NEW p \in Partitions
               PROVE  seq'[p] = Cardinality(MessagesOfAll({r \in Calls(p) : Claims(r)'}))
  BY DEF SeqOK
<1>2. CASE p # PartOf(s)
  <2>1. {r \in Calls(p) : Claims(r)'} = {r \in Calls(p) : Claims(r)}
    BY <1>2 DEF Calls
  <2> QED
    BY <1>2, <2>1 DEF ProducerInv, SeqOK
<1>3. CASE p = PartOf(s)
  <2> DEFINE C == {r \in Calls(p) : Claims(r)'}
  <2>1. {r \in Calls(p) : Claims(r)} \ {s} = Before(s)
    BY <1>3, SeqOfCall
  <2>2. C \ {s} = Before(s)
    BY <2>1 DEF Calls
  <2>3. s \in Calls(p) /\ Before(s) \in SUBSET Sends /\ s \notin Before(s)
    BY <1>3, CallFacts DEF Before, SequentialUse
  <2>4. CASE Claims(s)'
    <3>1. C = Before(s) \cup {s}
      BY <2>2, <2>3, <2>4
    <3>2. Cardinality(MessagesOfAll(Before(s) \cup {s})) = Base(s) + Cardinality(MessagesOf[s])
      BY <2>3, CountOneMore DEF Base
    <3> QED
      BY <1>3, <2>4, <3>1, <3>2
  <2>5. CASE ~Claims(s)'
    <3>1. C = Before(s)
      BY <2>2, <2>3, <2>5
    <3> QED
      BY <1>3, <2>5, <3>1 DEF Base
  <2> QED
    BY <2>4, <2>5
<1> QED
  BY <1>2, <1>3

\* A task that has the lock takes the sequence numbers that are its call's.
LEMMA ProduceInv ==
  ASSUME SequentialUse, ProducerInv, NEW t \in TaskIds, Produce(t)
  PROVE  ProducerInv'
<1> DEFINE s == SendOf(t)
           p0 == PartOf(s)
           n == Cardinality(MessagesOf[s])
<1>1. task[t].stage = "locked"
  BY DEF Produce
<1>2. /\ s \in Sends /\ phase[s] = "producing" /\ t = TaskOf(s) /\ Parts(t) = {p0}
      /\ BrokerOf(t) \in Brokers /\ task[t].batch[p0] = MessagesOf[s] /\ ~Claims(s)
      /\ task[t].batch = BatchOf(s)
  BY <1>1, TaskUnderWay
<1>3. p0 \in Partitions /\ n \in Nat
  BY <1>2, CallFacts
<1>4. Base(s) \in Nat /\ Base(s) + n < Int32Max /\ seq[p0] = Base(s)
  BY <1>2, SeqOfCall
<1>5. Int32Max \in Nat /\ seq \in [Partitions -> 0..(Int32Max - 1)]
  BY IdempotentProducerAssumption DEF ProducerInv, TypeOK
<1>6. /\ seq'[p0] = Base(s) + n
      /\ \A p \in Partitions \ {p0} : seq'[p] = seq[p]
      /\ seq' \in [Partitions -> 0..(Int32Max - 1)]
  <2>1. seq' = [p \in Partitions |-> IF p \in Parts(t)
                                     THEN UpdateSequence(seq[p], 1 * Cardinality(task[t].batch[p]))
                                     ELSE seq[p]]
    BY DEF Produce, MoveSequences
  <2>2. UpdateSequence(seq[p0], 1 * n) = Base(s) + n
    BY <1>3, <1>4, <1>5 DEF UpdateSequence
  <2>3. seq' = [p \in Partitions |-> IF p = p0 THEN Base(s) + n ELSE seq[p]]
    BY <1>2, <2>1, <2>2
  <2>4. Base(s) + n \in 0..(Int32Max - 1)
    BY <1>3, <1>4, <1>5
  <2> QED
    BY <1>3, <1>5, <2>3, <2>4
<1>7. /\ task'[t].stage = "sent" /\ task'[t].first = seq /\ task'[t].batch = task[t].batch
      /\ \A u \in TaskIds \ {t} : task'[u] = task[u]
      /\ task' \in [TaskIds -> [stage : Stage, batch : [Partitions -> SUBSET Messages],
                                first : [Partitions -> Int]]]
  <2>1. seq \in [Partitions -> Int]
    BY <1>5
  <2> QED
    BY <2>1 DEF Produce, ProducerInv, TypeOK, Stage
<1>8. UNCHANGED <<phase, attempt, plan, planLeader, resp, locked, waiting, meta, leader,
                  log, reply, faults>>
  BY DEF Produce, sendVars
<1>9. net' \in [Brokers -> Seq(TaskIds)] /\ net'[BrokerOf(t)] = Append(net[BrokerOf(t)], t)
      /\ \A b \in Brokers \ {BrokerOf(t)} : net'[b] = net[b]
  BY <1>2, AppendProperties DEF Produce, ProducerInv, TypeOK
<1> HIDE DEF s, p0, n
<1>10. TypeOK'
  BY <1>6, <1>7, <1>8, <1>9 DEF ProducerInv, TypeOK
<1>11. \A r \in Sends : SendOK(r)'
  <2>1. \A u \in TaskIds : Active(u) => Active(u)'
    BY <1>7 DEF Active
  <2>2. SUFFICES ASSUME NEW r \in Sends PROVE SendOK(r)'
    OBVIOUS
  <2>3. SendOK(r) /\ TaskOf(r)' = TaskOf(r) /\ (Written(r)' <=> Written(r))
    BY <1>8 DEF ProducerInv, Written, TaskOf
  <2>4. phase[r] = "producing" => Active(TaskOf(r))'
    BY <2>1, <2>3, TaskOfCall DEF SendOK
  <2> QED
    BY <1>8, <2>3, <2>4 DEF SendOK
<1>12. \A u \in TaskIds : TaskOK(u)'
  <2>1. SUFFICES ASSUME NEW u \in TaskIds PROVE TaskOK(u)'
    OBVIOUS
  <2>2. TaskOK(u) /\ TaskOf(SendOf(u))' = TaskOf(SendOf(u)) /\ (Written(SendOf(u))' <=> Written(SendOf(u)))
    BY <1>8 DEF ProducerInv, Written, TaskOf
  <2> QED
    BY <1>1, <1>2, <1>7, <1>8, <2>2 DEF TaskOK, Active, s
<1>13. NetOK'
  <2>1. \A u \in TaskIds : task[u].stage # "none" /\ task[u].first[PartOf(SendOf(u))] = Base(SendOf(u))
                           => task'[u].stage # "none" /\ task'[u].first[PartOf(SendOf(u))] = Base(SendOf(u))
    BY <1>4, <1>7 DEF s, p0
  <2>2. task'[t].stage # "none" /\ task'[t].first[PartOf(SendOf(t))] = Base(SendOf(t))
    BY <1>4, <1>7 DEF s, p0
  <2>3. SUFFICES ASSUME NEW b \in Brokers, NEW i \in 1..Len(net'[b])
                 PROVE  /\ task'[net'[b][i]].stage # "none"
                        /\ task'[net'[b][i]].first[PartOf(SendOf(net'[b][i]))] = Base(SendOf(net'[b][i]))
    BY DEF NetOK
  <2>4. net[b] \in Seq(TaskIds)
    BY DEF ProducerInv, TypeOK
  <2>5. net'[b][i] = t \/ (i \in 1..Len(net[b]) /\ net'[b][i] = net[b][i])
    <3>1. /\ Len(net[b]) \in Nat /\ Len(Append(net[b], t)) = Len(net[b]) + 1
          /\ \A k \in 1..Len(net[b]) : Append(net[b], t)[k] = net[b][k]
          /\ Append(net[b], t)[Len(net[b]) + 1] = t
      BY <2>4, AppendProperties
    <3>2. net'[b] = net[b] \/ net'[b] = Append(net[b], t)
      BY <1>9
    <3> QED
      BY <3>1, <3>2
  <2>6. \A k \in 1..Len(net[b]) :
           /\ net[b][k] \in TaskIds /\ task[net[b][k]].stage # "none"
           /\ task[net[b][k]].first[PartOf(SendOf(net[b][k]))] = Base(SendOf(net[b][k]))
    BY <2>4 DEF ProducerInv, NetOK
  <2> QED
    BY <2>1, <2>2, <2>5, <2>6
<1>14. LogOK'
  BY <1>8 DEF ProducerInv, LogOK
<1>15. SeqOK'
  <2>1. Claims(s)'
    BY <1>7 DEF Claims, s
  <2>2. \A r \in Sends \ {s} : Claims(r)' <=> Claims(r)
    BY <1>7, <1>8 DEF Claims, s
  <2>3. seq' \in [Partitions -> Int]
    BY <1>5, <1>6
  <2> QED
    BY <1>2, <1>6, <2>1, <2>2, <2>3, SeqMoved DEF p0, n
<1>16. WaitOK'
  <2>1. \A b \in Brokers : \A i \in 1..Len(waiting[b]) :
           waiting[b][i] \in TaskIds /\ task[waiting[b][i]].stage = "waiting"
    BY DEF ProducerInv, WaitOK, TypeOK
  <2>2. \A b \in Brokers : \A i \in 1..Len(waiting[b]) : task'[waiting[b][i]] = task[waiting[b][i]]
    BY <1>1, <1>7, <2>1
  <2> QED
    BY <1>8, <2>2 DEF ProducerInv, WaitOK
<1> QED
  BY <1>10, <1>11, <1>12, <1>13, <1>14, <1>15, <1>16 DEF ProducerInv

\* broker.produce() resolves: the batch is written, as the answer says.
LEMMA ProduceSucceedsInv ==
  ASSUME SequentialUse, ProducerInv, NEW t \in TaskIds, ProduceSucceeds(t)
  PROVE  ProducerInv'
<1> DEFINE s == SendOf(t)
<1>1. /\ task[t].stage = "sent" /\ reply[t] = "ok"
      /\ resp' = [resp EXCEPT ![s][BrokerOf(t)] = "response"]
      /\ UNCHANGED <<phase, attempt, plan, planLeader, seq, meta, leader, log, net, reply, faults>>
  BY DEF ProduceSucceeds, brokerVars
<1>2. TaskOver(t, "done")
  BY <1>1, ReleaseOK DEF ProduceSucceeds, ProducerInv
<1>3. /\ s \in Sends /\ phase[s] = "producing" /\ t = TaskOf(s) /\ BrokerOf(t) \in Brokers
      /\ BrokerOf(t) = planLeader[s][PartOf(s)]
  BY <1>1, TaskUnderWay
<1>4. Written(s)
  BY <1>1 DEF ProducerInv, TaskOK
<1>5. /\ resp' \in [Sends -> [Brokers -> {"absent", "null", "response"}]]
      /\ \A r \in Sends \ {s} : resp'[r] = resp[r]
      /\ \A b \in Brokers \ {BrokerOf(t)} : resp'[s][b] = resp[s][b]
  BY <1>1, <1>3 DEF ProducerInv, TypeOK
<1> HIDE DEF s
<1>6. TypeOK'
  BY <1>1, <1>2, <1>5 DEF ProducerInv, TypeOK, TaskOver
<1>7. \A u \in TaskIds : Active(u)' <=> Active(u)
  BY <1>1, <1>2 DEF TaskOver, Active
<1>8. \A r \in Sends : SendOK(r)'
  <2>1. SUFFICES ASSUME NEW r \in Sends PROVE SendOK(r)'
    OBVIOUS
  <2>2. SendOK(r) /\ TaskOf(r)' = TaskOf(r) /\ (Written(r)' <=> Written(r))
    BY <1>1 DEF ProducerInv, Written, TaskOf
  <2>3. phase[r] = "producing" => Active(TaskOf(r))'
    BY <1>7, <2>2, TaskOfCall DEF SendOK
  <2>4. CASE r = s
    BY <1>1, <1>3, <1>5, <2>2, <2>3, <2>4 DEF SendOK
  <2>5. CASE r # s
    BY <1>1, <1>5, <2>2, <2>3, <2>5 DEF SendOK
  <2> QED
    BY <2>4, <2>5
<1>9. \A u \in TaskIds : TaskOK(u)'
  <2>1. SUFFICES ASSUME NEW u \in TaskIds PROVE TaskOK(u)'
    OBVIOUS
  <2>2. TaskOK(u) /\ TaskOf(SendOf(u))' = TaskOf(SendOf(u)) /\ (Written(SendOf(u))' <=> Written(SendOf(u)))
    BY <1>1 DEF ProducerInv, Written, TaskOf
  <2>3. CASE u = t
    BY <1>1, <1>2, <1>3, <1>4, <2>2, <2>3 DEF TaskOK, Active, TaskOver, s
  <2>4. CASE u # t
    <3>1. /\ task'[u].batch = task[u].batch
          /\ \/ task'[u].stage = task[u].stage
             \/ task[u].stage = "waiting" /\ task'[u].stage = "locked"
      BY <1>2, <2>4 DEF TaskOver
    <3> QED
      BY <1>1, <1>7, <2>2, <3>1 DEF TaskOK, Active
  <2> QED
    BY <2>3, <2>4
<1>10. NetOK'
  <2>1. \A u \in TaskIds : /\ task'[u].first = task[u].first
                           /\ task[u].stage # "none" => task'[u].stage # "none"
    BY <1>2 DEF TaskOver
  <2>2. \A b \in Brokers : \A i \in 1..Len(net[b]) : net[b][i] \in TaskIds
    BY DEF ProducerInv, TypeOK
  <2> QED
    BY <1>1, <2>1, <2>2 DEF ProducerInv, NetOK
<1>11. LogOK'
  BY <1>1 DEF ProducerInv, LogOK
<1>12. SeqOK'
  <2>1. \A u \in TaskIds : task'[u].stage \in {"sent", "done"} <=> task[u].stage \in {"sent", "done"}
    BY <1>1, <1>2 DEF TaskOver
  <2>2. \A r \in Sends : Claims(r)' <=> Claims(r)
    BY <1>1, <2>1 DEF Claims
  <2> QED
    BY <1>1, <2>2, SeqKept DEF ProducerInv
<1> QED
  BY <1>2, <1>6, <1>8, <1>9, <1>10, <1>11, <1>12 DEF ProducerInv, TaskOver

\* A task fails, before or after it took its sequence numbers: those it took are
\* given back, and its call goes on to its next attempt or is rejected.  Requests
\* after the failed one may be lost.
Fails(t, next) ==
    /\ TaskOver(t, "failed")
    /\ FailCall(t, next)
    /\ \/ /\ task[t].stage = "sent"
          /\ next \in {"planning", "refreshing", "rejected"}
          /\ seq' = MoveSequences(t, -1)
          /\ resp' = [resp EXCEPT ![SendOf(t)][BrokerOf(t)] = "absent"]
       \/ /\ task[t].stage = "waiting"
          /\ next = "rejected"
          /\ UNCHANGED <<seq, resp>>
    /\ UNCHANGED <<attempt, plan, planLeader, meta, leader, log, reply>>
    /\ net' \in [Brokers -> Seq(TaskIds)]
    /\ \A b \in Brokers : \A i \in 1..Len(net'[b]) : i \in 1..Len(net[b]) /\ net'[b][i] = net[b][i]
    /\ faults' \in 0..MaxFaults

\* A failed task keeps the invariant.
LEMMA FailsInv ==
  ASSUME SequentialUse, ProducerInv, NEW t \in TaskIds, NEW next, Fails(t, next)
  PROVE  ProducerInv'
<1> DEFINE s == SendOf(t)
           p0 == PartOf(s)
           n == Cardinality(MessagesOf[s])
<1>1. /\ TaskOver(t, "failed") /\ task[t].stage \in {"sent", "waiting"}
      /\ next \in {"planning", "refreshing", "rejected"}
      /\ UNCHANGED <<attempt, plan, planLeader, meta, leader, log, reply>>
  BY DEF Fails
<1>2. /\ s \in Sends /\ phase[s] = "producing" /\ t = TaskOf(s) /\ BrokerOf(t) \in Brokers
      /\ AttemptOf(t) = attempt[s] /\ BrokerOf(t) = planLeader[s][p0]
      /\ Parts(t) = {p0} /\ task[t].batch[p0] = MessagesOf[s]
      /\ Claims(s) <=> task[t].stage = "sent"
  BY <1>1, TaskUnderWay
<1>3. /\ phase' = [phase EXCEPT ![s] = next] /\ phase'[s] = next
      /\ \A r \in Sends \ {s} : phase'[r] = phase[r]
      /\ phase' \in [Sends -> Phase]
  BY <1>1, <1>2 DEF Fails, FailCall, ProducerInv, TypeOK, Phase
<1>4. /\ resp' \in [Sends -> [Brokers -> {"absent", "null", "response"}]]
      /\ \A r \in Sends \ {s} : resp'[r] = resp[r]
      /\ \A b \in Brokers \ {BrokerOf(t)} : resp'[s][b] = resp[s][b]
      /\ next # "rejected" => resp'[s][BrokerOf(t)] = "absent"
  <2>1. resp \in [Sends -> [Brokers -> {"absent", "null", "response"}]]
    BY DEF ProducerInv, TypeOK
  <2>2. CASE resp' = [resp EXCEPT ![s][BrokerOf(t)] = "absent"]
    BY <1>2, <2>1, <2>2
  <2>3. CASE next = "rejected" /\ resp' = resp
    BY <2>1, <2>3
  <2> QED
    BY <2>2, <2>3 DEF Fails
<1>5. Base(s) \in Nat /\ p0 \in Partitions /\ n \in Nat /\ Base(s) + n < Int32Max
      /\ seq[p0] = IF task[t].stage = "sent" THEN Base(s) + n ELSE Base(s)
  BY <1>2, SeqOfCall, CallFacts
<1>6. Int32Max \in Nat /\ seq \in [Partitions -> 0..(Int32Max - 1)]
  BY IdempotentProducerAssumption DEF ProducerInv, TypeOK
<1>7. /\ seq'[p0] = Base(s)
      /\ \A p \in Partitions \ {p0} : seq'[p] = seq[p]
      /\ seq' \in [Partitions -> 0..(Int32Max - 1)]
  <2>1. CASE task[t].stage = "waiting"
    BY <1>5, <1>6, <2>1 DEF Fails
  <2>2. CASE task[t].stage = "sent"
    <3>1. seq' = [p \in Partitions |-> IF p \in Parts(t)
                                       THEN UpdateSequence(seq[p], (-1) * Cardinality(task[t].batch[p]))
                                       ELSE seq[p]]
      BY <2>2 DEF Fails, MoveSequences
    <3>2. UpdateSequence(seq[p0], (-1) * n) = Base(s)
      <4>1. seq[p0] + ((-1) * n) = Base(s) /\ Base(s) < Int32Max
        BY <1>5, <1>6, <2>2
      <4> QED
        BY <1>5, <1>6, <4>1 DEF UpdateSequence
    <3>3. seq' = [p \in Partitions |-> IF p = p0 THEN Base(s) ELSE seq[p]]
      BY <1>2, <3>1, <3>2
    <3>4. Base(s) \in 0..(Int32Max - 1)
      BY <1>5, <1>6
    <3> QED
      BY <1>5, <1>6, <3>3, <3>4
  <2> QED
    BY <1>1, <2>1, <2>2
<1> HIDE DEF s, p0, n
<1>8. TypeOK'
  BY <1>1, <1>3, <1>4, <1>7 DEF ProducerInv, TypeOK, TaskOver, Fails
<1>9. /\ ~Active(t)'
      /\ \A u \in TaskIds \ {t} : Active(u)' <=> Active(u)
  BY <1>1 DEF TaskOver, Active
<1>10. \A r \in Sends : SendOK(r)'
  <2>1. SUFFICES ASSUME NEW r \in Sends PROVE SendOK(r)'
    OBVIOUS
  <2>2. SendOK(r) /\ TaskOf(r)' = TaskOf(r) /\ (Written(r)' <=> Written(r))
    BY <1>1 DEF ProducerInv, Written, TaskOf
  <2>3. phase[r] # "idle" => \A d \in Awaited[r] : phase'[d] = "resolved"
    BY <1>2, <1>3, AwaitedStay
  <2>4. CASE r = s
    <3>1. next # "rejected" => \A b \in Brokers : resp'[s][b] = "absent"
      BY <1>2, <1>4, <2>2, <2>4 DEF SendOK, p0
    <3> QED
      BY <1>1, <1>2, <1>3, <2>3, <2>4, <3>1 DEF SendOK
  <2>5. CASE r # s
    <3>1. phase[r] = "producing" => Active(TaskOf(r))'
      <4>1. phase[r] = "producing" => TaskOf(r) \in TaskIds /\ TaskOf(r) # t
        BY <2>5, TaskOfCall DEF s
      <4> QED
        BY <1>9, <2>2, <4>1 DEF SendOK
    <3> QED
      BY <1>1, <1>3, <1>4, <2>2, <2>3, <2>5, <3>1 DEF SendOK
  <2> QED
    BY <2>4, <2>5
<1>11. \A u \in TaskIds : TaskOK(u)'
  <2>1. SUFFICES ASSUME NEW u \in TaskIds PROVE TaskOK(u)'
    OBVIOUS
  <2>2. /\ TaskOK(u) /\ TaskOf(SendOf(u))' = TaskOf(SendOf(u)) /\ SendOf(u) \in Sends
        /\ (Written(SendOf(u))' <=> Written(SendOf(u)))
    BY <1>1, TaskIdFacts DEF ProducerInv, Written, TaskOf
  <2>3. task'[u].batch = task[u].batch
    BY <1>1 DEF TaskOver
  <2>4. CASE u = t
    <3>1. task'[t].stage = "failed" /\ ~Active(t)' /\ reply' = reply /\ phase'[s] # "idle"
      BY <1>1, <1>3, <1>9 DEF TaskOver
    <3> QED
      BY <1>1, <2>2, <2>3, <2>4, <3>1 DEF TaskOK, s
  <2>5. CASE u # t
    <3>1. \/ task'[u].stage = task[u].stage
          \/ task[u].stage = "waiting" /\ task'[u].stage = "locked"
      BY <1>1, <2>5 DEF TaskOver
    <3>2. SendOf(u) = s => ~Active(u)
      BY <1>2, <2>2, <2>5 DEF TaskOK
    <3>3. phase'[SendOf(u)] = phase[SendOf(u)] \/ (SendOf(u) = s /\ phase'[s] # "idle")
      BY <1>1, <1>3, <2>2
    <3>4. CASE SendOf(u) = s
      BY <1>1, <1>9, <2>2, <2>3, <2>5, <3>1, <3>2, <3>3, <3>4 DEF TaskOK, Active
    <3>5. CASE SendOf(u) # s
      BY <1>1, <1>9, <2>2, <2>3, <2>5, <3>1, <3>3, <3>5 DEF TaskOK, Active
    <3> QED
      BY <3>4, <3>5
  <2> QED
    BY <2>4, <2>5
<1>12. NetOK'
  <2>1. \A u \in TaskIds : /\ task'[u].first = task[u].first
                           /\ task[u].stage # "none" => task'[u].stage # "none"
    BY <1>1 DEF TaskOver
  <2>2. \A b \in Brokers : \A i \in 1..Len(net[b]) : net[b][i] \in TaskIds
    BY DEF ProducerInv, TypeOK
  <2> QED
    BY <2>1, <2>2 DEF ProducerInv, NetOK, Fails
<1>13. LogOK'
  BY <1>1, <1>2, <1>3 DEF ProducerInv, LogOK, Calls
<1>14. SeqOK'
  <2>1. \A u \in TaskIds \ {t} : task'[u].stage \in {"sent", "done"} <=> task[u].stage \in {"sent", "done"}
    BY <1>1 DEF TaskOver
  <2>2. \A r \in Sends \ {s} : Claims(r)' <=> Claims(r)
    BY <1>3, <2>1 DEF Claims, s
  <2>3. ~Claims(s)'
    <3>1. \A u \in TaskIds : SendOf(u) = s => ~Active(u)'
      BY <1>2, <1>9 DEF ProducerInv, TaskOK
    <3> QED
      BY <1>1, <1>3, <3>1 DEF Claims, Active
  <2>4. seq' \in [Partitions -> Int]
    BY <1>6, <1>7
  <2> QED
    BY <1>2, <1>7, <2>2, <2>3, <2>4, SeqMoved DEF p0
<1> QED
  BY <1>1, <1>8, <1>10, <1>11, <1>12, <1>13, <1>14 DEF ProducerInv, TaskOver

\* What RemoveAt leaves of a sequence.
LEMMA RemoveAtOK ==
  ASSUME NEW S, NEW s \in Seq(S), NEW i \in 1..Len(s)
  PROVE  /\ RemoveAt(s, i) \in Seq(S) /\ Len(RemoveAt(s, i)) = Len(s) - 1
         /\ \A k \in 1..(Len(s) - 1) : RemoveAt(s, i)[k] = IF k < i THEN s[k] ELSE s[k + 1]
<1> DEFINE a == SubSeq(s, 1, i - 1)
           b == SubSeq(s, i + 1, Len(s))
<1>1. Len(s) \in Nat /\ DOMAIN s = 1..Len(s)
  OBVIOUS
<1>2. /\ a \in Seq(S) /\ Len(a) = i - 1 /\ \A k \in 1..(i - 1) : a[k] = s[k]
  BY <1>1, SubSeqProperties
<1>3. /\ b \in Seq(S) /\ Len(b) = Len(s) - i /\ \A k \in 1..(Len(s) - i) : b[k] = s[i + k]
  <2>1. PICK m \in Int : m = i + 1
    OBVIOUS
  <2>2. PICK n : n = Len(s) /\ n \in Int
    BY <1>1
  <2>3. \A k \in m..n : s[k] \in S
    BY <1>1, <2>1, <2>2
  <2>4. /\ SubSeq(s, m, n) \in Seq(S)
        /\ Len(SubSeq(s, m, n)) = IF m <= n THEN n - m + 1 ELSE 0
        /\ \A k \in 1..(n - m + 1) : SubSeq(s, m, n)[k] = s[m + k - 1]
    BY <2>1, <2>2, <2>3, SubSeqProperties
  <2>5. b = SubSeq(s, m, n)
    BY <2>1, <2>2
  <2>6. Len(b) = Len(s) - i
    BY <2>1, <2>2, <2>4, <2>5, <1>1
  <2>7. ASSUME NEW k \in 1..(Len(s) - i)
        PROVE  b[k] = s[i + k]
    <3>1. k \in 1..(n - m + 1) /\ m + k - 1 = i + k
      BY <2>1, <2>2, <1>1
    <3> HIDE DEF b
    <3> QED
      BY <3>1, <2>4, <2>5
  <2> HIDE DEF b
  <2> QED
    BY <2>4, <2>5, <2>6, <2>7
<1>4. RemoveAt(s, i) = a \o b
  BY DEF RemoveAt
<1> HIDE DEF a, b
<1>5. /\ a \o b \in Seq(S) /\ Len(a \o b) = Len(a) + Len(b)
      /\ \A k \in 1..(Len(a) + Len(b)) : (a \o b)[k] = IF k <= Len(a) THEN a[k] ELSE b[k - Len(a)]
  BY <1>2, <1>3, ConcatProperties
<1>6. Len(a) + Len(b) = Len(s) - 1 /\ Len(a) = i - 1
  BY <1>1, <1>2, <1>3
<1>7. ASSUME NEW k \in 1..(Len(s) - 1)
      PROVE  (a \o b)[k] = IF k < i THEN s[k] ELSE s[k + 1]
  <2>1. (a \o b)[k] = IF k <= Len(a) THEN a[k] ELSE b[k - Len(a)]
    BY <1>5, <1>6
  <2>2. CASE k < i
    <3>1. k \in 1..(i - 1) /\ k <= Len(a)
      BY <1>1, <1>6, <2>2
    <3> QED
      BY <1>2, <2>1, <2>2, <3>1
  <2>3. CASE ~(k < i)
    <3>1. PICK j : j = k - Len(a) /\ j \in 1..(Len(s) - i) /\ i + j = k + 1 /\ ~(k <= Len(a))
      BY <1>1, <1>6, <2>3
    <3>2. b[j] = s[i + j]
      BY <1>3, <3>1
    <3> QED
      BY <2>1, <2>3, <3>1, <3>2
  <2> QED
    BY <2>2, <2>3
<1> QED
  BY <1>4, <1>5, <1>6, <1>7

\* A fault counts.
LEMMA FaultCounts ==
  ASSUME TypeOK, faults < MaxFaults, faults' = faults + 1
  PROVE  faults' \in 0..MaxFaults
<1>1. faults \in 0..MaxFaults /\ MaxFaults \in Nat
  BY IdempotentProducerAssumption DEF TypeOK
<1> QED
  BY <1>1

\* The ways a task fails once its request is out.
LEMMA FailTaskInv ==
  ASSUME SequentialUse, ProducerInv, NEW t \in TaskIds, task[t].stage = "sent",
         NEW next \in {"planning", "refreshing", "rejected"}, FailTask(t, next),
         UNCHANGED <<leader, log, reply>>, faults' \in 0..MaxFaults,
         net' \in [Brokers -> Seq(TaskIds)],
         \A b \in Brokers : \A i \in 1..Len(net'[b]) : i \in 1..Len(net[b]) /\ net'[b][i] = net[b][i]
  PROVE  ProducerInv'
<1>1. TaskOver(t, "failed")
  BY ReleaseOK DEF FailTask, ProducerInv
<1>2. Fails(t, next)
  BY <1>1 DEF Fails, FailTask
<1> QED
  BY <1>2, FailsInv

\* An error from the broker, or no answer in time, keeps the invariant.
LEMMA ErrorInv ==
  ASSUME SequentialUse, ProducerInv, NEW t \in TaskIds,
         NotLeaderReply(t) \/ FatalReply(t) \/ RequestTimeout(t)
  PROVE  ProducerInv'
<1>1. PICK next \in {"planning", "refreshing", "rejected"} :
        FailTask(t, next) /\ task[t].stage = "sent"
  BY DEF NotLeaderReply, FatalReply, RequestTimeout
<1>2. UNCHANGED <<leader, log, reply, net>>
  BY DEF NotLeaderReply, FatalReply, RequestTimeout, brokerVars
<1>3. faults' \in 0..MaxFaults
  <2>1. faults' = faults \/ (faults < MaxFaults /\ faults' = faults + 1)
    BY DEF NotLeaderReply, FatalReply, RequestTimeout
  <2> QED
    BY <2>1, FaultCounts DEF ProducerInv, TypeOK
<1>4. net' \in [Brokers -> Seq(TaskIds)]
  BY <1>2 DEF ProducerInv, TypeOK
<1> QED
  BY <1>1, <1>2, <1>3, <1>4, FailTaskInv

\* A connection that closes under requests, some of which arrive, keeps it.
LEMMA ConnectionClosedInv ==
  ASSUME SequentialUse, ProducerInv, NEW t \in TaskIds, ConnectionClosed(t)
  PROVE  ProducerInv'
<1> DEFINE b0 == BrokerOf(t)
<1>1. task[t].stage = "sent" /\ FailTask(t, "refreshing") /\ UNCHANGED <<leader, log, reply>>
  BY DEF ConnectionClosed
<1>2. PICK k \in 0..Len(net[b0]) : net' = [net EXCEPT ![b0] = SubSeq(net[b0], 1, k)]
  BY DEF ConnectionClosed
<1>3. b0 \in Brokers /\ net[b0] \in Seq(TaskIds) /\ net \in [Brokers -> Seq(TaskIds)]
  BY TaskIdFacts DEF ProducerInv, TypeOK
<1>4. /\ SubSeq(net[b0], 1, k) \in Seq(TaskIds) /\ Len(SubSeq(net[b0], 1, k)) = k
      /\ \A i \in 1..k : SubSeq(net[b0], 1, k)[i] = net[b0][i]
  <2>1. \A i \in 1..k : net[b0][i] \in TaskIds
    BY <1>3
  <2> QED
    BY <1>3, <2>1, SubSeqProperties
<1>5. faults' \in 0..MaxFaults
  BY FaultCounts DEF ConnectionClosed, ProducerInv
<1>6. net' \in [Brokers -> Seq(TaskIds)] /\ net'[b0] = SubSeq(net[b0], 1, k)
      /\ \A b \in Brokers \ {b0} : net'[b] = net[b]
  BY <1>2, <1>3, <1>4
<1>7. \A b \in Brokers : \A i \in 1..Len(net'[b]) : i \in 1..Len(net[b]) /\ net'[b][i] = net[b][i]
  <2>1. \A i \in 1..k : i \in 1..Len(net[b0])
    BY <1>3
  <2> QED
    BY <1>4, <1>6, <2>1
<1> QED
  BY <1>1, <1>5, <1>6, <1>7, FailTaskInv

\* A task that gives up waiting for the lock keeps it.
LEMMA LockTimeoutInv ==
  ASSUME SequentialUse, ProducerInv, NEW t \in TaskIds, LockTimeout(t)
  PROVE  ProducerInv'
<1> DEFINE b0 == BrokerOf(t)
           w == waiting[b0]
<1>1. /\ task[t].stage = "waiting" /\ task' = [task EXCEPT ![t].stage = "failed"]
      /\ FailCall(t, "rejected")
      /\ UNCHANGED <<attempt, plan, planLeader, resp, locked, seq, meta, leader, log, net, reply>>
  BY DEF LockTimeout, brokerVars
<1>2. PICK i \in DOMAIN w : w[i] = t /\ waiting' = [waiting EXCEPT ![b0] = RemoveAt(w, i)]
  BY DEF LockTimeout
<1>3. b0 \in Brokers /\ w \in Seq(TaskIds) /\ i \in 1..Len(w) /\ Len(w) \in Nat
  BY TaskIdFacts DEF ProducerInv, TypeOK
<1>4. /\ RemoveAt(w, i) \in Seq(TaskIds) /\ Len(RemoveAt(w, i)) = Len(w) - 1
      /\ \A k \in 1..(Len(w) - 1) : RemoveAt(w, i)[k] = IF k < i THEN w[k] ELSE w[k + 1]
  BY <1>3, RemoveAtOK
<1>5. waiting' \in [Brokers -> Seq(TaskIds)] /\ waiting'[b0] = RemoveAt(w, i)
      /\ \A b \in Brokers \ {b0} : waiting'[b] = waiting[b]
  BY <1>2, <1>3, <1>4 DEF ProducerInv, TypeOK
<1>6. /\ task' \in [TaskIds -> [stage : Stage, batch : [Partitions -> SUBSET Messages],
                                first : [Partitions -> Int]]]
      /\ task'[t].stage = "failed"
      /\ \A u \in TaskIds : task'[u].batch = task[u].batch /\ task'[u].first = task[u].first
      /\ \A u \in TaskIds \ {t} : task'[u] = task[u]
  BY <1>1 DEF ProducerInv, TypeOK, Stage
<1>7. \A c \in Brokers :
         /\ \A k \in 1..Len(waiting[c]) : /\ waiting[c][k] \in TaskIds
                                          /\ task[waiting[c][k]].stage = "waiting"
                                          /\ BrokerOf(waiting[c][k]) = c
         /\ \A k, l \in 1..Len(waiting[c]) : k # l => waiting[c][k] # waiting[c][l]
  BY DEF ProducerInv, TypeOK, WaitOK
<1>8. \A c \in Brokers : \A k \in 1..Len(waiting[c]) :
          waiting[c][k] # t => task'[waiting[c][k]].stage = "waiting"
  <2>1. \A u \in TaskIds : u # t /\ task[u].stage = "waiting" => task'[u].stage = "waiting"
    BY <1>6
  <2> QED
    BY <1>7, <2>1
<1>9. WaitOK'
  <2>1. SUFFICES ASSUME NEW c \in Brokers
                 PROVE  /\ \A k \in 1..Len(waiting'[c]) : /\ task'[waiting'[c][k]].stage = "waiting"
                                                          /\ BrokerOf(waiting'[c][k]) = c
                        /\ \A k, l \in 1..Len(waiting'[c]) : k # l => waiting'[c][k] # waiting'[c][l]
    BY DEF WaitOK
  <2>2. CASE c # b0
    <3>1. waiting'[c] = waiting[c] /\ \A k \in 1..Len(waiting[c]) : waiting[c][k] # t
      BY <1>5, <1>7, <2>2
    <3>2. \A k \in 1..Len(waiting[c]) : task'[waiting[c][k]].stage = "waiting"
      BY <1>8, <3>1
    <3> QED
      BY <1>7, <3>1, <3>2
  <2>3. CASE c = b0
    <3> DEFINE from(k) == IF k < i THEN k ELSE k + 1
    <3>1. \A k \in 1..Len(waiting'[b0]) : /\ from(k) \in 1..Len(w) /\ from(k) # i
                                          /\ waiting'[b0][k] = w[from(k)]
      BY <1>3, <1>4, <1>5
    <3>2. \A k, l \in 1..Len(waiting'[b0]) : k # l => from(k) # from(l)
      BY <1>3
    <3> HIDE DEF from
    <3>3. \A k \in 1..Len(waiting'[b0]) : waiting'[b0][k] # t
      BY <1>2, <1>3, <1>7, <3>1
    <3>4. \A k \in 1..Len(waiting'[b0]) : /\ task'[waiting'[b0][k]].stage = "waiting"
                                          /\ BrokerOf(waiting'[b0][k]) = b0
      BY <1>3, <1>7, <1>8, <3>1, <3>3
    <3>5. \A k, l \in 1..Len(waiting'[b0]) : k # l => waiting'[b0][k] # waiting'[b0][l]
      BY <1>3, <1>7, <3>1, <3>2
    <3> QED
      BY <2>3, <3>4, <3>5
  <2> QED
    BY <2>2, <2>3
<1>10. TaskOver(t, "failed")
  BY <1>1, <1>5, <1>6, <1>9 DEF TaskOver, ProducerInv, TypeOK
<1>11. faults' \in 0..MaxFaults
  BY FaultCounts DEF LockTimeout, ProducerInv
<1>12. Fails(t, "rejected")
  BY <1>1, <1>10, <1>11 DEF Fails, ProducerInv, TypeOK
<1> QED
  BY <1>12, FailsInv

-----------------------------------------------------------------------------
(* The brokers                                                               *)

\* A request on its way is the batch of a call that started, with its number.
LEMMA RequestOK ==
  ASSUME SequentialUse, ProducerInv, NEW b \in Brokers, net[b] # <<>>
  PROVE  LET t == Head(net[b])
             s == SendOf(t)
         IN /\ t \in TaskIds /\ s \in Sends /\ phase[s] # "idle"
            /\ Parts(t) = {PartOf(s)} /\ task[t].batch[PartOf(s)] = MessagesOf[s]
            /\ task[t].first[PartOf(s)] = Base(s)
<1> DEFINE t == Head(net[b])
           s == SendOf(t)
<1>1. net[b] \in Seq(TaskIds)
  BY DEF ProducerInv, TypeOK
<1>2. t \in TaskIds /\ t = net[b][1] /\ 1 \in 1..Len(net[b])
  BY <1>1, HeadTailProperties
<1>3. task[t].stage # "none" /\ task[t].first[PartOf(s)] = Base(s)
  BY <1>2 DEF ProducerInv, NetOK
<1>4. phase[s] # "idle" /\ task[t].batch = BatchOf(s)
  BY <1>2, <1>3 DEF ProducerInv, TaskOK
<1>5. s \in Sends
  BY <1>2, TaskIdFacts
<1>6. PartOf(s) \in Partitions /\ MessagesOf[s] # {}
  BY <1>5, CallFacts
<1>7. Parts(t) = {PartOf(s)} /\ task[t].batch[PartOf(s)] = MessagesOf[s]
  BY <1>4, <1>6 DEF Parts, BatchOf
<1> QED
  BY <1>2, <1>3, <1>4, <1>5, <1>7

\* The broker takes a batch for a duplicate when, and only when, it is the call's
\* own batch that is in the log.
LEMMA DuplicateIsWritten ==
  ASSUME SequentialUse, ProducerInv, NEW t \in TaskIds, NEW s \in Sends,
         task[t].first[PartOf(s)] = Base(s), task[t].batch[PartOf(s)] = MessagesOf[s]
  PROVE  IsDuplicate(t, PartOf(s)) <=> Written(s)
<1> DEFINE p0 == PartOf(s)
<1>1. ASSUME IsDuplicate(t, p0) PROVE Written(s)
  <2>1. PICK i \in 1..Len(log[p0]) : log[p0][i].first = Base(s)
    BY <1>1 DEF IsDuplicate
  <2>2. PICK r \in Calls(p0) : log[p0][i] = Entry(r)
    BY CallFacts DEF ProducerInv, LogOK
  <2>3. r \in Sends /\ PartOf(r) = p0 /\ Base(r) = Base(s)
    BY <2>1, <2>2 DEF Entry, Calls
  <2>4. r = s
    BY <2>3, BaseOfOne
  <2> QED
    BY <2>2, <2>4 DEF Written
<1>2. ASSUME Written(s) PROVE IsDuplicate(t, p0)
  BY <1>2 DEF Written, IsDuplicate, Entry
<1> QED
  BY <1>1, <1>2

\* A batch that is not in the log has the number the broker expects: the last
\* batch in the log is that of the call before.
LEMMA UnwrittenIsExpected ==
  ASSUME SequentialUse, ProducerInv, NEW s \in Sends, phase[s] # "idle", ~Written(s)
  PROVE  /\ Expected(PartOf(s)) = Base(s)
         /\ \A i \in 1..Len(log[PartOf(s)]) : \A r \in Calls(PartOf(s)) :
               log[PartOf(s)][i] = Entry(r) => r \in Awaited[s]
<1> DEFINE p0 == PartOf(s)
           L == log[p0]
<1>1. phase[s] # "resolved" /\ p0 \in Partitions
  BY CallFacts DEF ProducerInv, SendOK
<1>2. L \in Seq([first : Int, msgs : SUBSET Messages]) /\ Len(L) \in Nat
  <2>1. L \in Seq([first : Int, msgs : SUBSET Messages])
    BY <1>1 DEF ProducerInv, TypeOK
  <2> QED
    BY <2>1, LenProperties
<1>3. \A i \in 1..Len(L) : \E r \in Calls(p0) : phase[r] # "idle" /\ L[i] = Entry(r)
  BY <1>1 DEF ProducerInv, LogOK
<1>4. ASSUME NEW i \in 1..Len(L), NEW r \in Calls(p0), L[i] = Entry(r)
      PROVE  r \in Before(s) /\ r \in Awaited[s]
  <2>1. PICK c \in Calls(p0) : phase[c] # "idle" /\ L[i] = Entry(c)
    BY <1>3
  <2>2. c = r
    BY <1>4, <2>1, EntryOfOne DEF Calls
  <2>3. r # s
    BY <1>4 DEF Written
  <2> QED
    BY <1>1, <2>1, <2>2, <2>3, StartedBefore DEF ProducerInv, Before
<1>5. \A r \in Before(s) : r \in Sends /\ PartOf(r) = p0 /\ \E i \in 1..Len(L) : L[i] = Entry(r)
  <2>1. SUFFICES ASSUME NEW r \in Before(s)
                 PROVE  r \in Sends /\ PartOf(r) = p0 /\ \E i \in 1..Len(L) : L[i] = Entry(r)
    OBVIOUS
  <2>2. r \in Sends /\ PartOf(r) = p0 /\ phase[r] = "resolved"
    BY <1>1, StartedBefore DEF ProducerInv, Calls
  <2> QED
    BY <2>2 DEF ProducerInv, SendOK, Written
<1>6. Expected(p0) = Base(s)
  <2>1. CASE L = <<>>
    <3>1. Before(s) = {}
      BY <1>5, <2>1
    <3>2. MessagesOfAll({}) = {}
      BY DEF MessagesOfAll
    <3>3. Base(s) = 0
      BY <3>1, <3>2, FS_EmptySet DEF Base
    <3> QED
      BY <2>1, <3>3 DEF Expected
  <2>2. CASE L # <<>>
    <3>1. Len(L) \in 1..Len(L)
      BY <1>2, <2>2
    <3>2. PICK l \in Calls(p0) : L[Len(L)] = Entry(l)
      BY <1>3, <3>1
    <3>3. l \in Sends /\ PartOf(l) = p0 /\ l \in Before(s) /\ l \in Awaited[s]
      BY <1>4, <3>1, <3>2 DEF Calls
    <3>4. Before(s) = Before(l) \cup {l}
      <4>1. ASSUME NEW r \in Before(s), r # l PROVE r \in Before(l)
        <5>1. PICK i \in 1..Len(L) : L[i] = Entry(r)
          BY <1>5
        <5>2. i # Len(L)
          BY <1>5, <3>2, <3>3, <4>1, <5>1, EntryOfOne
        <5>3. i < Len(L)
          BY <1>2, <5>2
        <5>4. r \in Calls(p0)
          BY <1>5 DEF Calls
        <5>5. r \in Awaited[l]
          BY <1>1, <3>1, <3>2, <5>1, <5>3, <5>4 DEF ProducerInv, LogOK
        <5> QED
          BY <3>3, <5>4, <5>5 DEF Before
      <4>2. ASSUME NEW r \in Before(l) PROVE r \in Before(s)
        BY <3>3 DEF Before, SequentialUse
      <4> QED
        BY <3>3, <4>1, <4>2
    <3>5. Before(l) \in SUBSET Sends /\ l \notin Before(l)
      BY <3>3, CallFacts DEF Before, SequentialUse
    <3>6. Base(s) = Base(l) + Cardinality(MessagesOf[l])
      BY <3>3, <3>4, <3>5, CountOneMore DEF Base
    <3>7. L[Len(L)].first = Base(l) /\ L[Len(L)].msgs = MessagesOf[l]
      BY <3>2 DEF Entry
    <3> QED
      BY <2>2, <3>6, <3>7 DEF Expected
  <2> QED
    BY <2>1, <2>2
<1> QED
  BY <1>4, <1>6

\* A batch joins the log, or none does.
Logs(s) ==
    \/ UNCHANGED log
    \/ /\ ~Written(s)
       /\ log' = [log EXCEPT ![PartOf(s)] = Append(log[PartOf(s)], Entry(s))]

\* What is written stays written, and the log stays in order.
LEMMA LogsOK ==
  ASSUME SequentialUse, ProducerInv, NEW s \in Sends, phase[s] # "idle", Logs(s), UNCHANGED phase
  PROVE  /\ log' \in [Partitions -> Seq([first : Int, msgs : SUBSET Messages])]
         /\ \A r \in Sends : Written(r) => Written(r)'
         /\ log' # log => Written(s)'
         /\ LogOK'
<1> DEFINE p0 == PartOf(s)
           E == [first : Int, msgs : SUBSET Messages]
           n == Len(log[p0])
<1>1. log \in [Partitions -> Seq(E)]
  BY DEF ProducerInv, TypeOK
<1>2. CASE UNCHANGED log
  BY <1>1, <1>2 DEF Written, LogOK, ProducerInv
<1>3. CASE ~Written(s) /\ log' = [log EXCEPT ![p0] = Append(log[p0], Entry(s))]
  <2>1. p0 \in Partitions /\ MessagesOf[s] \subseteq Messages
    BY CallFacts
  <2>2. Before(s) \in SUBSET Sends
    BY CallFacts DEF Before
  <2>3. Base(s) \in Int
    BY <2>2, CountCalls DEF Base
  <2>4. Entry(s) \in E
    BY <2>1, <2>3 DEF Entry
  <2>5. log[p0] \in Seq(E)
    BY <1>1, <2>1
  <2> HIDE DEF E
  <2>6. /\ n \in Nat /\ Append(log[p0], Entry(s)) \in Seq(E)
        /\ Len(Append(log[p0], Entry(s))) = n + 1
        /\ \A i \in 1..n : Append(log[p0], Entry(s))[i] = log[p0][i]
        /\ Append(log[p0], Entry(s))[n + 1] = Entry(s)
    BY <2>4, <2>5, AppendProperties, LenProperties
  <2>7. log' \in [Partitions -> Seq(E)] /\ log'[p0] = Append(log[p0], Entry(s))
        /\ \A p \in Partitions \ {p0} : log'[p] = log[p]
    BY <1>1, <1>3, <2>1, <2>6
  <2> HIDE DEF n
  <2>8. /\ Len(log'[p0]) = n + 1 /\ n = Len(log[p0]) /\ log'[p0][n + 1] = Entry(s)
        /\ \A i \in 1..n : i \in 1..Len(log'[p0]) /\ log'[p0][i] = log[p0][i]
        /\ \A i \in 1..Len(log'[p0]) : i \in 1..n \/ i = n + 1
        /\ n + 1 \in 1..Len(log'[p0])
    BY <2>6, <2>7 DEF n
  <2>9. Written(s)'
    BY <2>8 DEF Written
  <2>10. ASSUME NEW r \in Sends, Written(r) PROVE Written(r)'
    <3>1. PICK i \in 1..Len(log[PartOf(r)]) : log[PartOf(r)][i] = Entry(r)
      BY <2>10 DEF Written
    <3>2. CASE PartOf(r) = p0
      BY <2>8, <3>1, <3>2 DEF Written
    <3>3. CASE PartOf(r) # p0
      BY <2>7, <3>1, <3>3, CallFacts DEF Written
    <3> QED
      BY <3>2, <3>3
  <2>11. LogOK'
    <3>1. SUFFICES ASSUME NEW p \in Partitions
                   PROVE  /\ \A i \in 1..Len(log'[p]) : \E r \in Calls(p) :
                               phase'[r] # "idle" /\ log'[p][i] = Entry(r)
                          /\ \A i, k \in 1..Len(log'[p]) : \A c, r \in Calls(p) :
                               i < k /\ log'[p][i] = Entry(c) /\ log'[p][k] = Entry(r)
                               => c \in Awaited[r]
      BY DEF LogOK
    <3>2. /\ \A i \in 1..Len(log[p]) : \E r \in Calls(p) : phase[r] # "idle" /\ log[p][i] = Entry(r)
          /\ \A i, k \in 1..Len(log[p]) : \A c, r \in Calls(p) :
                i < k /\ log[p][i] = Entry(c) /\ log[p][k] = Entry(r) => c \in Awaited[r]
      BY DEF ProducerInv, LogOK
    <3>3. CASE p # p0
      BY <2>7, <3>2, <3>3
    <3>4. CASE p = p0
      <4>1. \A i \in 1..Len(log'[p0]) : \E r \in Calls(p0) :
               phase'[r] # "idle" /\ log'[p0][i] = Entry(r)
        BY <2>8, <3>2, <3>4, CallFacts
      <4>2. ASSUME NEW i \in 1..Len(log'[p0]), NEW k \in 1..Len(log'[p0]),
                   NEW c \in Calls(p0), NEW r \in Calls(p0),
                   i < k, log'[p0][i] = Entry(c), log'[p0][k] = Entry(r)
            PROVE  c \in Awaited[r]
        <5>1. i \in 1..n /\ log[p0][i] = Entry(c)
          BY <2>6, <2>8, <4>2
        <5>2. CASE k \in 1..n
          BY <2>8, <3>2, <3>4, <4>2, <5>1, <5>2
        <5>3. CASE k = n + 1
          <6>1. r = s
            BY <2>8, <4>2, <5>3, EntryOfOne DEF Calls
          <6> QED
            BY <1>3, <2>8, <5>1, <6>1, UnwrittenIsExpected
        <5> QED
          BY <2>8, <5>2, <5>3
      <4> QED
        BY <3>4, <4>1, <4>2
    <3> QED
      BY <3>3, <3>4
  <2> QED
    BY <2>7, <2>9, <2>10, <2>11 DEF E
<1> QED
  BY <1>2, <1>3 DEF Logs

\* The broker takes the oldest request and answers it: nothing else of the
\* producer changes.
LEMMA AnswerInv ==
  ASSUME SequentialUse, ProducerInv, NEW b \in Brokers, net[b] # <<>>,
         NEW t \in TaskIds, t = Head(net[b]), NEW s \in Sends, s = SendOf(t),
         NEW e \in {"ok", "not_leader", "refused"},
         reply' = [reply EXCEPT ![t] = e],
         net' = [net EXCEPT ![b] = Tail(net[b])],
         UNCHANGED <<sendVars, lockVars, seq, meta, leader>>, faults' \in 0..MaxFaults,
         Logs(s), e = "ok" => Written(s)'
  PROVE  ProducerInv'
<1>1. phase[s] # "idle"
  BY RequestOK
<1>2. UNCHANGED <<phase, attempt, plan, planLeader, resp, task, locked, waiting, seq, meta, leader>>
  BY DEF sendVars, lockVars
<1>3. /\ log' \in [Partitions -> Seq([first : Int, msgs : SUBSET Messages])]
      /\ \A r \in Sends : Written(r) => Written(r)'
      /\ LogOK'
  BY <1>1, <1>2, LogsOK
<1>4. /\ net[b] \in Seq(TaskIds) /\ Tail(net[b]) \in Seq(TaskIds)
      /\ Len(Tail(net[b])) = Len(net[b]) - 1 /\ Len(net[b]) \in Nat
      /\ \A i \in 1..(Len(net[b]) - 1) : Tail(net[b])[i] = net[b][i + 1]
  BY HeadTailProperties, LenProperties DEF ProducerInv, TypeOK
<1>5. net' \in [Brokers -> Seq(TaskIds)] /\ net'[b] = Tail(net[b])
      /\ \A c \in Brokers \ {b} : net'[c] = net[c]
  BY <1>4 DEF ProducerInv, TypeOK
<1>6. reply' \in [TaskIds -> {"none", "ok", "not_leader", "out_of_order", "refused"}]
      /\ reply'[t] = e /\ \A u \in TaskIds \ {t} : reply'[u] = reply[u]
  BY <1>1 DEF ProducerInv, TypeOK
<1>7. TypeOK'
  BY <1>2, <1>3, <1>5, <1>6 DEF ProducerInv, TypeOK
<1>8. \A r \in Sends : SendOK(r)'
  <2>1. SUFFICES ASSUME NEW r \in Sends PROVE SendOK(r)'
    OBVIOUS
  <2>2. SendOK(r) /\ TaskOf(r)' = TaskOf(r) /\ (Active(TaskOf(r))' <=> Active(TaskOf(r)))
    BY <1>2 DEF ProducerInv, TaskOf, Active
  <2> QED
    BY <1>2, <1>3, <2>2 DEF SendOK
<1>9. \A u \in TaskIds : TaskOK(u)'
  <2>1. SUFFICES ASSUME NEW u \in TaskIds PROVE TaskOK(u)'
    OBVIOUS
  <2>2. /\ TaskOK(u) /\ TaskOf(SendOf(u))' = TaskOf(SendOf(u)) /\ (Active(u)' <=> Active(u))
        /\ Written(SendOf(u)) => Written(SendOf(u))'
    BY <1>2, <1>3, TaskIdFacts DEF ProducerInv, TaskOf, Active
  <2>3. /\ reply'[u] # "out_of_order"
        /\ reply'[u] = "ok" => reply[u] = "ok" \/ Written(SendOf(u))'
    BY <1>6, <2>2 DEF TaskOK
  <2> QED
    BY <1>2, <2>2, <2>3 DEF TaskOK
<1>10. NetOK'
  <2>1. \A c \in Brokers : \A i \in 1..Len(net'[c]) :
           \E k \in 1..Len(net[c]) : net'[c][i] = net[c][k]
    <3>1. \A i \in 1..(Len(net[b]) - 1) : i + 1 \in 1..Len(net[b])
      BY <1>4
    <3>2. \A i \in 1..Len(net'[b]) : \E k \in 1..Len(net[b]) : net'[b][i] = net[b][k]
      BY <1>4, <1>5, <3>1
    <3> QED
      BY <1>5, <3>2
  <2>2. \A c \in Brokers : \A k \in 1..Len(net[c]) :
           /\ task'[net[c][k]].stage # "none"
           /\ task'[net[c][k]].first[PartOf(SendOf(net[c][k]))] = Base(SendOf(net[c][k]))
    BY <1>2 DEF ProducerInv, NetOK
  <2>3. SUFFICES ASSUME NEW c \in Brokers, NEW i \in 1..Len(net'[c])
                 PROVE  /\ task'[net'[c][i]].stage # "none"
                        /\ task'[net'[c][i]].first[PartOf(SendOf(net'[c][i]))] = Base(SendOf(net'[c][i]))
    BY DEF NetOK
  <2>4. PICK k \in 1..Len(net[c]) : net'[c][i] = net[c][k]
    BY <2>1
  <2> QED
    BY <2>2, <2>4
<1>11. SeqOK' /\ WaitOK'
  <2>1. \A r \in Sends : Claims(r)' <=> Claims(r)
    BY <1>2 DEF Claims
  <2>2. SeqOK'
    BY <1>2, <2>1, SeqKept DEF ProducerInv
  <2> QED
    BY <1>2, <2>2 DEF ProducerInv, WaitOK
<1> QED
  BY <1>3, <1>7, <1>8, <1>9, <1>10, <1>11 DEF ProducerInv

\* The broker that handles a request keeps the invariant.
LEMMA BrokerHandlesInv ==
  ASSUME SequentialUse, ProducerInv, NEW b \in Brokers, BrokerHandles(b)
  PROVE  ProducerInv'
<1>1. PICK t, s : t = Head(net[b]) /\ s = SendOf(t)
  OBVIOUS
<1> DEFINE p0 == PartOf(s)
<1>2. /\ net[b] # <<>> /\ net' = [net EXCEPT ![b] = Tail(net[b])]
      /\ UNCHANGED <<sendVars, lockVars, seq, meta, leader, faults>>
  BY DEF BrokerHandles
<1>3. /\ t \in TaskIds /\ s \in Sends /\ phase[s] # "idle" /\ Parts(t) = {p0}
      /\ task[t].batch[p0] = MessagesOf[s] /\ task[t].first[p0] = Base(s)
  BY <1>2, <1>1, RequestOK
<1>4. p0 \in Partitions /\ (IsDuplicate(t, p0) <=> Written(s))
  BY <1>3, CallFacts, DuplicateIsWritten
<1>5. PartitionResult(t, p0) = IF leader[p0] # BrokerOf(t) THEN "not_leader" ELSE "ok"
  BY <1>3, <1>4, UnwrittenIsExpected DEF PartitionResult
<1>6. log' = [p \in Partitions |->
                IF p \in Parts(t) /\ PartitionResult(t, p) = "ok" /\ ~IsDuplicate(t, p)
                THEN Append(log[p], [first |-> task[t].first[p], msgs |-> task[t].batch[p]])
                ELSE log[p]]
  BY <1>1 DEF BrokerHandles
<1>7. PICK e \in (IF {PartitionResult(t, p) : p \in Parts(t)} \ {"ok"} = {} THEN {"ok"}
                  ELSE {PartitionResult(t, p) : p \in Parts(t)} \ {"ok"}) :
        reply' = [reply EXCEPT ![t] = e]
  BY <1>1 DEF BrokerHandles
<1>8. e = PartitionResult(t, p0)
  BY <1>3, <1>7
<1> HIDE DEF p0
<1>9. log' = IF e = "ok" /\ ~Written(s) THEN [log EXCEPT ![p0] = Append(log[p0], Entry(s))]
             ELSE log
  <2>1. log \in [Partitions -> Seq([first : Int, msgs : SUBSET Messages])]
    BY DEF ProducerInv, TypeOK
  <2>2. log' = [p \in Partitions |-> IF p = p0 /\ e = "ok" /\ ~Written(s)
                                     THEN Append(log[p0], Entry(s)) ELSE log[p]]
    BY <1>3, <1>4, <1>6, <1>8 DEF Entry
  <2> QED
    BY <1>4, <2>1, <2>2
<1>10. Logs(s)
  BY <1>9 DEF Logs, p0
<1>11. e = "ok" => Written(s)'
  <2>1. CASE Written(s)
    BY <1>9, <2>1 DEF Written
  <2>2. CASE e = "ok" /\ ~Written(s)
    <3>1. log'[p0] # log[p0]
      <4>1. log[p0] \in Seq([first : Int, msgs : SUBSET Messages])
        BY <1>4 DEF ProducerInv, TypeOK
      <4>2. Len(log[p0]) \in Nat /\ Len(Append(log[p0], Entry(s))) = Len(log[p0]) + 1
        BY <4>1
      <4>3. log'[p0] = Append(log[p0], Entry(s))
        BY <1>4, <1>9, <2>2 DEF ProducerInv, TypeOK
      <4> QED
        BY <4>2, <4>3
    <3> QED
      BY <1>2, <1>3, <1>10, <3>1, LogsOK DEF sendVars
  <2> QED
    BY <2>1, <2>2
<1>12. e \in {"ok", "not_leader", "refused"} /\ faults' \in 0..MaxFaults
  BY <1>2, <1>5, <1>8 DEF ProducerInv, TypeOK
<1> QED
  BY <1>2, <1>3, <1>7, <1>10, <1>11, <1>12, <1>1, AnswerInv

\* So does a broker that refuses one.
LEMMA BrokerRefusesInv ==
  ASSUME SequentialUse, ProducerInv, NEW b \in Brokers, BrokerRefuses(b)
  PROVE  ProducerInv'
<1>1. /\ net[b] # <<>> /\ net' = [net EXCEPT ![b] = Tail(net[b])]
      /\ reply' = [reply EXCEPT ![Head(net[b])] = "refused"]
      /\ UNCHANGED <<sendVars, lockVars, seq, meta, leader>>
      /\ \A s : Logs(s)
  BY DEF BrokerRefuses, Logs
<1>2. faults' \in 0..MaxFaults
  BY FaultCounts DEF BrokerRefuses, ProducerInv
<1> QED
  BY <1>1, <1>2, RequestOK, AnswerInv

\* A new leader has the whole log, so that nothing the invariant is about changes.
LEMMA LeaderChangeInv ==
  ASSUME ProducerInv, NEW p \in Partitions, NEW b \in Brokers, LeaderChange(p, b)
  PROVE  ProducerInv'
<1>1. UNCHANGED <<phase, attempt, plan, planLeader, resp, task, locked, waiting, seq, meta,
                  log, net, reply>>
  BY DEF LeaderChange, sendVars, lockVars
<1>2. leader' \in [Partitions -> Brokers]
  BY DEF LeaderChange, ProducerInv, TypeOK
<1>3. faults' \in 0..MaxFaults
  BY FaultCounts DEF LeaderChange, ProducerInv
<1>4. TypeOK'
  BY <1>1, <1>2, <1>3 DEF ProducerInv, TypeOK
<1> QED
  BY <1>1, <1>4 DEF ProducerInv, SendOK, TaskOK, NetOK, LogOK, SeqOK, WaitOK, Written, Active,
                    TaskOf, Claims

-----------------------------------------------------------------------------
(* The theorems                                                              *)

\* Every step keeps the invariant.
LEMMA NextInv ==
  ASSUME SequentialUse, ProducerInv, [Next]_vars
  PROVE  ProducerInv'
<1>1. ASSUME NEW s \in Sends, SendStep(s) PROVE ProducerInv'
  BY <1>1, SendInv, PlanInv, LaunchInv, RefreshMetadataInv, ResolveInv DEF SendStep
<1>2. ASSUME NEW t \in TaskIds, TaskStep(t) PROVE ProducerInv'
  BY <1>2, ProduceInv, ProduceSucceedsInv, ErrorInv DEF TaskStep
<1>3. ASSUME NEW b \in Brokers, BrokerHandles(b) PROVE ProducerInv'
  BY <1>3, BrokerHandlesInv
<1>4. ASSUME Fault PROVE ProducerInv'
  BY <1>4, ErrorInv, ConnectionClosedInv, LockTimeoutInv, BrokerRefusesInv, LeaderChangeInv
  DEF Fault
<1>5. ASSUME UNCHANGED vars PROVE ProducerInv'
  <2>1. UNCHANGED <<phase, attempt, plan, planLeader, resp, task, locked, waiting, seq, meta,
                    leader, log, net, reply, faults>>
    BY <1>5 DEF vars, sendVars, lockVars, brokerVars
  <2>2. TypeOK'
    BY <2>1 DEF ProducerInv, TypeOK
  <2> QED
    BY <2>1, <2>2 DEF ProducerInv, SendOK, TaskOK, NetOK, LogOK, SeqOK, WaitOK, Written,
                Active, TaskOf, Claims
<1> QED
  BY <1>1, <1>2, <1>3, <1>4, <1>5 DEF Next, Terminated

\* The invariant of the idempotent producer: the sequence numbers it counts and
\* the ones the brokers expect are those of the calls in their order.
THEOREM ProducerInvariant ==
  ASSUME SequentialUse
  PROVE  Spec => []ProducerInv
<1>1. Init => ProducerInv
  BY InitInv
<1>2. ProducerInv /\ [Next]_vars => ProducerInv'
  BY NextInv
<1> QED
  BY <1>1, <1>2, PTL DEF Spec

\* In two places of the logs there are two messages.
LEMMA OneCopy ==
  ASSUME SequentialUse, ProducerInv, NEW m \in Messages, NEW x \in Copies(m), NEW y \in Copies(m)
  PROVE  x = y
<1>1. PICK p, i : p \in Partitions /\ i \in DOMAIN log[p] /\ x = <<p, i>> /\ m \in log[p][i].msgs
  BY DEF Copies
<1>2. PICK q, k : q \in Partitions /\ k \in DOMAIN log[q] /\ y = <<q, k>> /\ m \in log[q][k].msgs
  BY DEF Copies
<1>3. \A z \in Partitions : log[z] \in Seq([first : Int, msgs : SUBSET Messages])
  BY DEF ProducerInv, TypeOK
<1>4. DOMAIN log[p] = 1..Len(log[p]) /\ DOMAIN log[q] = 1..Len(log[q])
  BY <1>1, <1>2, <1>3, LenProperties
<1>5. i \in 1..Len(log[p]) /\ k \in 1..Len(log[q])
  BY <1>1, <1>2, <1>4
<1>6. PICK s \in Calls(p) : log[p][i] = Entry(s)
  BY <1>1, <1>5 DEF ProducerInv, LogOK
<1>7. PICK r \in Calls(q) : log[q][k] = Entry(r)
  BY <1>2, <1>5 DEF ProducerInv, LogOK
<1>8. s = r /\ p = q /\ s \in Sends
  BY <1>1, <1>2, <1>6, <1>7 DEF Entry, Calls, SequentialUse
<1>9. s \notin Awaited[s]
  BY <1>8 DEF SequentialUse
<1>10. ~(i < k) /\ ~(k < i)
  BY <1>1, <1>5, <1>6, <1>7, <1>8, <1>9 DEF ProducerInv, LogOK
<1>11. i \in Int /\ k \in Int
  BY <1>5
<1> QED
  BY <1>1, <1>2, <1>8, <1>10, <1>11

\* No message is written twice, whatever the timeouts, lost connections, leader
\* changes and retries of sendMessages.js.
THEOREM WrittenOnce ==
  ASSUME SequentialUse
  PROVE  Spec => []AtMostOnce
<1>1. ASSUME ProducerInv PROVE AtMostOnce
  <2>1. SUFFICES ASSUME NEW m \in Messages PROVE Cardinality(Copies(m)) <= 1
    BY DEF AtMostOnce
  <2>2. CASE Copies(m) = {}
    BY <2>2, FS_EmptySet
  <2>3. CASE Copies(m) # {}
    <3>1. PICK x \in Copies(m) : TRUE
      BY <2>3
    <3>2. Copies(m) = {x}
      BY <1>1, <3>1, OneCopy
    <3> QED
      BY <3>2, FS_Singleton
  <2> QED
    BY <2>2, <2>3
<1> QED
  BY <1>1, ProducerInvariant, PTL

\* When send() resolves, its messages are in the log of their partition.
THEOREM ResolvedIsWritten ==
  ASSUME SequentialUse
  PROVE  Spec => []AckedIsWritten
<1>1. ASSUME ProducerInv PROVE AckedIsWritten
  <2>1. SUFFICES ASSUME NEW s \in Sends, phase[s] = "resolved", NEW m \in MessagesOf[s]
                 PROVE  Copies(m) # {}
    BY DEF AckedIsWritten
  <2>2. PICK i \in 1..Len(log[PartOf(s)]) : log[PartOf(s)][i] = Entry(s)
    BY <1>1, <2>1 DEF ProducerInv, SendOK, Written
  <2>3. PartOf(s) \in Partitions
    BY CallFacts
  <2>4. log[PartOf(s)] \in Seq([first : Int, msgs : SUBSET Messages])
    BY <1>1, <2>3 DEF ProducerInv, TypeOK
  <2>5. i \in DOMAIN log[PartOf(s)]
    BY <2>2, <2>4, LenProperties
  <2>6. m \in log[PartOf(s)][i].msgs
    BY <2>1, <2>2 DEF Entry
  <2>7. <<PartOf(s), i>> \in Copies(m)
    BY <2>3, <2>5, <2>6 DEF Copies
  <2> QED
    BY <2>7
<1> QED
  BY <1>1, ProducerInvariant, PTL

\* No batch is refused for its sequence number: giving numbers back after a
\* failure and taking them again never parts the producer from the broker.
THEOREM NumbersAgree ==
  ASSUME SequentialUse
  PROVE  Spec => []NeverOutOfOrder
<1>1. ASSUME ProducerInv PROVE NeverOutOfOrder
  BY <1>1 DEF ProducerInv, TaskOK, NeverOutOfOrder
<1> QED
  BY <1>1, ProducerInvariant, PTL
=============================================================================

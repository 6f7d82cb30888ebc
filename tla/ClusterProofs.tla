---------------------------- MODULE ClusterProofs ----------------------------
(***************************************************************************)
(* Proofs about the cluster layer, for any number of overlapping calls, any *)
(* nodes and addresses, any move of the cluster and any number of retries   *)
(* and faults: the Broker objects the pool, the seed and the processes name *)
(* exist, and a topic the brokers refuse does not stay a target topic.      *)
(***************************************************************************)
EXTENDS Cluster, FiniteSetTheorems, SequenceTheorems, TLAPS

\* Every address there is: of the configuration and of the cluster.
Addrs == ToSet(Seeds) \cup {w[n] : w \in {Start} \cup Moves, n \in Nodes}
BrokerObject == [addr : Addrs, node : Nodes \cup {None}, connected : BOOLEAN,
                 ready : BOOLEAN]

\* The pool: the Brokers it names exist.
PoolOK ==
    /\ where \in {Start} \cup Moves
    /\ objs \in Seq(BrokerObject)
    /\ brokers \in [Nodes -> DOMAIN objs \cup {None}]
    /\ seedBroker \in DOMAIN objs \cup {None}
    /\ index \in 0..(Len(Seeds) - 1)

\* A process is a record of Idle's fields with a Broker that exists, or none.
Fields == {"pc", "op", "then", "goal", "arg", "o", "left", "topics", "before", "seedAt",
           "tries", "rounds", "got", "err", "closing"}
IsProcess(r, D) ==
    DOMAIN r = Fields /\ r.o \in D \cup {0} /\ r.goal \in {"use", "ask"}
Processes(pr, D) ==
    /\ DOMAIN pr = Procs
    /\ \A p \in Procs : IsProcess(pr[p], D)
ProcsOK == Processes(proc, DOMAIN objs)

\* The promises of sharedPromiseTo are where BrokerPool.refreshMetadata is. One
\* that goes to the seed has found no Broker connected, and none gets connected
\* before it goes on; one that closes Brokers has got its answer.
JobPcs == {"idle", "find", "connecting", "seed", "seeding", "request", "closing"}
JobsOK ==
    \A j \in Jobs :
       /\ proc[j].pc \in JobPcs
       /\ proc[j].pc = "seed" => ~HasConnectedBrokers
       /\ proc[j].pc = "closing" => proc[j].topics \cap Bad = {}

\* The lock of the target topics: those who hold it or wait for it, each once,
\* and only the first goes on.
Adding(c) == proc[c].op = "add" /\ proc[c].pc # "lock"
LockOK ==
    /\ topicsLock \in Seq(Callers)
    /\ \A i, k \in 1..Len(topicsLock) : i # k => topicsLock[i] # topicsLock[k]
    /\ \A c \in Callers :
          proc[c].op = "add" <=> \E i \in 1..Len(topicsLock) : topicsLock[i] = c
    /\ \A c \in Callers : proc[c].pc = "lock" \/ proc[c].then = "added" => proc[c].op = "add"
    /\ \A c \in Callers : Adding(c) => topicsLock[1] = c

\* What addMultipleTargetTopics knows of its topic: the refresh it waits for
\* asks for it, or joined too late; one that succeeded says that no broker
\* refuses it.
AddOK(c) ==
    /\ proc[c].arg \in Topics
    /\ Adding(c) =>
         /\ proc[c].pc \in {"refreshMetadata", "resumed"} /\ proc[c].then = "added"
         /\ proc[c].before \subseteq Topics /\ proc[c].before \cap Bad \subseteq tainted
         /\ proc[c].pc = "refreshMetadata" =>
              /\ proc["refreshMetadata"].pc # "idle"
              /\ proc[c].arg \in tainted \cup proc["refreshMetadata"].topics
         /\ proc[c].pc = "resumed" /\ proc[c].got = "ok" /\ proc[c].arg \in Bad
              => proc[c].arg \in tainted

\* Of the refused topics only the one of the call at work is a target.
TargetsOK ==
    /\ targetTopics \subseteq Topics
    /\ \A t \in targetTopics \cap Bad :
          t \in tainted \/ \E c \in Callers : Adding(c) /\ proc[c].arg = t

TopicsOK ==
    /\ LockOK
    /\ \A c \in Callers : proc[c].op = "add" => AddOK(c)
    /\ TargetsOK

\* A caller that has not made its call does nothing.
CallsOK == \A c \in Callers : c \notin calls => proc[c].pc = "idle"

ClusterInv == PoolOK /\ ProcsOK /\ JobsOK /\ TopicsOK /\ CallsOK

\* SetToSeq lists a finite set without leaving anything out.
LEMMA SetToSeqLists ==
  ASSUME NEW S, IsFiniteSet(S)
  PROVE  /\ SetToSeq(S) \in Seq(S)
         /\ \A x \in S : \E i \in 1..Len(SetToSeq(S)) : SetToSeq(S)[i] = x
<1> DEFINE n == Cardinality(S)
           f == SetToSeq(S)
<1>1. n \in Nat /\ ExistsBijection(1..n, S)
  BY FS_CardinalityType
<1>2. PICK g : g \in Bijection(1..n, S)
  BY <1>1 DEF ExistsBijection
<1>3. g \in [1..n -> S] /\ IsInjective(g)
  BY <1>2 DEF Bijection, Injection, IsInjective
<1>4. f \in [1..n -> S] /\ IsInjective(f)
  BY <1>3 DEF SetToSeq
<1>5. f \in Injection(1..n, S)
  BY <1>4 DEF Injection, IsInjective
<1>6. IsFiniteSet(1..n) /\ Cardinality(1..n) = n
  BY <1>1, FS_Interval
<1>7. f \in Surjection(1..n, S)
  BY <1>5, <1>6, FS_Injection
<1>8. \A x \in S : \E i \in 1..n : f[i] = x
  BY <1>7 DEF Surjection
<1>9. f \in Seq(S) /\ Len(f) = n
  BY <1>1, <1>4
<1> QED
  BY <1>8, <1>9

-----------------------------------------------------------------------------
(* What the operators on processes do.                                     *)

\* A process that does nothing.
LEMMA IdleOK ==
  /\ \A D : IsProcess(Idle, D)
  /\ Idle.pc = "idle" /\ Idle.op = None /\ Idle.then = "end" /\ Idle.o = 0
BY DEF Idle, IsProcess, Fields

\* The fields of c that the locking of target topics is about.
SameCall(r, s) == r.op = s.op /\ r.arg = s.arg /\ r.before = s.before

\* Waiting for a shared promise: the caller waits, a promise that was idle
\* starts for the given topics, one at work goes on; or there is no need of it.
LEMMA AwaitOK ==
  ASSUME NEW D, NEW pr, Processes(pr, D), NEW c \in Callers, NEW j \in Jobs,
         NEW topics, NEW then
  PROVE  LET new == Await(pr, c, j, topics, then)
         IN /\ Processes(new, D)
            /\ \A q \in Procs \ {c, j} : new[q] = pr[q]
            /\ SameCall(new[c], pr[c]) /\ new[c].then = then
            /\ \/ /\ new[c].pc = "resumed" /\ j # "refreshMetadata"
                  /\ new[j] = pr[j]
               \/ /\ new[c].pc = j
                  /\ IF pr[j].pc # "idle" THEN new[j] = pr[j]
                     ELSE new[j].pc = "find" /\ new[j].topics = topics
<1> DEFINE joined == [pr EXCEPT ![c].pc = j, ![c].then = then]
           start == [Idle EXCEPT !.pc = "find", !.left = Known, !.topics = topics]
           new == Await(pr, c, j, topics, then)
<1>1. c \in Procs /\ j \in Procs /\ c # j
  BY ClusterAssumption DEF Procs
<1>2. Processes(joined, D) /\ SameCall(joined[c], pr[c]) /\ joined[c].then = then
      /\ joined[c].pc = j /\ \A q \in Procs \ {c} : joined[q] = pr[q]
  BY <1>1 DEF Processes, IsProcess, Fields, SameCall
<1>3. IsProcess(start, D) /\ start.pc = "find" /\ start.topics = topics
  BY DEF Idle, IsProcess, Fields
<1>4. CASE pr[j].pc # "idle"
  <2>1. new = joined
    BY <1>4 DEF Await
  <2> QED
    BY <2>1, <1>1, <1>2, <1>4
<1>5. CASE pr[j].pc = "idle" /\ (j = "refreshMetadata" \/ ShouldRefresh(topics))
  <2>1. new = [joined EXCEPT ![j] = start]
    BY <1>5 DEF Await
  <2>2. DOMAIN new = Procs /\ new[j] = start /\ \A q \in Procs \ {j} : new[q] = joined[q]
    BY <2>1, <1>1, <1>2 DEF Processes
  <2>3. Processes(new, D)
    BY <2>2, <1>2, <1>3 DEF Processes
  <2> QED
    BY <2>2, <2>3, <1>1, <1>2, <1>3, <1>5
<1>6. CASE pr[j].pc = "idle" /\ ~(j = "refreshMetadata" \/ ShouldRefresh(topics))
  <2>1. new = Resume(joined, c, "ok")
    BY <1>6 DEF Await
  <2>2. Processes(new, D) /\ SameCall(new[c], pr[c]) /\ new[c].then = then
        /\ new[c].pc = "resumed" /\ \A q \in Procs \ {c} : new[q] = pr[q]
    BY <2>1, <1>1, <1>2 DEF Resume, Processes, IsProcess, Fields, SameCall
  <2> QED
    BY <2>2, <1>1, <1>6
<1> QED
  BY <1>4, <1>5, <1>6

\* A caller whose own await settles goes on, the others stay.
LEMMA CallerSettles ==
  ASSUME NEW D, Processes(proc, D), NEW p \in Callers, NEW e
  PROVE  LET new == Settle(p, e)
         IN /\ Processes(new, D)
            /\ \A q \in Procs \ {p} : new[q] = proc[q]
            /\ new[p].pc = "resumed" /\ new[p].op = proc[p].op /\ new[p].then = proc[p].then
BY DEF Settle, Resume, Processes, IsProcess, Fields, Procs

\* A shared promise settles: it is idle, and those who wait for it go on.
LEMMA JobSettles ==
  ASSUME NEW D, Processes(proc, D), NEW p \in Jobs, NEW e
  PROVE  LET new == Settle(p, e)
         IN /\ Processes(new, D)
            /\ new[p] = Idle
            /\ \A q \in Procs \ {p} : proc[q].pc # p => new[q] = proc[q]
            /\ \A q \in Procs \ {p} : proc[q].pc = p =>
                 /\ SameCall(new[q], proc[q]) /\ new[q].then = proc[q].then
                 /\ new[q].pc = "resumed" /\ new[q].got = e
<1> DEFINE new == Settle(p, e)
<1>1. p \notin Callers /\ p \in Procs
  BY ClusterAssumption DEF Procs
<1>2. new = [q \in Procs |-> IF q = p THEN Idle
                          ELSE IF proc[q].pc = p THEN Resume(proc, q, e)[q]
                          ELSE proc[q]]
  BY <1>1 DEF Settle
<1>3. \A q \in Procs :
         LET r == Resume(proc, q, e)[q]
         IN /\ IsProcess(r, D) /\ r.pc = "resumed" /\ r.got = e /\ SameCall(r, proc[q])
            /\ r.then = proc[q].then
  BY DEF Resume, Processes, IsProcess, Fields, SameCall
<1>4. Processes(new, D)
  BY <1>2, <1>3, IdleOK DEF Processes
<1> QED
  BY <1>1, <1>2, <1>3, <1>4
-----------------------------------------------------------------------------
(* What a step may do to the invariant, whatever action it is.             *)

\* A step that leaves the calls of addMultipleTargetTopics and their refresh
\* alone: a caller is as it was, or was and is in another call; the refresh
\* goes on, for the same topics.
OtherCall(r) == r.op # "add" /\ r.pc # "lock" /\ r.then # "added"
Aside ==
    /\ UNCHANGED topicVars
    /\ \A c \in Callers : proc'[c] = proc[c] \/ (OtherCall(proc[c]) /\ OtherCall(proc'[c]))
    /\ proc["refreshMetadata"].pc # "idle" =>
          /\ proc'["refreshMetadata"].pc # "idle"
          /\ proc'["refreshMetadata"].topics = proc["refreshMetadata"].topics

\* Such a step keeps what is known of the target topics.
LEMMA AsideKeeps ==
  ASSUME TopicsOK, Aside
  PROVE  TopicsOK'
<1>1. \A c \in Callers : Adding(c)' <=> Adding(c)
  BY DEF Aside, OtherCall, Adding
<1>2. LockOK'
  BY <1>1 DEF TopicsOK, LockOK, Aside, topicVars, OtherCall, Adding
<1>3. ASSUME NEW c \in Callers, (proc[c].op = "add")'
      PROVE  AddOK(c)'
  <2>1. proc'[c] = proc[c] /\ AddOK(c)
    BY <1>3 DEF Aside, OtherCall, TopicsOK
  <2> QED
    BY <2>1, <1>1 DEF AddOK, Aside, topicVars
<1>4. TargetsOK'
  <2>1. targetTopics' = targetTopics /\ tainted' = tainted
    BY DEF Aside, topicVars
  <2>2. \A c \in Callers : Adding(c) => proc'[c] = proc[c]
    BY DEF Aside, OtherCall, Adding
  <2> QED
    BY <2>1, <2>2, <1>1 DEF TopicsOK, TargetsOK
<1> QED
  BY <1>2, <1>3, <1>4 DEF TopicsOK

\* A refresh that settles, successfully only for topics no broker refuses,
\* keeps it too: addMultipleTargetTopics learns what became of its topic.
LEMMA SettlingKeeps ==
  ASSUME TopicsOK, JobsOK, NEW D, Processes(proc, D), NEW j \in Jobs, NEW e,
         proc' = Settle(j, e), UNCHANGED topicVars,
         e = "ok" => proc[j].topics \cap Bad = {}
  PROVE  TopicsOK'
<1>1. /\ proc'[j] = Idle
      /\ \A q \in Procs \ {j} : proc[q].pc # j => proc'[q] = proc[q]
      /\ \A q \in Procs \ {j} : proc[q].pc = j =>
           /\ SameCall(proc'[q], proc[q]) /\ proc'[q].then = proc[q].then
           /\ proc'[q].pc = "resumed" /\ proc'[q].got = e
  BY JobSettles
<1>2. Callers \subseteq Procs \ {j} /\ j # "lock" /\ j # "resumed"
  BY ClusterAssumption DEF Procs, Jobs
<1>3. \A c \in Callers : /\ SameCall(proc'[c], proc[c]) /\ proc'[c].then = proc[c].then
                         /\ proc'[c].pc = "lock" <=> proc[c].pc = "lock"
  BY <1>1, <1>2 DEF SameCall
<1>4. \A c \in Callers : Adding(c)' <=> Adding(c)
  BY <1>3 DEF Adding, SameCall
<1>5. LockOK'
  BY <1>3, <1>4 DEF TopicsOK, LockOK, topicVars, SameCall
<1>6. TargetsOK'
  BY <1>3, <1>4 DEF TopicsOK, TargetsOK, topicVars, SameCall
<1>7. ASSUME NEW c \in Callers, (proc[c].op = "add")'
      PROVE  AddOK(c)'
  <2>1. AddOK(c) /\ tainted' = tainted /\ proc[c].op = "add"
    BY <1>3, <1>7 DEF SameCall, TopicsOK, topicVars
  <2>2. CASE proc[c].pc = j
    <3>1. Adding(c) /\ j = "refreshMetadata"
      BY <2>1, <2>2, <1>2 DEF AddOK, Adding, Jobs
    <3>2. /\ proc[c].before \subseteq Topics /\ proc[c].before \cap Bad \subseteq tainted
          /\ proc[c].arg \in Topics /\ proc[c].then = "added"
          /\ proc[c].arg \in tainted \cup proc[j].topics
      BY <2>1, <2>2, <3>1 DEF AddOK
    <3>3. e = "ok" /\ proc[c].arg \in Bad => proc[c].arg \in tainted
      BY <3>2
    <3>4. /\ proc'[c].pc = "resumed" /\ proc'[c].got = e
          /\ SameCall(proc'[c], proc[c]) /\ proc'[c].then = proc[c].then
      BY <2>2, <1>1, <1>2
    <3> QED
      BY <2>1, <3>2, <3>3, <3>4 DEF AddOK, SameCall
  <2>3. CASE proc[c].pc # j
    <3>1. proc'[c] = proc[c]
      BY <2>3, <1>1, <1>2
    <3>2. proc[c].pc = "refreshMetadata" => j # "refreshMetadata"
      BY <2>3
    <3>3. proc[c].pc = "refreshMetadata" =>
             proc'["refreshMetadata"] = proc["refreshMetadata"]
      BY <3>2, <1>1 DEF Procs, Jobs, JobsOK, JobPcs
    <3> QED
      BY <2>1, <3>1, <3>3, <1>4 DEF AddOK
  <2> QED
    BY <2>2, <2>3
<1> QED
  BY <1>5, <1>6, <1>7 DEF TopicsOK

\* The jobs: no Broker gets connected while one of them goes to the seed.
LEMMA JobsKept ==
  ASSUME JobsOK,
         \A j \in Jobs : \/ proc'[j] = proc[j]
                         \/ proc'[j].pc \in {"idle", "find", "connecting", "seeding", "request"},
         ~Continuations \/ (HasConnectedBrokers' => HasConnectedBrokers)
  PROVE  JobsOK'
<1> SUFFICES ASSUME NEW j \in Jobs
             PROVE  /\ proc'[j].pc \in JobPcs
                    /\ proc'[j].pc = "seed" => ~HasConnectedBrokers'
                    /\ proc'[j].pc = "closing" => proc'[j].topics \cap Bad = {}
  BY DEF JobsOK
<1>1. j \in Procs
  BY DEF Procs
<1>2. CASE proc'[j] = proc[j]
  BY <1>1, <1>2 DEF JobsOK, Continuations
<1>3. CASE proc'[j].pc \in {"idle", "find", "connecting", "seeding", "request"}
  BY <1>3 DEF JobPcs
<1> QED
  BY <1>2, <1>3

\* Processes stay processes when Brokers are added.
LEMMA ProcessesGrow ==
  ASSUME NEW pr, NEW D, NEW E, D \subseteq E, Processes(pr, D)
  PROVE  Processes(pr, E)
BY DEF Processes, IsProcess

\* A caller that is not adding target topics moves on, alone or starting a
\* refresh that was idle.
MovesOn(c, new, D) ==
    /\ Processes(new, D)
    /\ OtherCall(new[c])
    /\ \A q \in Procs \ {c} :
          \/ new[q] = proc[q]
          \/ q \in Jobs /\ proc[q].pc = "idle" /\ new[q].pc = "find"

\* A step of a caller outside of addMultipleTargetTopics keeps the invariant if
\* it moves the caller on and leaves the pool in order.
LEMMA CallerStepInv ==
  ASSUME ClusterInv, NEW c \in Callers, OtherCall(proc[c]), UNCHANGED topicVars,
         PoolOK', MovesOn(c, proc', DOMAIN objs'),
         calls \subseteq calls', proc[c].pc # "idle" \/ c \in calls',
         ~Continuations \/ (HasConnectedBrokers' => HasConnectedBrokers)
  PROVE  ClusterInv'
<1>1. c \in Procs /\ c \notin Jobs /\ Jobs \subseteq Procs /\ Callers \cap Jobs = {}
      /\ "refreshMetadata" \in Jobs /\ Callers \subseteq Procs
  BY ClusterAssumption DEF Procs, Jobs
<1>2. ProcsOK'
  BY DEF ProcsOK, MovesOn
<1>3. JobsOK'
  BY <1>1, JobsKept DEF ClusterInv, MovesOn
<1>4. Aside
  <2>1. \A d \in Callers : proc'[d] = proc[d] \/ (OtherCall(proc[d]) /\ OtherCall(proc'[d]))
    BY <1>1 DEF MovesOn
  <2>2. proc["refreshMetadata"].pc # "idle" => proc'["refreshMetadata"] = proc["refreshMetadata"]
    BY <1>1 DEF MovesOn
  <2> QED
    BY <2>1, <2>2 DEF Aside
<1>5. TopicsOK'
  BY <1>4, AsideKeeps DEF ClusterInv
<1>6. CallsOK'
  BY <1>1 DEF ClusterInv, CallsOK, MovesOn
<1> QED
  BY <1>2, <1>3, <1>5, <1>6 DEF ClusterInv

\* A caller anywhere but in addMultipleTargetTopics.
LEMMA IsOtherCall ==
  ASSUME TopicsOK, NEW c \in Callers,
         \/ proc[c].pc \notin {"lock", "refreshMetadata", "resumed"}
         \/ proc[c].pc = "resumed" /\ proc[c].then # "added"
  PROVE  OtherCall(proc[c])
BY DEF TopicsOK, LockOK, AddOK, Adding, OtherCall

\* A caller moves on by itself, waits for a refresh, or has its await settled.
LEMMA AloneMovesOn ==
  ASSUME NEW D, NEW c \in Callers, NEW new, Processes(new, D), OtherCall(new[c]),
         \A q \in Procs \ {c} : new[q] = proc[q]
  PROVE  MovesOn(c, new, D)
BY DEF MovesOn

\* A caller that joins a shared promise moves on.
LEMMA AwaitMovesOn ==
  ASSUME NEW D, NEW c \in Callers, NEW pr, Processes(pr, D), pr[c].op # "add",
         \A q \in Procs \ {c} : pr[q] = proc[q], NEW j \in Jobs, NEW topics, NEW then,
         then # "added"
  PROVE  MovesOn(c, Await(pr, c, j, topics, then), D)
<1> DEFINE new == Await(pr, c, j, topics, then)
<1>1. j \in Procs \ {c} /\ j # "lock"
  BY ClusterAssumption DEF Procs, Jobs
<1>2. /\ Processes(new, D)
      /\ \A q \in Procs \ {c, j} : new[q] = pr[q]
      /\ SameCall(new[c], pr[c]) /\ new[c].then = then
      /\ \/ new[c].pc = "resumed" /\ new[j] = pr[j]
         \/ /\ new[c].pc = j
            /\ IF pr[j].pc # "idle" THEN new[j] = pr[j] ELSE new[j].pc = "find"
  BY AwaitOK
<1> QED
  BY <1>1, <1>2 DEF MovesOn, OtherCall, SameCall

\* So does one whose call settles.
LEMMA SettleMovesOn ==
  ASSUME NEW D, Processes(proc, D), NEW c \in Callers, OtherCall(proc[c]), NEW e
  PROVE  MovesOn(c, Settle(c, e), D)
BY CallerSettles DEF MovesOn, OtherCall

\* findBroker throws, or finds a Broker of the pool.
LEMMA ThrownMovesOn ==
  ASSUME NEW D, Processes(proc, D), NEW c \in Callers, OtherCall(proc[c]), NEW e
  PROVE  MovesOn(c, Thrown(c, e), D)
<1> DEFINE pr == [proc EXCEPT ![c].err = e]
<1>1. Processes(pr, D) /\ pr[c].op # "add" /\ \A q \in Procs \ {c} : pr[q] = proc[q]
  BY DEF Processes, IsProcess, Fields, Procs, OtherCall
<1>2. MovesOn(c, Await(pr, c, "refreshMetadata", targetTopics, "throw"), D)
  BY <1>1, AwaitMovesOn DEF Jobs
<1>3. MovesOn(c, Settle(c, e), D)
  BY SettleMovesOn
<1> QED
  BY <1>2, <1>3 DEF Thrown

\* So does one that looks for the broker of a node.
LEMMA LocateMovesOn ==
  ASSUME PoolOK, Processes(proc, DOMAIN objs), NEW c \in Callers, OtherCall(proc[c]),
         NEW n
  PROVE  MovesOn(c, Locate(c, n), DOMAIN objs)
<1> DEFINE mine == [proc EXCEPT ![c].goal = "use", ![c].arg = n, ![c].left = {},
                             ![c].o = brokers[n]]
<1>1. CASE n \notin Known
  BY <1>1, ThrownMovesOn DEF Locate
<1>2. CASE n \in Known
  <2>1. brokers[n] \in DOMAIN objs
    BY <1>2 DEF Known, PoolOK
  <2>2. Processes(mine, DOMAIN objs) /\ mine[c].op # "add" /\ mine[c].then # "added"
        /\ \A q \in Procs \ {c} : mine[q] = proc[q]
    BY <2>1 DEF Processes, IsProcess, Fields, Procs, OtherCall
  <2>3. ASSUME NEW pc \in {"use", "connecting"}
        PROVE  MovesOn(c, [mine EXCEPT ![c].pc = pc], DOMAIN objs)
    BY <2>2 DEF Processes, IsProcess, Fields, Procs, OtherCall, MovesOn
  <2> QED
    BY <1>2, <2>3 DEF Locate
<1> QED
  BY <1>1, <1>2
-----------------------------------------------------------------------------
(* What becomes of the Broker objects.                                     *)

\* Closing Brokers connects none.
LEMMA CloseOK ==
  ASSUME PoolOK, NEW S
  PROVE  /\ Close(S) \in Seq(BrokerObject) /\ Len(Close(S)) = Len(objs)
         /\ DOMAIN Close(S) = DOMAIN objs
         /\ \A o \in DOMAIN objs : Close(S)[o].connected => objs[o].connected
<1>1. objs \in Seq(BrokerObject) /\ DOMAIN objs = 1..Len(objs) /\ Len(objs) \in Nat
  BY DEF PoolOK
<1>2. \A o \in DOMAIN objs : objs[o] \in BrokerObject
  BY <1>1
<1>3. \A o \in DOMAIN objs : [objs[o] EXCEPT !.connected = FALSE] \in BrokerObject
  BY <1>2 DEF BrokerObject
<1>4. \A o \in DOMAIN objs : Close(S)[o] \in BrokerObject
  BY <1>2, <1>3 DEF Close
<1>5. Close(S) \in [1..Len(objs) -> BrokerObject]
  BY <1>1, <1>4 DEF Close
<1>6. \A o \in DOMAIN objs : Close(S)[o].connected => objs[o].connected
  BY <1>2 DEF Close, BrokerObject
<1> QED
  BY <1>1, <1>5, <1>6

\* A pool with other objects of the same number is one.
LEMMA SameBrokers ==
  ASSUME PoolOK, objs' \in Seq(BrokerObject), DOMAIN objs' = DOMAIN objs,
         UNCHANGED <<where, brokers, seedBroker, index>>
  PROVE  PoolOK'
BY DEF PoolOK

\* Nothing happened to the pool.
LEMMA PoolSame ==
  ASSUME PoolOK, UNCHANGED <<where, poolVars>>
  PROVE  PoolOK' /\ objs' = objs /\ (HasConnectedBrokers' <=> HasConnectedBrokers)
BY DEF PoolOK, poolVars, HasConnectedBrokers, Pooled, Known, IsConnected

\* If only Brokers were closed, no more are connected.
LEMMA ClosedPool ==
  ASSUME PoolOK, NEW S, objs' = Close(S), UNCHANGED <<brokers, seedBroker>>
  PROVE  HasConnectedBrokers' => HasConnectedBrokers
<1>1. \A o \in DOMAIN objs : objs'[o].connected => objs[o].connected
  BY CloseOK
<1>2. \A n \in Known : brokers[n] \in DOMAIN objs
  BY DEF Known, PoolOK
<1>3. seedBroker # None => seedBroker \in DOMAIN objs
  BY DEF PoolOK
<1> QED
  BY <1>1, <1>2, <1>3 DEF HasConnectedBrokers, Pooled, Known, IsConnected

\* A Broker that gets connected stays an object.
LEMMA ConnectOK ==
  ASSUME PoolOK, NEW o, NEW new,
         \/ new = [objs EXCEPT ![o].connected = TRUE]
         \/ new = [objs EXCEPT ![o].connected = TRUE, ![o].ready = TRUE]
  PROVE  new \in Seq(BrokerObject) /\ DOMAIN new = DOMAIN objs
<1>1. objs \in Seq(BrokerObject) /\ DOMAIN objs = 1..Len(objs) /\ Len(objs) \in Nat
  BY DEF PoolOK
<1>2. \A i \in DOMAIN objs : objs[i] \in BrokerObject
  BY <1>1
<1>3. DOMAIN new = DOMAIN objs
  OBVIOUS
<1>4. \A i \in DOMAIN objs : new[i] \in BrokerObject
  BY <1>2, <1>3 DEF BrokerObject
<1>5. new \in [1..Len(objs) -> BrokerObject]
  BY <1>1, <1>3, <1>4
<1> QED
  BY <1>1, <1>3, <1>5

\* createSeedBroker adds a Broker that is not connected.
LEMMA SeedOK ==
  ASSUME PoolOK, NEW p, CreateSeedBroker(p), UNCHANGED <<where, brokers>>
  PROVE  /\ PoolOK' /\ DOMAIN objs \subseteq DOMAIN objs' /\ seedBroker' \in DOMAIN objs'
         /\ seedBroker' # 0 /\ seedBroker' = Len(objs) + 1
         /\ HasConnectedBrokers' => HasConnectedBrokers
<1> DEFINE closed == Close({seedBroker})
           b == NewBroker(Seeds[index + 1], None)
<1>1. objs \in Seq(BrokerObject) /\ DOMAIN objs = 1..Len(objs) /\ Len(objs) \in Nat
  BY DEF PoolOK
<1>2. /\ closed \in Seq(BrokerObject) /\ Len(closed) = Len(objs)
      /\ \A o \in DOMAIN objs : closed[o].connected => objs[o].connected
  BY CloseOK
<1>3. Len(Seeds) \in Nat /\ Len(Seeds) > 0 /\ Seeds \in Seq(ToSet(Seeds))
  BY ClusterAssumption
<1>4. index \in 0..(Len(Seeds) - 1)
  BY DEF PoolOK
<1>5. b \in BrokerObject /\ ~b.connected
  <2>1. Seeds[index + 1] \in ToSet(Seeds)
    BY <1>3, <1>4
  <2> QED
    BY <2>1 DEF BrokerObject, Addrs, NewBroker
<1>6. /\ objs' \in Seq(BrokerObject) /\ Len(objs') = Len(objs) + 1
      /\ objs'[Len(objs) + 1] = b
      /\ \A o \in 1..Len(objs) : objs'[o] = closed[o]
  <2>1. objs' = Append(closed, b)
    BY DEF CreateSeedBroker
  <2> HIDE DEF closed, b
  <2> QED
    BY <2>1, <1>1, <1>2, <1>5, AppendProperties
<1>7. DOMAIN objs \subseteq DOMAIN objs' /\ Len(objs) + 1 \in DOMAIN objs'
      /\ seedBroker' = Len(objs) + 1
  BY <1>1, <1>6 DEF CreateSeedBroker
<1>8. index' \in 0..(Len(Seeds) - 1)
  <2>1. index' = (index + 1) % Len(Seeds)
    BY DEF CreateSeedBroker
  <2> QED
    BY <2>1, <1>3, <1>4
<1>9. PoolOK'
  BY <1>6, <1>7, <1>8 DEF PoolOK
<1>10. HasConnectedBrokers' => HasConnectedBrokers
  <2>1. \A n \in Known : brokers[n] \in 1..Len(objs)
    BY <1>1 DEF Known, PoolOK
  <2>2. ~objs'[seedBroker'].connected
    BY <1>5, <1>6, <1>7
  <2>3. \A o \in 1..Len(objs) : objs'[o].connected => objs[o].connected
    BY <1>1, <1>2, <1>6
  <2> QED
    BY <2>1, <2>2, <2>3 DEF HasConnectedBrokers, Pooled, Known, IsConnected
<1> QED
  BY <1>1, <1>7, <1>9, <1>10
-----------------------------------------------------------------------------
(* The actions of a caller                                                 *)

\* A caller moves on and the pool stays as it is.
LEMMA QuietCallerInv ==
  ASSUME ClusterInv, NEW c \in Callers, OtherCall(proc[c]),
         UNCHANGED <<where, poolVars, topicVars>>, MovesOn(c, proc', DOMAIN objs),
         calls \subseteq calls', proc[c].pc # "idle" \/ c \in calls'
  PROVE  ClusterInv'
<1>1. PoolOK' /\ objs' = objs /\ (HasConnectedBrokers' <=> HasConnectedBrokers)
  BY PoolSame DEF ClusterInv
<1> QED
  BY <1>1, CallerStepInv

\* The call of c begins.
LEMMA BeginsFacts ==
  ASSUME ClusterInv, NEW c \in Callers, Begins(c)
  PROVE  OtherCall(proc[c]) /\ calls \subseteq calls' /\ c \in calls' /\ proc[c].pc = "idle"
<1>1. proc[c].pc = "idle" /\ calls' = calls \cup {c}
  BY DEF Begins, ClusterInv, CallsOK
<1> QED
  BY <1>1, IsOtherCall DEF ClusterInv

\* A new call: a record like Idle at some other pc.
LEMMA FreshMovesOn ==
  ASSUME NEW D, Processes(proc, D), NEW c \in Callers, NEW r, IsProcess(r, D), OtherCall(r)
  PROVE  MovesOn(c, [proc EXCEPT ![c] = r], D)
BY DEF MovesOn, Processes, Procs

\* A call that sends to a node keeps the invariant.
LEMMA ProduceInv ==
  ASSUME ClusterInv, NEW c \in Callers, NEW n \in Nodes, Produce(c, n)
  PROVE  ClusterInv'
<1> DEFINE r == [Idle EXCEPT !.op = "produce", !.arg = n]
           pr == [proc EXCEPT ![c] = r]
<1>1. OtherCall(proc[c]) /\ calls \subseteq calls' /\ c \in calls'
  BY BeginsFacts DEF Produce
<1>2. IsProcess(r, DOMAIN objs) /\ r.op = "produce"
  BY DEF Idle, IsProcess, Fields
<1>3. Processes(pr, DOMAIN objs) /\ pr[c].op # "add" /\ \A q \in Procs \ {c} : pr[q] = proc[q]
  BY <1>2 DEF ClusterInv, ProcsOK, Processes, Procs
<1>4. MovesOn(c, Await(pr, c, "refreshMetadataIfNecessary", targetTopics, "locate"), DOMAIN objs)
  BY <1>3, AwaitMovesOn DEF Jobs
<1> QED
  BY <1>1, <1>4, QuietCallerInv DEF Produce

\* findGroupCoordinator, connect and disconnect begin.
LEMMA OtherCallBegins ==
  ASSUME ClusterInv, NEW c \in Callers,
         FindGroupCoordinator(c) \/ Connect(c) \/ Disconnect(c)
  PROVE  ClusterInv'
<1>1. Begins(c) /\ UNCHANGED <<where, poolVars, topicVars>>
  BY DEF FindGroupCoordinator, Connect, Disconnect
<1>2. OtherCall(proc[c]) /\ calls \subseteq calls' /\ c \in calls'
  BY <1>1, BeginsFacts
<1> DEFINE Starts(r) == /\ proc' = [proc EXCEPT ![c] = r]
                        /\ IsProcess(r, DOMAIN objs) /\ OtherCall(r)
<1>3. PICK r : Starts(r)
  <2>1. CASE FindGroupCoordinator(c)
    <3>1. Starts([Idle EXCEPT !.op = "coordinator", !.pc = "with", !.left = Known,
                              !.then = "throw"])
      BY <2>1 DEF FindGroupCoordinator, Idle, IsProcess, Fields, OtherCall
    <3> QED
      BY <3>1
  <2>2. CASE Connect(c)
    <3>1. Starts([Idle EXCEPT !.op = "connect", !.pc = "seed"])
      BY <2>2 DEF Connect, Idle, IsProcess, Fields, OtherCall
    <3> QED
      BY <3>1
  <2>3. CASE Disconnect(c)
    <3>1. Starts([Idle EXCEPT !.op = "disconnect", !.pc = "closeSeed"])
      BY <2>3 DEF Disconnect, Idle, IsProcess, Fields, OtherCall
    <3> QED
      BY <3>1
  <2> QED
    BY <2>1, <2>2, <2>3
<1>4. MovesOn(c, proc', DOMAIN objs)
  BY <1>3, FreshMovesOn DEF ClusterInv, ProcsOK
<1> QED
  BY <1>1, <1>2, <1>4, QuietCallerInv

\* After an await that is over, or in withBroker.
LEMMA RefreshedInv ==
  ASSUME ClusterInv, NEW c \in Callers, Refreshed(c)
  PROVE  ClusterInv'
<1>1. OtherCall(proc[c]) /\ proc[c].pc # "idle"
  BY IsOtherCall DEF ClusterInv, Refreshed
<1>2. MovesOn(c, Locate(c, proc[c].arg), DOMAIN objs)
  BY <1>1, LocateMovesOn DEF ClusterInv, ProcsOK
<1>3. MovesOn(c, [proc EXCEPT ![c].then = "end"], DOMAIN objs)
  BY <1>1 DEF MovesOn, OtherCall, ClusterInv, ProcsOK, Processes, IsProcess, Fields, Procs
<1> QED
  BY <1>1, <1>2, <1>3, QuietCallerInv DEF Refreshed

\* A caller that is connected again and refreshes the metadata keeps it.
LEMMA ReconnectedInv ==
  ASSUME ClusterInv, NEW c \in Callers, Reconnected(c)
  PROVE  ClusterInv'
<1>1. OtherCall(proc[c]) /\ proc[c].pc # "idle"
  BY IsOtherCall DEF ClusterInv, Reconnected
<1>2. MovesOn(c, Await(proc, c, "refreshMetadata", targetTopics, "end"), DOMAIN objs)
  BY <1>1, AwaitMovesOn DEF ClusterInv, ProcsOK, OtherCall, Jobs
<1>3. MovesOn(c, [proc EXCEPT ![c].then = "end"], DOMAIN objs)
  BY <1>1 DEF MovesOn, OtherCall, ClusterInv, ProcsOK, Processes, IsProcess, Fields, Procs
<1> QED
  BY <1>1, <1>2, <1>3, QuietCallerInv DEF Reconnected

\* A caller that has its broker keeps it.
LEMMA WithBrokerInv ==
  ASSUME ClusterInv, NEW c \in Callers, WithBroker(c)
  PROVE  ClusterInv'
<1>1. OtherCall(proc[c]) /\ proc[c].pc # "idle" /\ Processes(proc, DOMAIN objs)
  BY IsOtherCall DEF ClusterInv, ProcsOK, WithBroker
<1>2. \A e : MovesOn(c, Settle(c, e), DOMAIN objs)
  BY <1>1, SettleMovesOn
<1>3. ASSUME NEW n \in Known, NEW left, NEW pc \in {"ask", "connecting"}
      PROVE  MovesOn(c, [proc EXCEPT ![c].goal = "ask", ![c].left = left,
                                     ![c].o = brokers[n], ![c].pc = pc], DOMAIN objs)
  <2>1. brokers[n] \in DOMAIN objs
    BY DEF ClusterInv, PoolOK, Known
  <2> QED
    BY <1>1, <2>1 DEF MovesOn, OtherCall, Processes, IsProcess, Fields, Procs
<1>4. MovesOn(c, proc', DOMAIN objs)
  <2>1. CASE proc[c].left = {}
    BY <2>1, <1>2 DEF WithBroker
  <2>2. CASE proc[c].left # {}
    <3> DEFINE mine(n) == [proc EXCEPT ![c].goal = "ask", ![c].left = @ \ {n},
                                       ![c].o = brokers[n]]
    <3>1. PICK n \in proc[c].left :
             proc' = IF n \notin Known THEN Settle(c, "BrokerNotFound")
                     ELSE [mine(n) EXCEPT ![c].pc = IF IsConnected(brokers[n])
                                                    THEN "ask" ELSE "connecting"]
      BY <2>2 DEF WithBroker
    <3>2. CASE n \notin Known
      BY <3>1, <3>2, <1>2
    <3>3. CASE n \in Known
      <4>1. MovesOn(c, [mine(n) EXCEPT ![c].pc = "ask"], DOMAIN objs)
        BY <1>3, <3>3
      <4>2. MovesOn(c, [mine(n) EXCEPT ![c].pc = "connecting"], DOMAIN objs)
        BY <1>3, <3>3
      <4> QED
        BY <4>1, <4>2, <3>1, <3>3
    <3> QED
      BY <3>2, <3>3
  <2> QED
    BY <2>1, <2>2
<1> QED
  BY <1>1, <1>4, QuietCallerInv DEF WithBroker

\* The catch blocks of the retried calls keep it.
LEMMA CaughtInv ==
  ASSUME ClusterInv, NEW c \in Callers, Caught(c)
  PROVE  ClusterInv'
<1> DEFINE retry == [proc EXCEPT ![c].rounds = @ + 1, ![c].err = "ok"]
<1>1. OtherCall(proc[c]) /\ proc[c].pc # "idle" /\ Processes(proc, DOMAIN objs)
  BY IsOtherCall DEF ClusterInv, ProcsOK, Caught
<1>2. Processes(retry, DOMAIN objs) /\ OtherCall(retry[c])
      /\ \A q \in Procs \ {c} : retry[q] = proc[q]
  BY <1>1 DEF OtherCall, Processes, IsProcess, Fields, Procs
<1>3. MovesOn(c, Await(retry, c, "refreshMetadata", targetTopics, "again"), DOMAIN objs)
  BY <1>2, AwaitMovesOn DEF OtherCall, Jobs
<1>4. MovesOn(c, [retry EXCEPT ![c].then = "again"], DOMAIN objs)
  BY <1>2 DEF MovesOn, OtherCall, Processes, IsProcess, Fields, Procs
<1>5. MovesOn(c, [proc EXCEPT ![c].then = "end"], DOMAIN objs)
  BY <1>1 DEF MovesOn, OtherCall, Processes, IsProcess, Fields, Procs
<1>6. MovesOn(c, proc', DOMAIN objs)
  BY <1>3, <1>4, <1>5 DEF Caught
<1> QED
  BY <1>1, <1>6, QuietCallerInv DEF Caught

\* The next round of a call, and its end, keep it.
LEMMA RoundInv ==
  ASSUME ClusterInv, NEW c \in Callers, Again(c) \/ CoordinatorUnknown(c) \/ End(c)
  PROVE  ClusterInv'
<1>1. OtherCall(proc[c]) /\ proc[c].pc # "idle" /\ Processes(proc, DOMAIN objs)
  BY IsOtherCall DEF ClusterInv, ProcsOK, Again, CoordinatorUnknown, End
<1>2. MovesOn(c, [proc EXCEPT ![c].then = "end"], DOMAIN objs)
  BY <1>1 DEF MovesOn, OtherCall, Processes, IsProcess, Fields, Procs
<1>3. MovesOn(c, [proc EXCEPT ![c].pc = "with", ![c].left = Known, ![c].then = "throw"],
              DOMAIN objs)
  BY <1>1 DEF MovesOn, OtherCall, Processes, IsProcess, Fields, Procs
<1>4. MovesOn(c, [proc EXCEPT ![c].pc = "with"], DOMAIN objs)
  BY <1>1 DEF MovesOn, OtherCall, Processes, IsProcess, Fields, Procs
<1>5. MovesOn(c, [proc EXCEPT ![c] = Idle], DOMAIN objs)
  BY <1>1, IdleOK, FreshMovesOn, ClusterAssumption DEF OtherCall
<1>6. MovesOn(c, proc', DOMAIN objs)
  BY <1>2, <1>3, <1>4, <1>5 DEF Again, CoordinatorUnknown, End
<1> QED
  BY <1>1, <1>6, QuietCallerInv DEF Again, CoordinatorUnknown, End

\* A request that is answered has its Broker connected.
LEMMA AnsweredInv ==
  ASSUME ClusterInv, NEW c \in Callers,
         Answered(c) \/ \E n \in Nodes : CoordinatorFound(c, n)
  PROVE  ClusterInv'
<1>1. OtherCall(proc[c]) /\ proc[c].pc # "idle" /\ Processes(proc, DOMAIN objs) /\ PoolOK
      /\ ~Continuations
  BY IsOtherCall DEF ClusterInv, ProcsOK, Answered, CoordinatorFound
<1>2. /\ objs' = [objs EXCEPT ![proc[c].o].connected = TRUE]
      /\ UNCHANGED <<where, brokers, seedBroker, index, topicVars, calls>>
  BY DEF Answered, CoordinatorFound
<1>3. objs' \in Seq(BrokerObject) /\ DOMAIN objs' = DOMAIN objs
  BY <1>1, <1>2, ConnectOK
<1>4. PoolOK'
  BY <1>1, <1>2, <1>3, SameBrokers
<1>5. MovesOn(c, [proc EXCEPT ![c] = Idle], DOMAIN objs)
  BY <1>1, IdleOK, FreshMovesOn, ClusterAssumption DEF OtherCall
<1>6. \A n : MovesOn(c, Locate(c, n), DOMAIN objs)
  BY <1>1, LocateMovesOn
<1>7. MovesOn(c, proc', DOMAIN objs')
  BY <1>3, <1>5, <1>6 DEF Answered, CoordinatorFound
<1> QED
  BY <1>1, <1>2, <1>4, <1>7, CallerStepInv

\* removeBroker leaves a pool of Brokers that exist.
LEMMA RemoveOK ==
  ASSUME PoolOK, NEW a, RemoveBroker(a)
  PROVE  /\ brokers' \in [Nodes -> DOMAIN objs \cup {None}]
         /\ seedBroker' \in DOMAIN objs \cup {None}
<1>1. brokers \in [Nodes -> DOMAIN objs \cup {None}] /\ seedBroker \in DOMAIN objs \cup {None}
  BY DEF PoolOK
<1>2. CASE At(a) = {}
  BY <1>1, <1>2 DEF RemoveBroker
<1>3. CASE At(a) # {}
  <2>1. PICK n \in At(a) :
           LET id == objs[brokers[n]].node
               left == {brokers[m] : m \in Known \ {id}}
           IN /\ brokers' = [brokers EXCEPT ![id] = None]
              /\ \/ seedBroker' \in left \cup {None}
                 \/ seedBroker' = seedBroker
    BY <1>3 DEF RemoveBroker
  <2>2. \A m \in Known : brokers[m] \in DOMAIN objs
    BY <1>1 DEF Known
  <2> QED
    BY <1>1, <2>1, <2>2
<1> QED
  BY <1>2, <1>3

\* A request that fails with its connection keeps it, the removal of the broker
\* from the pool included.
LEMMA RequestFailsInv ==
  ASSUME ClusterInv, NEW c \in Callers, RequestFails(c)
  PROVE  ClusterInv'
<1>1. OtherCall(proc[c]) /\ proc[c].pc # "idle" /\ Processes(proc, DOMAIN objs) /\ PoolOK
      /\ ~Continuations
  BY IsOtherCall DEF ClusterInv, ProcsOK, RequestFails
<1>2. objs' = Close({proc[c].o}) /\ UNCHANGED <<where, index, topicVars, calls>>
  BY DEF RequestFails
<1>3. objs' \in Seq(BrokerObject) /\ DOMAIN objs' = DOMAIN objs
  BY <1>1, <1>2, CloseOK
<1>4. /\ brokers' \in [Nodes -> DOMAIN objs \cup {None}]
      /\ seedBroker' \in DOMAIN objs \cup {None}
  <2>1. CASE proc[c].op = "produce"
    BY <2>1, <1>1, RemoveOK DEF RequestFails
  <2>2. CASE proc[c].op # "produce"
    BY <2>2, <1>1 DEF RequestFails, PoolOK
  <2> QED
    BY <2>1, <2>2
<1>5. PoolOK'
  BY <1>1, <1>2, <1>3, <1>4 DEF PoolOK
<1>6. MovesOn(c, proc', DOMAIN objs)
  <2>1. MovesOn(c, [proc EXCEPT ![c].pc = "resumed", ![c].then = "end"], DOMAIN objs)
    BY <1>1 DEF MovesOn, OtherCall, Processes, IsProcess, Fields, Procs
  <2>2. MovesOn(c, [proc EXCEPT ![c].pc = "seed", ![c].then = "reconnected"], DOMAIN objs)
    BY <1>1 DEF MovesOn, OtherCall, Processes, IsProcess, Fields, Procs
  <2>3. MovesOn(c, Await(proc, c, "refreshMetadata", targetTopics, "end"), DOMAIN objs)
    BY <1>1, AwaitMovesOn DEF OtherCall, Jobs
  <2>4. MovesOn(c, Settle(c, "ConnectionClosed"), DOMAIN objs)
    BY <1>1, SettleMovesOn
  <2> QED
    BY <2>1, <2>2, <2>3, <2>4 DEF RequestFails
<1> QED
  BY <1>1, <1>2, <1>3, <1>5, <1>6, CallerStepInv

\* disconnect() closes the seed, then the pool.
LEMMA DisconnectInv ==
  ASSUME ClusterInv, NEW c \in Callers, SeedClosed(c) \/ Disconnected(c)
  PROVE  ClusterInv'
<1>1. OtherCall(proc[c]) /\ proc[c].pc # "idle" /\ Processes(proc, DOMAIN objs) /\ PoolOK
      /\ ~Continuations
  BY IsOtherCall DEF ClusterInv, ProcsOK, SeedClosed, Disconnected
<1>2. PICK S : objs' = Close(S)
  BY DEF SeedClosed, Disconnected
<1>3. objs' \in Seq(BrokerObject) /\ DOMAIN objs' = DOMAIN objs
  BY <1>1, <1>2, CloseOK
<1>4. UNCHANGED <<where, seedBroker, index, topicVars, calls>>
  BY DEF SeedClosed, Disconnected
<1>5. brokers' = brokers \/ brokers' = [n \in Nodes |-> None]
  BY DEF SeedClosed, Disconnected
<1>6. PoolOK'
  BY <1>1, <1>3, <1>4, <1>5 DEF PoolOK
<1>7. MovesOn(c, [proc EXCEPT ![c] = Idle], DOMAIN objs)
  BY <1>1, IdleOK, FreshMovesOn, ClusterAssumption DEF OtherCall
<1>8. MovesOn(c, [proc EXCEPT ![c].pc = "closeAll", ![c].closing = Pooled], DOMAIN objs)
  BY <1>1 DEF MovesOn, OtherCall, Processes, IsProcess, Fields, Procs
<1>9. MovesOn(c, proc', DOMAIN objs)
  BY <1>7, <1>8 DEF SeedClosed, Disconnected
<1> QED
  BY <1>1, <1>3, <1>4, <1>6, <1>9, CallerStepInv

-----------------------------------------------------------------------------
(* The actions that add target topics                                      *)

\* A caller that queues for the lock of the target topics keeps it.
LEMMA AddTargetTopicInv ==
  ASSUME ClusterInv, NEW c \in Callers, NEW t \in Topics, AddTargetTopic(c, t)
  PROVE  ClusterInv'
<1> DEFINE r == [Idle EXCEPT !.op = "add", !.pc = "lock", !.arg = t]
<1>1. OtherCall(proc[c]) /\ calls \subseteq calls' /\ c \in calls'
  BY BeginsFacts DEF AddTargetTopic
<1>2. /\ IsProcess(r, DOMAIN objs) /\ r.op = "add" /\ r.pc = "lock" /\ r.arg = t
  BY DEF Idle, IsProcess, Fields
<1>3. proc' = [proc EXCEPT ![c] = r] /\ topicsLock' = Append(topicsLock, c)
      /\ UNCHANGED <<where, poolVars, targetTopics, tainted>>
  BY DEF AddTargetTopic
<1>4. PoolOK' /\ objs' = objs /\ (HasConnectedBrokers' <=> HasConnectedBrokers)
  BY <1>3, PoolSame DEF ClusterInv
<1>5. proc'[c] = r /\ \A q \in Procs \ {c} : proc'[q] = proc[q]
  BY <1>3 DEF ClusterInv, ProcsOK, Processes, Procs
<1> HIDE DEF r
<1>6. ProcsOK'
  BY <1>2, <1>3, <1>4, <1>5 DEF ClusterInv, ProcsOK, Processes, Procs
<1>7. c \notin Jobs /\ Callers \subseteq Procs /\ Jobs \subseteq Procs
      /\ "refreshMetadata" \in Procs \ {c}
  BY ClusterAssumption DEF Procs, Jobs
<1>8. JobsOK'
  BY <1>4, <1>5, <1>7, JobsKept DEF ClusterInv
<1>9. CallsOK'
  BY <1>1, <1>5, <1>7 DEF ClusterInv, CallsOK
<1>10. \A d \in Callers : Adding(d)' <=> Adding(d)
  BY <1>1, <1>2, <1>5, <1>7 DEF Adding, OtherCall
<1>11. LockOK'
  <2>1. topicsLock \in Seq(Callers) /\ Len(topicsLock) \in Nat
    BY DEF ClusterInv, TopicsOK, LockOK
  <2>2. /\ topicsLock' \in Seq(Callers) /\ Len(topicsLock') = Len(topicsLock) + 1
        /\ \A i \in 1..Len(topicsLock) : topicsLock'[i] = topicsLock[i]
        /\ topicsLock'[Len(topicsLock) + 1] = c
    BY <2>1, <1>3, AppendProperties
  <2>3. \A i \in 1..Len(topicsLock) : topicsLock[i] # c
    BY <1>1 DEF ClusterInv, TopicsOK, LockOK, OtherCall
  <2>4. \A i, k \in 1..Len(topicsLock') : i # k => topicsLock'[i] # topicsLock'[k]
    BY <2>1, <2>2, <2>3 DEF ClusterInv, TopicsOK, LockOK
  <2>5. \A d \in Callers :
          proc'[d].op = "add" <=> \E i \in 1..Len(topicsLock') : topicsLock'[i] = d
    <3> SUFFICES ASSUME NEW d \in Callers
                 PROVE  proc'[d].op = "add" <=> \E i \in 1..Len(topicsLock') : topicsLock'[i] = d
      OBVIOUS
    <3>1. CASE d = c
      BY <3>1, <2>1, <2>2, <1>2, <1>5
    <3>2. CASE d # c
      <4>1. proc'[d] = proc[d]
        BY <3>2, <1>5, <1>7
      <4> QED
        BY <4>1, <3>2, <2>1, <2>2 DEF ClusterInv, TopicsOK, LockOK
    <3> QED
      BY <3>1, <3>2
  <2>6. \A d \in Callers : (proc[d].pc = "lock" \/ proc[d].then = "added" => proc[d].op = "add")'
    BY <1>2, <1>5, <1>7 DEF ClusterInv, TopicsOK, LockOK
  <2>7. \A d \in Callers : Adding(d)' => topicsLock'[1] = d
    <3> SUFFICES ASSUME NEW d \in Callers, Adding(d)
                 PROVE  topicsLock'[1] = d
      BY <1>10
    <3>1. topicsLock[1] = d /\ \E i \in 1..Len(topicsLock) : topicsLock[i] = d
      BY DEF ClusterInv, TopicsOK, LockOK, Adding
    <3> QED
      BY <3>1, <2>1, <2>2
  <2> QED
    BY <2>2, <2>4, <2>5, <2>6, <2>7 DEF LockOK
<1>12. ASSUME NEW d \in Callers, (proc[d].op = "add")'
       PROVE  AddOK(d)'
  <2>1. CASE d = c
    BY <2>1, <1>2, <1>5 DEF AddOK, Adding
  <2>2. CASE d # c
    <3>1. proc'[d] = proc[d] /\ AddOK(d)
      BY <2>2, <1>5, <1>7, <1>12 DEF ClusterInv, TopicsOK
    <3> QED
      BY <3>1, <1>3, <1>5, <1>7, <1>10 DEF AddOK
  <2> QED
    BY <2>1, <2>2
<1>13. TargetsOK'
  <2>1. \A d \in Callers : Adding(d) => proc'[d] = proc[d]
    BY <1>1, <1>5, <1>7 DEF Adding, OtherCall
  <2> QED
    BY <2>1, <1>3, <1>10 DEF ClusterInv, TopicsOK, TargetsOK
<1> QED
  BY <1>4, <1>6, <1>8, <1>9, <1>11, <1>12, <1>13 DEF ClusterInv, TopicsOK

\* The lock is taken: nobody else is adding, so no refused topic is a target
\* but for the tainted ones.
LEMMA LockedInv ==
  ASSUME ClusterInv, NEW c \in Callers, TargetTopicsLocked(c)
  PROVE  ClusterInv'
<1> DEFINE t == proc[c].arg
           mine == [proc EXCEPT ![c].before = targetTopics, ![c].then = "added"]
           rm == "refreshMetadata"
<1>1. /\ proc[c].pc = "lock" /\ proc[c].op = "add" /\ t \in Topics
      /\ Processes(proc, DOMAIN objs) /\ PoolOK
  BY DEF TargetTopicsLocked, ClusterInv, ProcsOK, TopicsOK, LockOK, AddOK
<1>2. topicsLock \in Seq(Callers) /\ Len(topicsLock) \in Nat /\ topicsLock[1] = c
  <2>1. topicsLock \in Seq(Callers) /\ \E i \in 1..Len(topicsLock) : topicsLock[i] = c
    BY <1>1 DEF ClusterInv, TopicsOK, LockOK
  <2>2. topicsLock # <<>>
    BY <2>1
  <2> QED
    BY <2>1, <2>2 DEF TargetTopicsLocked
<1>3. \A d \in Callers : ~Adding(d)
  BY <1>1, <1>2 DEF ClusterInv, TopicsOK, LockOK, Adding
<1>4. targetTopics \subseteq Topics /\ targetTopics \cap Bad \subseteq tainted
  BY <1>3 DEF ClusterInv, TopicsOK, TargetsOK
<1>5. /\ UNCHANGED <<where, poolVars, topicsLock, calls>>
      /\ targetTopics' = targetTopics \cup {t}
      /\ tainted' = IF proc[rm].pc # "idle" THEN tainted \cup {t} ELSE tainted
      /\ proc' = IF t \notin targetTopics \/ metadata = None
                 THEN Await(mine, c, rm, targetTopics', "added")
                 ELSE Resume(mine, c, "ok")
  BY DEF TargetTopicsLocked
<1>6. Processes(mine, DOMAIN objs) /\ mine[c].op = "add" /\ mine[c].arg = t
      /\ mine[c].before = targetTopics /\ mine[c].then = "added"
      /\ \A q \in Procs \ {c} : mine[q] = proc[q]
  BY <1>1 DEF Processes, IsProcess, Fields, Procs
<1>7. c \in Procs /\ c \notin Jobs /\ rm \in Jobs /\ rm \in Procs /\ Callers \subseteq Procs
      /\ Jobs \subseteq Procs /\ Callers \cap Jobs = {}
  BY ClusterAssumption DEF Procs, Jobs
<1> HIDE DEF mine
<1>8. /\ Processes(proc', DOMAIN objs)
      /\ \A q \in Procs \ {c, rm} : proc'[q] = proc[q]
      /\ SameCall(proc'[c], mine[c]) /\ proc'[c].then = "added"
      /\ \/ /\ proc'[c].pc = "resumed" /\ proc'[rm] = proc[rm] /\ t \in targetTopics
         \/ /\ proc'[c].pc = rm
            /\ IF proc[rm].pc # "idle" THEN proc'[rm] = proc[rm]
               ELSE proc'[rm].pc = "find" /\ proc'[rm].topics = targetTopics'
  <2>1. CASE t \notin targetTopics \/ metadata = None
    <3>1. proc' = Await(mine, c, rm, targetTopics', "added")
      BY <2>1, <1>5
    <3>2. /\ Processes(proc', DOMAIN objs)
          /\ \A q \in Procs \ {c, rm} : proc'[q] = mine[q]
          /\ SameCall(proc'[c], mine[c]) /\ proc'[c].then = "added"
          /\ proc'[c].pc = rm
          /\ IF mine[rm].pc # "idle" THEN proc'[rm] = mine[rm]
             ELSE proc'[rm].pc = "find" /\ proc'[rm].topics = targetTopics'
      BY <3>1, <1>6, <1>7, AwaitOK
    <3> QED
      BY <3>2, <1>6, <1>7
  <2>2. CASE ~(t \notin targetTopics \/ metadata = None)
    <3>1. proc' = Resume(mine, c, "ok")
      BY <2>2, <1>5
    <3>2. /\ Processes(proc', DOMAIN objs)
          /\ \A q \in Procs \ {c} : proc'[q] = mine[q]
          /\ SameCall(proc'[c], mine[c]) /\ proc'[c].then = mine[c].then
          /\ proc'[c].pc = "resumed"
      BY <3>1, <1>6, <1>7 DEF Resume, Processes, IsProcess, Fields, SameCall
    <3> QED
      BY <3>2, <2>2, <1>6, <1>7
  <2> QED
    BY <2>1, <2>2
<1>9. /\ proc'[c].op = "add" /\ proc'[c].arg = t /\ proc'[c].before = targetTopics
      /\ proc'[c].pc # "lock"
      /\ \A d \in Callers \ {c} : proc'[d] = proc[d]
  BY <1>6, <1>7, <1>8 DEF SameCall
<1>10. PoolOK' /\ objs' = objs /\ (HasConnectedBrokers' <=> HasConnectedBrokers)
  BY <1>1, <1>5, PoolSame
<1>11. ProcsOK'
  BY <1>8, <1>10 DEF ProcsOK
<1>12. JobsOK'
  BY <1>7, <1>8, <1>10, JobsKept DEF ClusterInv
<1>13. CallsOK'
  BY <1>1, <1>5, <1>9 DEF ClusterInv, CallsOK
<1>14. \A d \in Callers : Adding(d)' <=> d = c
  BY <1>3, <1>9 DEF Adding
<1>15. LockOK'
  <2>1. \A d \in Callers : proc'[d].op = "add" <=> proc[d].op = "add"
    BY <1>1, <1>9
  <2>2. \A d \in Callers : (proc[d].pc = "lock" \/ proc[d].then = "added" => proc[d].op = "add")'
    BY <1>9 DEF ClusterInv, TopicsOK, LockOK
  <2> QED
    BY <2>1, <2>2, <1>2, <1>5, <1>14 DEF ClusterInv, TopicsOK, LockOK
<1>16. ASSUME NEW d \in Callers, (proc[d].op = "add")'
       PROVE  AddOK(d)'
  <2>1. CASE d = c
    <3>1. proc'[c].before \subseteq Topics /\ proc'[c].before \cap Bad \subseteq tainted'
      BY <1>4, <1>5, <1>9
    <3>2. proc'[c].pc \in {"refreshMetadata", "resumed"}
      BY <1>8
    <3>3. proc'[c].pc = "refreshMetadata" =>
            /\ proc'["refreshMetadata"].pc # "idle"
            /\ t \in tainted' \cup proc'["refreshMetadata"].topics
      BY <1>5, <1>8
    <3>4. proc'[c].pc = "resumed" /\ t \in Bad => t \in tainted'
      BY <1>4, <1>5, <1>8
    <3> QED
      BY <2>1, <3>1, <3>2, <3>3, <3>4, <1>1, <1>8, <1>9 DEF AddOK
  <2>2. CASE d # c
    BY <2>2, <1>9, <1>14, <1>16 DEF AddOK, ClusterInv, TopicsOK
  <2> QED
    BY <2>1, <2>2
<1>17. TargetsOK'
  BY <1>1, <1>4, <1>5, <1>9, <1>14 DEF TargetsOK
<1> QED
  BY <1>10, <1>11, <1>12, <1>13, <1>15, <1>16, <1>17 DEF ClusterInv, TopicsOK

\* One caller leaves addMultipleTargetTopics: what is left to show is that the
\* queue of the lock and the target topics are right without it.
LEMMA LeavesInv ==
  ASSUME ClusterInv, NEW c \in Callers, proc[c].op = "add",
         UNCHANGED <<where, poolVars, calls>>, proc' = [proc EXCEPT ![c] = Idle],
         tainted \subseteq tainted',
         topicsLock' \in Seq(Callers),
         \A i, k \in 1..Len(topicsLock') : i # k => topicsLock'[i] # topicsLock'[k],
         \A d \in Callers : (\E i \in 1..Len(topicsLock') : topicsLock'[i] = d)
                            <=> d # c /\ proc[d].op = "add",
         \A d \in Callers \ {c} : Adding(d) => topicsLock'[1] = d,
         targetTopics' \subseteq Topics,
         \A t \in targetTopics' \cap Bad :
            t \in tainted' \/ \E d \in Callers \ {c} : Adding(d) /\ proc[d].arg = t
  PROVE  ClusterInv'
<1>1. c \in Procs /\ c \notin Jobs /\ Callers \subseteq Procs /\ Jobs \subseteq Procs
      /\ "refreshMetadata" \in Procs \ {c}
  BY ClusterAssumption DEF Procs, Jobs
<1>2. proc'[c] = Idle /\ \A q \in Procs \ {c} : proc'[q] = proc[q]
  BY <1>1 DEF ClusterInv, ProcsOK, Processes
<1>3. PoolOK' /\ objs' = objs /\ (HasConnectedBrokers' <=> HasConnectedBrokers)
  BY PoolSame DEF ClusterInv
<1>4. ProcsOK'
  BY <1>1, <1>2, <1>3, IdleOK DEF ClusterInv, ProcsOK, Processes
<1>5. JobsOK'
  BY <1>1, <1>2, <1>3, JobsKept DEF ClusterInv
<1>6. CallsOK'
  BY <1>1, <1>2, IdleOK DEF ClusterInv, CallsOK
<1>7. /\ proc'[c].op # "add" /\ proc'[c].pc = "idle" /\ proc'[c].then = "end"
      /\ \A d \in Callers \ {c} : proc'[d] = proc[d]
  BY <1>1, <1>2, IdleOK, ClusterAssumption
<1>8. \A d \in Callers : Adding(d)' <=> d # c /\ Adding(d)
  BY <1>7 DEF Adding
<1>9. LockOK'
  <2>1. \A d \in Callers :
          proc'[d].op = "add" <=> \E i \in 1..Len(topicsLock') : topicsLock'[i] = d
    BY <1>7
  <2>2. \A d \in Callers : (proc[d].pc = "lock" \/ proc[d].then = "added" => proc[d].op = "add")'
    BY <1>7 DEF ClusterInv, TopicsOK, LockOK
  <2>3. \A d \in Callers : Adding(d)' => topicsLock'[1] = d
    BY <1>8
  <2> QED
    BY <2>1, <2>2, <2>3 DEF LockOK
<1>10. ASSUME NEW d \in Callers, (proc[d].op = "add")'
       PROVE  AddOK(d)'
  <2>1. d # c /\ proc'[d] = proc[d] /\ AddOK(d)
    BY <1>7, <1>10 DEF ClusterInv, TopicsOK
  <2> QED
    BY <2>1, <1>2, <1>1, <1>8 DEF AddOK
<1>11. TargetsOK'
  BY <1>7, <1>8 DEF TargetsOK
<1> QED
  BY <1>3, <1>4, <1>5, <1>6, <1>9, <1>10, <1>11 DEF ClusterInv, TopicsOK

\* What RemoveAt leaves of a sequence.
LEMMA RemoveAtOK ==
  ASSUME NEW S, NEW s \in Seq(S), NEW i \in 1..Len(s)
  PROVE  /\ RemoveAt(s, i) \in Seq(S) /\ Len(RemoveAt(s, i)) = Len(s) - 1
         /\ \A k \in 1..(Len(s) - 1) : RemoveAt(s, i)[k] = IF k < i THEN s[k] ELSE s[k + 1]
<1> DEFINE a == SubSeq(s, 1, i - 1)
           b == SubSeq(s, i + 1, Len(s))
<1>1. Len(s) \in Nat /\ DOMAIN s = 1..Len(s)
  OBVIOUS
<1>2. /\ a \in Seq(S) /\ Len(a) = i - 1 /\ \A k \in 1..(i - 1) : a[k] = s[k]
  BY <1>1, SubSeqProperties
<1>3. /\ b \in Seq(S) /\ Len(b) = Len(s) - i /\ \A k \in 1..(Len(s) - i) : b[k] = s[i + k]
  <2>1. PICK m \in Int : m = i + 1
    OBVIOUS
  <2>2. PICK n : n = Len(s) /\ n \in Int
    BY <1>1
  <2>3. \A k \in m..n : s[k] \in S
    BY <1>1, <2>1, <2>2
  <2>4. /\ SubSeq(s, m, n) \in Seq(S)
        /\ Len(SubSeq(s, m, n)) = IF m <= n THEN n - m + 1 ELSE 0
        /\ \A k \in 1..(n - m + 1) : SubSeq(s, m, n)[k] = s[m + k - 1]
    BY <2>1, <2>2, <2>3, SubSeqProperties
  <2>5. b = SubSeq(s, m, n)
    BY <2>1, <2>2
  <2>6. Len(b) = Len(s) - i
    BY <2>1, <2>2, <2>4, <2>5, <1>1
  <2>7. ASSUME NEW k \in 1..(Len(s) - i)
        PROVE  b[k] = s[i + k]
    <3>1. k \in 1..(n - m + 1) /\ m + k - 1 = i + k
      BY <2>1, <2>2, <1>1
    <3> HIDE DEF b
    <3> QED
      BY <3>1, <2>4, <2>5
  <2> HIDE DEF b
  <2> QED
    BY <2>4, <2>5, <2>6, <2>7
<1>4. RemoveAt(s, i) = a \o b
  BY DEF RemoveAt
<1> HIDE DEF a, b
<1>5. /\ a \o b \in Seq(S) /\ Len(a \o b) = Len(a) + Len(b)
      /\ \A k \in 1..(Len(a) + Len(b)) : (a \o b)[k] = IF k <= Len(a) THEN a[k] ELSE b[k - Len(a)]
  BY <1>2, <1>3, ConcatProperties
<1>6. Len(a) + Len(b) = Len(s) - 1 /\ Len(a) = i - 1
  BY <1>1, <1>2, <1>3
<1>7. ASSUME NEW k \in 1..(Len(s) - 1)
      PROVE  (a \o b)[k] = IF k < i THEN s[k] ELSE s[k + 1]
  <2>1. (a \o b)[k] = IF k <= Len(a) THEN a[k] ELSE b[k - Len(a)]
    BY <1>5, <1>6
  <2>2. CASE k < i
    <3>1. k \in 1..(i - 1) /\ k <= Len(a)
      BY <1>1, <1>6, <2>2
    <3> QED
      BY <1>2, <2>1, <2>2, <3>1
  <2>3. CASE ~(k < i)
    <3>1. PICK j : j = k - Len(a) /\ j \in 1..(Len(s) - i) /\ i + j = k + 1 /\ ~(k <= Len(a))
      BY <1>1, <1>6, <2>3
    <3>2. b[j] = s[i + j]
      BY <1>3, <3>1
    <3> QED
      BY <2>1, <2>3, <3>1, <3>2
  <2> QED
    BY <2>2, <2>3
<1> QED
  BY <1>4, <1>5, <1>6, <1>7

\* A caller whose lock times out was only waiting.
LEMMA LockTimeoutInv ==
  ASSUME ClusterInv, NEW c \in Callers, LockTimeout(c)
  PROVE  ClusterInv'
<1> DEFINE n == Len(topicsLock)
<1>1. proc[c].pc = "lock" /\ proc[c].op = "add"
  BY DEF LockTimeout, ClusterInv, TopicsOK, LockOK
<1>2. /\ topicsLock \in Seq(Callers) /\ n \in Nat /\ DOMAIN topicsLock = 1..n
      /\ \A i, k \in 1..n : i # k => topicsLock[i] # topicsLock[k]
      /\ \A d \in Callers : proc[d].op = "add" <=> \E i \in 1..n : topicsLock[i] = d
      /\ \A d \in Callers : Adding(d) => topicsLock[1] = d
  BY DEF ClusterInv, TopicsOK, LockOK
<1>3. PICK i \in 1..n : topicsLock[i] = c /\ topicsLock' = RemoveAt(topicsLock, i)
  BY <1>2 DEF LockTimeout
<1>4. i # 1
  BY <1>2, <1>3 DEF LockTimeout
<1>5. /\ topicsLock' \in Seq(Callers) /\ Len(topicsLock') = n - 1
      /\ \A k \in 1..(n - 1) : topicsLock'[k] = IF k < i THEN topicsLock[k] ELSE topicsLock[k + 1]
  BY <1>2, <1>3, RemoveAtOK
<1>6. \A k, l \in 1..Len(topicsLock') : k # l => topicsLock'[k] # topicsLock'[l]
  <2> DEFINE old(k) == IF k < i THEN k ELSE k + 1
  <2>1. \A k \in 1..(n - 1) : old(k) \in 1..n /\ topicsLock'[k] = topicsLock[old(k)]
    BY <1>2, <1>5
  <2>2. \A k, l \in 1..(n - 1) : k # l => old(k) # old(l)
    BY <1>2
  <2> HIDE DEF old
  <2> QED
    BY <1>2, <1>5, <2>1, <2>2
<1>7. ASSUME NEW d \in Callers
      PROVE  (\E k \in 1..Len(topicsLock') : topicsLock'[k] = d) <=> d # c /\ proc[d].op = "add"
  <2>1. ASSUME NEW k \in 1..(n - 1), topicsLock'[k] = d
        PROVE  d # c /\ proc[d].op = "add"
    BY <2>1, <1>2, <1>3, <1>5
  <2>2. ASSUME d # c, proc[d].op = "add"
        PROVE  \E k \in 1..(n - 1) : topicsLock'[k] = d
    <3>1. PICK m \in 1..n : topicsLock[m] = d
      BY <2>2, <1>2
    <3>2. m # i
      BY <2>2, <3>1, <1>3
    <3>3. CASE m < i
      <4>1. m \in 1..(n - 1) /\ topicsLock'[m] = d
        BY <3>1, <3>3, <1>2, <1>5
      <4> QED
        BY <4>1
    <3>4. CASE m > i
      <4>1. m - 1 \in 1..(n - 1) /\ topicsLock'[m - 1] = d
        BY <3>1, <3>4, <1>2, <1>5
      <4> QED
        BY <4>1
    <3> QED
      BY <3>2, <3>3, <3>4, <1>2
  <2> QED
    BY <2>1, <2>2, <1>5
<1>8. \A d \in Callers \ {c} : Adding(d) => topicsLock'[1] = d
  BY <1>2, <1>4, <1>5
<1>9. /\ UNCHANGED <<where, poolVars, targetTopics, tainted, calls>>
      /\ proc' = [proc EXCEPT ![c] = Idle]
  BY DEF LockTimeout
<1>10. targetTopics \subseteq Topics
       /\ \A t \in targetTopics \cap Bad :
            t \in tainted \/ \E d \in Callers \ {c} : Adding(d) /\ proc[d].arg = t
  BY <1>1 DEF ClusterInv, TopicsOK, TargetsOK, Adding
<1> QED
  BY <1>1, <1>5, <1>6, <1>7, <1>8, <1>9, <1>10, LeavesInv

\* The call at work is done: its topic is out again if it was refused.
LEMMA AddedInv ==
  ASSUME ClusterInv, NEW c \in Callers, Added(c)
  PROVE  ClusterInv'
<1> DEFINE n == Len(topicsLock)
<1>1. proc[c].pc = "resumed" /\ proc[c].op = "add" /\ Adding(c)
  BY DEF Added, ClusterInv, TopicsOK, LockOK, Adding
<1>2. /\ topicsLock \in Seq(Callers) /\ n \in Nat
      /\ \A i, k \in 1..n : i # k => topicsLock[i] # topicsLock[k]
      /\ \A d \in Callers : proc[d].op = "add" <=> \E i \in 1..n : topicsLock[i] = d
      /\ \A d \in Callers : Adding(d) => topicsLock[1] = d
  BY DEF ClusterInv, TopicsOK, LockOK
<1>3. topicsLock # <<>> /\ topicsLock[1] = c /\ n >= 1
  BY <1>1, <1>2
<1>4. /\ topicsLock' = Tail(topicsLock) /\ proc' = [proc EXCEPT ![c] = Idle]
      /\ targetTopics' = IF proc[c].got = "TopicError" THEN proc[c].before ELSE targetTopics
      /\ tainted' = IF proc[c].got \in {"ok", "TopicError"} THEN tainted
                    ELSE tainted \cup {proc[c].arg}
      /\ UNCHANGED <<where, poolVars, calls>>
  BY DEF Added
<1>5. /\ topicsLock' \in Seq(Callers) /\ Len(topicsLock') = n - 1
      /\ \A k \in 1..(n - 1) : topicsLock'[k] = topicsLock[k + 1]
  BY <1>2, <1>3, <1>4
<1>6. \A k, l \in 1..Len(topicsLock') : k # l => topicsLock'[k] # topicsLock'[l]
  BY <1>2, <1>5
<1>7. ASSUME NEW d \in Callers
      PROVE  (\E k \in 1..Len(topicsLock') : topicsLock'[k] = d) <=> d # c /\ proc[d].op = "add"
  <2>1. ASSUME NEW k \in 1..(n - 1), topicsLock'[k] = d
        PROVE  d # c /\ proc[d].op = "add"
    <3>1. k + 1 \in 1..n /\ k + 1 # 1 /\ topicsLock[k + 1] = d /\ 1 \in 1..n
      BY <2>1, <1>2, <1>5
    <3> QED
      BY <3>1, <1>2, <1>3
  <2>2. ASSUME d # c, proc[d].op = "add"
        PROVE  \E k \in 1..(n - 1) : topicsLock'[k] = d
    <3>1. PICK m \in 1..n : topicsLock[m] = d
      BY <2>2, <1>2
    <3>2. m - 1 \in 1..(n - 1) /\ topicsLock'[m - 1] = d
      BY <2>2, <3>1, <1>2, <1>3, <1>5
    <3> QED
      BY <3>2
  <2> QED
    BY <2>1, <2>2, <1>5
<1>8. \A d \in Callers \ {c} : ~Adding(d)
  BY <1>2, <1>3
<1>9. AddOK(c)
  BY <1>1 DEF ClusterInv, TopicsOK
<1>10. targetTopics \subseteq Topics
       /\ \A t \in targetTopics \cap Bad : t \in tainted \/ t = proc[c].arg
  BY <1>8 DEF ClusterInv, TopicsOK, TargetsOK
<1>11. targetTopics' \subseteq Topics /\ \A t \in targetTopics' \cap Bad : t \in tainted'
  BY <1>1, <1>4, <1>9, <1>10 DEF AddOK
<1> QED
  BY <1>1, <1>4, <1>5, <1>6, <1>7, <1>8, <1>11, LeavesInv
-----------------------------------------------------------------------------
(* The actions of a shared promise                                         *)

\* The promise goes on by itself, for the topics it started with, or settles:
\* successfully only if no broker refuses them.
JobGoesOn(j, new) ==
    /\ \A q \in Procs \ {j} : new[q] = proc[q]
    /\ new[j].pc \in JobPcs \ {"idle"} /\ new[j].topics = proc[j].topics
JobEnds(j, new) ==
    \E e : new = Settle(j, e) /\ (e = "ok" => proc[j].topics \cap Bad = {})

\* A step of a shared promise keeps the invariant if it goes on or ends, and leaves
\* the pool in order.
LEMMA JobStepInv ==
  ASSUME ClusterInv, NEW j \in Jobs, UNCHANGED <<topicVars, calls>>,
         PoolOK', Processes(proc', DOMAIN objs'),
         JobGoesOn(j, proc') \/ JobEnds(j, proc'),
         proc'[j].pc = "seed" => ~HasConnectedBrokers',
         proc'[j].pc = "closing" => proc[j].topics \cap Bad = {},
         ~Continuations \/ (HasConnectedBrokers' => HasConnectedBrokers)
  PROVE  ClusterInv'
<1>1. j \in Procs /\ Jobs \subseteq Procs /\ Callers \subseteq Procs \ {j} /\ j # "idle"
      /\ "refreshMetadata" \in Jobs
  BY ClusterAssumption DEF Procs, Jobs
<1>2. ProcsOK'
  BY DEF ProcsOK
<1>3. CASE JobGoesOn(j, proc')
  <2>1. Aside
    BY <1>1, <1>3 DEF Aside, JobGoesOn
  <2>2. TopicsOK'
    BY <2>1, AsideKeeps DEF ClusterInv
  <2>3. CallsOK'
    BY <1>1, <1>3 DEF ClusterInv, CallsOK, JobGoesOn
  <2>4. JobsOK'
    <3> SUFFICES ASSUME NEW k \in Jobs
                 PROVE  /\ proc'[k].pc \in JobPcs
                        /\ proc'[k].pc = "seed" => ~HasConnectedBrokers'
                        /\ proc'[k].pc = "closing" => proc'[k].topics \cap Bad = {}
      BY DEF JobsOK
    <3>1. CASE k = j
      BY <3>1, <1>3 DEF JobGoesOn
    <3>2. CASE k # j
      <4>1. proc'[k] = proc[k] /\ k \in Procs
        BY <3>2, <1>1, <1>3 DEF JobGoesOn
      <4> QED
        BY <4>1 DEF ClusterInv, JobsOK, Continuations
    <3> QED
      BY <3>1, <3>2
  <2> QED
    BY <2>2, <2>3, <2>4, <1>2 DEF ClusterInv
<1>4. CASE JobEnds(j, proc')
  <2>1. PICK e : proc' = Settle(j, e) /\ (e = "ok" => proc[j].topics \cap Bad = {})
    BY <1>4 DEF JobEnds
  <2>2. TopicsOK'
    BY <2>1, SettlingKeeps DEF ClusterInv, ProcsOK
  <2>3. /\ proc'[j] = Idle
        /\ \A q \in Procs \ {j} : proc[q].pc # j => proc'[q] = proc[q]
    BY <2>1, JobSettles DEF ClusterInv, ProcsOK
  <2>4. CallsOK'
    BY <2>3, <1>1 DEF ClusterInv, CallsOK
  <2>5. \A k \in Jobs : proc'[k] = proc[k] \/ proc'[k].pc = "idle"
    BY <2>3, <1>1, IdleOK DEF ClusterInv, JobsOK, JobPcs, Jobs
  <2>6. JobsOK'
    BY <2>5, JobsKept DEF ClusterInv
  <2> QED
    BY <2>2, <2>4, <2>6, <1>2 DEF ClusterInv
<1> QED
  BY <1>3, <1>4

\* The request goes out, or the refresh is rejected.
LEMMA RequestOK ==
  ASSUME ClusterInv, NEW j \in Jobs, NEW o \in DOMAIN objs \cup {0, None}, NEW os
  PROVE  /\ Processes(Request(j, o, os), DOMAIN objs)
         /\ JobGoesOn(j, Request(j, o, os)) \/ JobEnds(j, Request(j, o, os))
         /\ Request(j, o, os)[j].pc \in {"request", "idle"}
<1> DEFINE new == Request(j, o, os)
<1>1. j \in Procs /\ Processes(proc, DOMAIN objs)
  BY DEF Procs, ClusterInv, ProcsOK
<1>2. CASE seedBroker = None \/ o = None \/ ~os[o].ready
  <2>1. PICK e : new = Settle(j, e) /\ e # "ok"
    BY <1>2 DEF Request
  <2>2. Processes(new, DOMAIN objs) /\ new[j] = Idle
    BY <2>1, <1>1, JobSettles
  <2> QED
    BY <2>1, <2>2, IdleOK DEF JobEnds
<1>3. CASE ~(seedBroker = None \/ o = None \/ ~os[o].ready)
  <2>1. new = [proc EXCEPT ![j].pc = "request", ![j].o = o, ![j].tries = 0, ![j].left = {},
                           ![j].seedAt = os[seedBroker].addr]
    BY <1>3 DEF Request
  <2>2. Processes(new, DOMAIN objs) /\ new[j].pc = "request" /\ new[j].topics = proc[j].topics
        /\ \A q \in Procs \ {j} : new[q] = proc[q]
    BY <2>1, <1>1, <1>3 DEF Processes, IsProcess, Fields
  <2> QED
    BY <2>2 DEF JobGoesOn, JobPcs
<1> QED
  BY <1>2, <1>3

\* findConnectedBroker goes to the seed only when nothing is connected.
LEMMA FindInv ==
  ASSUME ClusterInv, NEW j \in Jobs, FindConnectedBroker(j)
  PROVE  ClusterInv'
<1>1. PoolOK' /\ objs' = objs /\ (HasConnectedBrokers' <=> HasConnectedBrokers)
      /\ UNCHANGED <<topicVars, calls>>
  BY PoolSame DEF ClusterInv, FindConnectedBroker
<1>2. j \in Procs /\ Processes(proc, DOMAIN objs)
  BY DEF Procs, ClusterInv, ProcsOK
<1>3. \A n \in Known : brokers[n] \in DOMAIN objs
  BY DEF ClusterInv, PoolOK, Known
<1> DEFINE Good(new) ==
             /\ Processes(new, DOMAIN objs)
             /\ JobGoesOn(j, new) \/ JobEnds(j, new)
             /\ new[j].pc = "seed" => ~HasConnectedBrokers
             /\ new[j].pc # "closing"
<1>4. ASSUME NEW n \in Known
      PROVE  Good(Request(j, brokers[n], objs))
  BY <1>3, RequestOK
<1>5. Good(Request(j, seedBroker, objs))
  <2>1. seedBroker \in DOMAIN objs \cup {0, None}
    BY DEF ClusterInv, PoolOK
  <2> QED
    BY <2>1, RequestOK
<1>6. ASSUME NEW left, proc[j].pc = "find"
      PROVE  Good([proc EXCEPT ![j].left = left])
  BY <1>2, <1>6 DEF Processes, IsProcess, Fields, JobGoesOn, JobPcs
<1>7. ASSUME NEW left, NEW n \in Known
      PROVE  Good([proc EXCEPT ![j].pc = "connecting", ![j].left = left, ![j].o = brokers[n]])
  BY <1>2, <1>3 DEF Processes, IsProcess, Fields, JobGoesOn, JobPcs
<1>8. ~HasConnectedBrokers => Good([proc EXCEPT ![j].pc = "seed"])
  BY <1>2 DEF Processes, IsProcess, Fields, JobGoesOn, JobPcs
<1> HIDE DEF Good
<1>9. Good(proc')
  <2> DEFINE connected == {n \in proc[j].left \cap Known : IsConnected(brokers[n])}
  <2>1. CASE proc[j].o = 0 /\ connected # {}
    BY <2>1, <1>4 DEF FindConnectedBroker
  <2>2. CASE ~(proc[j].o = 0 /\ connected # {}) /\ proc[j].left # {}
    <3>1. PICK n \in proc[j].left :
            proc' = IF n \notin Known THEN [proc EXCEPT ![j].left = @ \ {n}]
                    ELSE IF n \in connected THEN Request(j, brokers[n], objs)
                    ELSE [proc EXCEPT ![j].pc = "connecting", ![j].left = @ \ {n},
                                      ![j].o = brokers[n]]
      BY <2>2 DEF FindConnectedBroker
    <3> QED
      BY <3>1, <1>4, <1>6, <1>7 DEF FindConnectedBroker
  <2>3. CASE ~(proc[j].o = 0 /\ connected # {}) /\ proc[j].left = {}
    BY <2>3, <1>5, <1>8 DEF FindConnectedBroker
  <2> QED
    BY <2>1, <2>2, <2>3
<1> QED
  BY <1>1, <1>9, JobStepInv DEF Good

\* A process, caller or promise, moves on or has its await rejected; a promise
\* that connects has not got an answer yet.
LEMMA ProcStepInv ==
  ASSUME ClusterInv, NEW p \in Procs, proc[p].pc \in {"seed", "seeding", "connecting"},
         UNCHANGED <<topicVars, calls>>, PoolOK', DOMAIN objs \subseteq DOMAIN objs',
         ~Continuations \/ (HasConnectedBrokers' => HasConnectedBrokers),
         \/ p \in Callers /\ MovesOn(p, proc', DOMAIN objs')
         \/ /\ p \in Jobs /\ Processes(proc', DOMAIN objs')
            /\ JobGoesOn(p, proc') \/ JobEnds(p, proc')
            /\ proc'[p].pc \notin {"seed", "closing"}
  PROVE  ClusterInv'
<1>1. CASE p \in Callers /\ MovesOn(p, proc', DOMAIN objs')
  <2>1. OtherCall(proc[p])
    BY <1>1, IsOtherCall DEF ClusterInv
  <2> QED
    BY <1>1, <2>1, CallerStepInv
<1>2. CASE /\ p \in Jobs /\ Processes(proc', DOMAIN objs')
           /\ JobGoesOn(p, proc') \/ JobEnds(p, proc')
           /\ proc'[p].pc \notin {"seed", "closing"}
  BY <1>2, JobStepInv
<1> QED
  BY <1>1, <1>2

\* A process that tries to connect Broker o; one whose await is rejected.
LEMMA ConnectingGoesOn ==
  ASSUME ClusterInv, NEW p \in Procs, proc[p].pc \in {"seed", "seeding", "connecting"},
         NEW D, DOMAIN objs \subseteq D, NEW new, Processes(new, D),
         new[p].pc \in {"seeding", "connecting", "find"},
         new[p].op = proc[p].op, new[p].then = proc[p].then, new[p].topics = proc[p].topics,
         \A q \in Procs \ {p} : new[q] = proc[q]
  PROVE  \/ p \in Callers /\ MovesOn(p, new, D)
         \/ /\ p \in Jobs /\ Processes(new, D) /\ JobGoesOn(p, new)
            /\ new[p].pc \notin {"seed", "closing"}
<1>1. CASE p \in Callers
  <2>1. OtherCall(proc[p])
    BY <1>1, IsOtherCall DEF ClusterInv
  <2> QED
    BY <1>1, <2>1 DEF MovesOn, OtherCall
<1>2. CASE p \in Jobs
  BY <1>2 DEF JobGoesOn, JobPcs
<1> QED
  BY <1>1, <1>2 DEF Procs

\* Whoever was connecting and cannot, settles or ends.
LEMMA RejectedGoesOn ==
  ASSUME ClusterInv, NEW p \in Procs, proc[p].pc \in {"seed", "seeding", "connecting"},
         NEW D, DOMAIN objs \subseteq D, NEW e, e # "ok" \/ p \in Callers
  PROVE  \/ p \in Callers /\ MovesOn(p, Settle(p, e), D)
         \/ /\ p \in Jobs /\ Processes(Settle(p, e), D) /\ JobEnds(p, Settle(p, e))
            /\ Settle(p, e)[p].pc \notin {"seed", "closing"}
<1>1. Processes(proc, D)
  BY ProcessesGrow DEF ClusterInv, ProcsOK
<1>2. CASE p \in Callers
  <2>1. OtherCall(proc[p])
    BY <1>2, IsOtherCall DEF ClusterInv
  <2> QED
    BY <1>1, <1>2, <2>1, SettleMovesOn
<1>3. CASE p \in Jobs
  <2>1. Processes(Settle(p, e), D) /\ Settle(p, e)[p] = Idle
    BY <1>1, <1>3, JobSettles
  <2>2. e # "ok"
    BY <1>3, ClusterAssumption
  <2> QED
    BY <1>3, <2>1, <2>2, IdleOK DEF JobEnds
<1> QED
  BY <1>2, <1>3 DEF Procs

\* A promise is at the seed only when nothing is connected: it does not go on
\* as if the metadata had been loaded.
LEMMA ConnectSeedInv ==
  ASSUME ClusterInv, NEW p \in Procs, ConnectSeed(p)
  PROVE  ClusterInv'
<1>1. proc[p].pc = "seed" /\ UNCHANGED <<where, brokers, metadata, expired, topicVars, calls>>
      /\ PoolOK /\ Processes(proc, DOMAIN objs)
  BY DEF ConnectSeed, ClusterInv, ProcsOK
<1>2. CASE HasConnectedBrokers
  <2>1. p \in Callers
    BY <1>1, <1>2 DEF ClusterInv, JobsOK, Procs
  <2>2. proc' = Settle(p, "ok") /\ UNCHANGED <<where, poolVars>>
    BY <1>1, <1>2 DEF ConnectSeed, KeepSeed, poolVars
  <2>3. PoolOK' /\ objs' = objs /\ (HasConnectedBrokers' <=> HasConnectedBrokers)
    BY <1>1, <2>2, PoolSame
  <2>4. p \in Callers /\ MovesOn(p, proc', DOMAIN objs')
    <3>1. OtherCall(proc[p])
      BY <1>1, <2>1, IsOtherCall DEF ClusterInv
    <3> QED
      BY <3>1, <1>1, <2>1, <2>2, <2>3, SettleMovesOn
  <2> QED
    BY <1>1, <2>3, <2>4, ProcStepInv
<1>3. CASE ~HasConnectedBrokers
  <2>1. PICK o : /\ proc' = [proc EXCEPT ![p].pc = "seeding", ![p].o = o]
                 /\ \/ seedBroker # None /\ o = seedBroker /\ KeepSeed
                    \/ o = Len(objs) + 1 /\ CreateSeedBroker(p)
    BY <1>3 DEF ConnectSeed
  <2>2. /\ PoolOK' /\ DOMAIN objs \subseteq DOMAIN objs' /\ o \in DOMAIN objs'
        /\ HasConnectedBrokers' => HasConnectedBrokers
    <3>1. CASE seedBroker # None /\ o = seedBroker /\ KeepSeed
      <4>1. UNCHANGED <<where, poolVars>>
        BY <1>1, <3>1 DEF KeepSeed, poolVars
      <4>2. PoolOK' /\ objs' = objs /\ (HasConnectedBrokers' <=> HasConnectedBrokers)
        BY <1>1, <4>1, PoolSame
      <4> QED
        BY <4>2, <3>1, <1>1 DEF PoolOK
    <3>2. CASE o = Len(objs) + 1 /\ CreateSeedBroker(p)
      BY <3>2, <1>1, SeedOK
    <3> QED
      BY <2>1, <3>1, <3>2
  <2>3. Processes(proc, DOMAIN objs')
    BY <1>1, <2>2, ProcessesGrow
  <2>4. /\ Processes(proc', DOMAIN objs') /\ proc'[p].pc = "seeding"
        /\ proc'[p].op = proc[p].op /\ proc'[p].then = proc[p].then
        /\ proc'[p].topics = proc[p].topics
        /\ \A q \in Procs \ {p} : proc'[q] = proc[q]
    BY <2>1, <2>2, <2>3 DEF Processes, IsProcess, Fields
  <2> QED
    BY <1>1, <2>2, <2>4, ConnectingGoesOn, ProcStepInv
<1> QED
  BY <1>2, <1>3

\* A failed connection to the seed broker keeps the invariant.
LEMMA SeedFailsInv ==
  ASSUME ClusterInv, NEW p \in Procs, NEW e \in ConnectErrors, SeedFails(p, e)
  PROVE  ClusterInv'
<1>1. /\ proc[p].pc = "seeding" /\ ~Continuations
      /\ UNCHANGED <<where, brokers, metadata, expired, topicVars, calls>>
      /\ PoolOK /\ Processes(proc, DOMAIN objs) /\ e # "ok"
  BY DEF SeedFails, ClusterInv, ProcsOK, ConnectErrors
<1>2. PoolOK' /\ DOMAIN objs \subseteq DOMAIN objs'
  <2>1. CASE CreateSeedBroker(p)
    BY <2>1, <1>1, SeedOK
  <2>2. CASE KeepSeed
    BY <2>2, <1>1, SameBrokers DEF KeepSeed, PoolOK
  <2> QED
    BY <2>1, <2>2 DEF SeedFails
<1>3. CASE proc' = [proc EXCEPT ![p].tries = @ + 1, ![p].o = seedBroker'] /\ seedBroker' # None
  <2>1. seedBroker' \in DOMAIN objs'
    BY <1>2, <1>3 DEF PoolOK
  <2>2. Processes(proc, DOMAIN objs')
    BY <1>1, <1>2, ProcessesGrow
  <2>3. /\ Processes(proc', DOMAIN objs') /\ proc'[p].pc = "seeding"
        /\ proc'[p].op = proc[p].op /\ proc'[p].then = proc[p].then
        /\ proc'[p].topics = proc[p].topics
        /\ \A q \in Procs \ {p} : proc'[q] = proc[q]
    BY <1>1, <1>3, <2>1, <2>2 DEF Processes, IsProcess, Fields
  <2> QED
    BY <1>1, <1>2, <2>3, ConnectingGoesOn, ProcStepInv
<1>4. CASE proc' = Settle(p, e) \/ proc' = Settle(p, "TypeError")
  BY <1>1, <1>2, <1>4, RejectedGoesOn, ProcStepInv
<1> QED
  BY <1>3, <1>4 DEF SeedFails

\* So does one to a broker of the pool.
LEMMA ConnectFailsInv ==
  ASSUME ClusterInv, NEW p \in Procs, NEW e \in ConnectErrors, ConnectFails(p, e)
  PROVE  ClusterInv'
<1>1. /\ proc[p].pc = "connecting" /\ ~Continuations
      /\ UNCHANGED <<where, poolVars, topicVars, calls>>
      /\ PoolOK /\ Processes(proc, DOMAIN objs)
  BY DEF ConnectFails, ClusterInv, ProcsOK
<1>2. PoolOK' /\ objs' = objs
  BY <1>1, PoolSame
<1>3. CASE \/ proc' = [proc EXCEPT ![p].tries = @ + 1]
           \/ p \in Jobs /\ proc' = [proc EXCEPT ![p].pc = "find", ![p].tries = 0]
  <2>1. /\ Processes(proc', DOMAIN objs') /\ proc'[p].pc \in {"connecting", "find"}
        /\ proc'[p].op = proc[p].op /\ proc'[p].then = proc[p].then
        /\ proc'[p].topics = proc[p].topics
        /\ \A q \in Procs \ {p} : proc'[q] = proc[q]
    BY <1>1, <1>2, <1>3 DEF Processes, IsProcess, Fields
  <2> QED
    BY <1>1, <1>2, <2>1, ConnectingGoesOn, ProcStepInv
<1>4. CASE p \in Callers /\ proc' = Thrown(p, e)
  <2>1. OtherCall(proc[p])
    BY <1>1, <1>4, IsOtherCall DEF ClusterInv
  <2>2. MovesOn(p, proc', DOMAIN objs')
    BY <1>1, <1>2, <1>4, <2>1, ThrownMovesOn
  <2> QED
    BY <1>1, <1>2, <1>4, <2>2, ProcStepInv
<1> QED
  BY <1>3, <1>4 DEF ConnectFails, Procs

\* A Broker is connected; a promise sends its request.
LEMMA ConnectedInv ==
  ASSUME ClusterInv, NEW p \in Procs, Connected(p)
  PROVE  ClusterInv'
<1>1. /\ proc[p].pc \in {"connecting", "seeding"} /\ ~Continuations
      /\ objs' = [objs EXCEPT ![proc[p].o].connected = TRUE, ![proc[p].o].ready = TRUE]
      /\ UNCHANGED <<where, brokers, seedBroker, index, metadata, expired, topicVars, calls>>
      /\ PoolOK /\ Processes(proc, DOMAIN objs)
  BY DEF Connected, ClusterInv, ProcsOK
<1>2. objs' \in Seq(BrokerObject) /\ DOMAIN objs' = DOMAIN objs
  BY <1>1, ConnectOK
<1>3. PoolOK'
  BY <1>1, <1>2, SameBrokers
<1>4. CASE p \in Jobs
  <2>1. PICK o \in DOMAIN objs \cup {0, None} : proc' = Request(p, o, objs')
    <3>1. proc[p].o \in DOMAIN objs \cup {0} /\ seedBroker \in DOMAIN objs \cup {None}
      BY <1>1 DEF Processes, IsProcess, PoolOK
    <3>2. proc' = Request(p, IF proc[p].pc = "seeding" THEN seedBroker ELSE proc[p].o, objs')
      BY <1>4 DEF Connected
    <3> QED
      BY <3>1, <3>2
  <2>2. /\ Processes(proc', DOMAIN objs)
        /\ JobGoesOn(p, proc') \/ JobEnds(p, proc')
        /\ proc'[p].pc \in {"request", "idle"}
    BY <2>1, <1>4, RequestOK
  <2> QED
    BY <1>1, <1>2, <1>3, <1>4, <2>2, ProcStepInv
<1>5. CASE p \in Callers
  <2>1. OtherCall(proc[p]) /\ p \notin Jobs
    BY <1>1, <1>5, IsOtherCall, ClusterAssumption DEF ClusterInv
  <2>2. \A e : MovesOn(p, Settle(p, e), DOMAIN objs)
    BY <1>1, <1>5, <2>1, SettleMovesOn
  <2>3. CASE proc[p].pc = "seeding"
    <3>1. \E e : proc' = Settle(p, e)
      BY <2>1, <2>3 DEF Connected
    <3> QED
      BY <1>1, <1>2, <1>3, <1>5, <2>2, <3>1, ProcStepInv
  <2>4. CASE proc[p].pc # "seeding"
    <3>1. proc' = [proc EXCEPT ![p].pc = proc[p].goal, ![p].tries = 0]
      BY <2>1, <2>4 DEF Connected
    <3>2. MovesOn(p, proc', DOMAIN objs')
      BY <3>1, <1>1, <1>2, <2>1 DEF MovesOn, OtherCall, Processes, IsProcess, Fields
    <3> QED
      BY <3>2, <1>1, <1>2, <1>3, <1>5, ProcStepInv
  <2> QED
    BY <2>3, <2>4
<1> QED
  BY <1>4, <1>5 DEF Procs

\* A metadata request that fails, or is refused a topic, keeps it.
LEMMA MetadataFailsInv ==
  ASSUME ClusterInv, NEW j \in Jobs,
         NEW e \in {"ConnectionClosed", "TopicError", "LeaderNotAvailable"},
         MetadataFails(j, e)
  PROVE  ClusterInv'
<1>1. /\ proc[j].pc = "request" /\ ~Continuations
      /\ UNCHANGED <<where, brokers, seedBroker, index, topicVars, calls>>
      /\ PoolOK /\ Processes(proc, DOMAIN objs) /\ e # "ok" /\ j \in Procs
      /\ objs' = IF e = "ConnectionClosed" THEN Close({proc[j].o}) ELSE objs
  BY DEF MetadataFails, ClusterInv, ProcsOK, Procs
<1>2. objs' \in Seq(BrokerObject) /\ DOMAIN objs' = DOMAIN objs
  BY <1>1, CloseOK DEF PoolOK
<1>3. PoolOK'
  BY <1>1, <1>2, SameBrokers
<1>4. CASE proc' = [proc EXCEPT ![j].tries = @ + 1]
  <2>1. Processes(proc', DOMAIN objs') /\ JobGoesOn(j, proc') /\ proc'[j].pc = "request"
    BY <1>1, <1>2, <1>4 DEF Processes, IsProcess, Fields, JobGoesOn, JobPcs
  <2> QED
    BY <1>1, <1>3, <2>1, JobStepInv
<1>5. CASE proc' = Settle(j, e)
  <2>1. Processes(proc', DOMAIN objs') /\ proc'[j] = Idle
    BY <1>1, <1>2, <1>5, JobSettles
  <2>2. JobEnds(j, proc')
    BY <1>1, <1>5 DEF JobEnds
  <2> QED
    BY <1>1, <1>3, <2>1, <2>2, IdleOK, JobStepInv
<1> QED
  BY <1>4, <1>5 DEF MetadataFails

\* The answer leaves a pool of Brokers that exist: fresh nodes get the seed or
\* one of the Brokers made for them.
LEMMA ArrivalOK ==
  ASSUME ClusterInv, NEW j \in Jobs, MetadataArrives(j)
  PROVE  PoolOK' /\ DOMAIN objs \subseteq DOMAIN objs'
<1> DEFINE viaSeed == {n \in Fresh : where[n] = proc[j].seedAt}
           broken == viaSeed # {} /\ seedBroker = None
           kept == [o \in DOMAIN objs |->
                      [objs[o] EXCEPT
                         !.connected = @ \/ o = proc[j].o,
                         !.node = IF o = seedBroker /\ viaSeed # {}
                                  THEN CHOOSE n \in viaSeed : TRUE ELSE @]]
           Use(made, n) == IF n \in made
                           THEN Len(objs) + (CHOOSE i \in 1..Len(SetToSeq(made)) :
                                                SetToSeq(made)[i] = n)
                           ELSE IF n \in viaSeed /\ ~broken THEN seedBroker
                           ELSE brokers[n]
<1>1. PICK made \in SUBSET (Fresh \ viaSeed) :
        LET ns == SetToSeq(made)
        IN /\ brokers' = [n \in Nodes |-> Use(made, n)]
           /\ objs' = kept \o [i \in 1..Len(ns) |-> NewBroker(where[ns[i]], ns[i])]
  BY DEF MetadataArrives
<1> DEFINE ns == SetToSeq(made)
           new == [i \in 1..Len(ns) |-> NewBroker(where[ns[i]], ns[i])]
<1>2. made \subseteq Nodes /\ viaSeed \subseteq Nodes
  BY DEF Fresh, Live
<1>3. ns \in Seq(made) /\ Len(ns) \in Nat /\ \A n \in made : \E i \in 1..Len(ns) : ns[i] = n
  <2>1. IsFiniteSet(made)
    BY <1>2, FS_Subset, ClusterAssumption
  <2> QED
    BY <2>1, SetToSeqLists
<1>4. /\ objs \in Seq(BrokerObject) /\ DOMAIN objs = 1..Len(objs) /\ Len(objs) \in Nat
      /\ where \in {Start} \cup Moves
      /\ brokers \in [Nodes -> DOMAIN objs \cup {None}]
      /\ seedBroker \in DOMAIN objs \cup {None}
      /\ index \in 0..(Len(Seeds) - 1)
  BY DEF ClusterInv, PoolOK
<1>5. kept \in Seq(BrokerObject) /\ Len(kept) = Len(objs)
  <2>1. ASSUME NEW o \in DOMAIN objs
        PROVE  kept[o] \in BrokerObject
    <3>1. objs[o] \in BrokerObject
      BY <1>4
    <3>2. viaSeed # {} => (CHOOSE n \in viaSeed : TRUE) \in Nodes
      BY <1>2
    <3> HIDE DEF viaSeed
    <3>3. kept[o] = [addr |-> objs[o].addr,
                     node |-> IF o = seedBroker /\ viaSeed # {}
                              THEN CHOOSE n \in viaSeed : TRUE ELSE objs[o].node,
                     connected |-> objs[o].connected \/ o = proc[j].o,
                     ready |-> objs[o].ready]
      BY <3>1 DEF BrokerObject
    <3> HIDE DEF kept
    <3> QED
      BY <3>1, <3>2, <3>3 DEF BrokerObject
  <2>2. kept \in [1..Len(objs) -> BrokerObject]
    BY <2>1, <1>4
  <2> HIDE DEF kept
  <2> QED
    BY <2>2, <1>4
<1>6. new \in Seq(BrokerObject) /\ Len(new) = Len(ns)
  <2>1. ASSUME NEW i \in 1..Len(ns)
        PROVE  NewBroker(where[ns[i]], ns[i]) \in BrokerObject
    <3>1. ns[i] \in Nodes
      BY <1>2, <1>3
    <3>2. where[ns[i]] \in Addrs
      BY <3>1, <1>4 DEF Addrs
    <3> HIDE DEF ns
    <3> QED
      BY <3>1, <3>2 DEF NewBroker, BrokerObject
  <2>2. new \in [1..Len(ns) -> BrokerObject]
    BY <2>1
  <2> HIDE DEF new, ns
  <2> QED
    BY <2>2, <1>3
<1>7. objs' \in Seq(BrokerObject) /\ Len(objs') = Len(objs) + Len(ns)
      /\ DOMAIN objs' = 1..(Len(objs) + Len(ns))
  <2>1. objs' = kept \o new
    BY <1>1
  <2> HIDE DEF kept, new, ns
  <2>2. kept \o new \in Seq(BrokerObject) /\ Len(kept \o new) = Len(kept) + Len(new)
    BY <1>5, <1>6, ConcatProperties
  <2> QED
    BY <2>1, <2>2, <1>5, <1>6
<1>8. DOMAIN objs \subseteq DOMAIN objs'
  <2> HIDE DEF ns
  <2> QED
    BY <1>3, <1>4, <1>7
<1>9. ASSUME NEW n \in Nodes
      PROVE  brokers'[n] \in DOMAIN objs' \cup {None}
  <2>1. CASE n \in made
    <3> DEFINE i == CHOOSE i \in 1..Len(ns) : ns[i] = n
    <3>1. i \in 1..Len(ns)
      BY <2>1, <1>3
    <3>2. brokers'[n] = Len(objs) + i
      BY <2>1, <1>1
    <3> HIDE DEF i, ns
    <3> QED
      BY <3>1, <3>2, <1>3, <1>4, <1>7
  <2>2. CASE n \notin made
    <3>1. brokers'[n] = seedBroker \/ brokers'[n] = brokers[n]
      BY <2>2, <1>1
    <3> QED
      BY <3>1, <1>4, <1>8
  <2> QED
    BY <2>1, <2>2
<1>10. brokers' \in [Nodes -> DOMAIN objs' \cup {None}]
  <2> HIDE DEF Use
  <2>1. brokers' = [n \in Nodes |-> Use(made, n)]
    BY <1>1
  <2> QED
    BY <2>1, <1>9
<1>11. UNCHANGED <<where, seedBroker, index>>
  BY DEF MetadataArrives
<1> QED
  BY <1>4, <1>7, <1>8, <1>10, <1>11 DEF PoolOK

\* Metadata that arrives, with the brokers it adds and replaces, keeps it.
LEMMA MetadataArrivesInv ==
  ASSUME ClusterInv, NEW j \in Jobs, MetadataArrives(j)
  PROVE  ClusterInv'
<1>1. /\ proc[j].pc = "request" /\ ~Continuations /\ proc[j].topics \cap Bad = {}
      /\ UNCHANGED <<topicVars, calls>>
      /\ Processes(proc, DOMAIN objs) /\ j \in Procs
  BY DEF MetadataArrives, ClusterInv, ProcsOK, Procs
<1>2. PoolOK' /\ DOMAIN objs \subseteq DOMAIN objs'
  BY ArrivalOK
<1>3. Processes(proc, DOMAIN objs')
  BY <1>1, <1>2, ProcessesGrow
<1>4. CASE \E e : proc' = Settle(j, e)
  <2>1. Processes(proc', DOMAIN objs') /\ proc'[j] = Idle
    BY <1>3, <1>4, JobSettles
  <2>2. JobEnds(j, proc')
    BY <1>1, <1>4 DEF JobEnds
  <2> QED
    BY <1>1, <1>2, <2>1, <2>2, IdleOK, JobStepInv
<1>5. CASE \E closing : proc' = [proc EXCEPT ![j].pc = "closing", ![j].o = 0,
                                             ![j].closing = closing]
  <2>1. Processes(proc', DOMAIN objs') /\ JobGoesOn(j, proc') /\ proc'[j].pc = "closing"
    BY <1>1, <1>3, <1>5 DEF Processes, IsProcess, Fields, JobGoesOn, JobPcs
  <2> QED
    BY <1>1, <1>2, <2>1, JobStepInv
<1> QED
  BY <1>4, <1>5 DEF MetadataArrives

\* A replaced broker that has been disconnected keeps it.
LEMMA BrokerClosedInv ==
  ASSUME ClusterInv, NEW j \in Jobs, BrokerClosed(j)
  PROVE  ClusterInv'
<1>1. /\ proc[j].pc = "closing" /\ ~Continuations /\ proc[j].topics \cap Bad = {}
      /\ UNCHANGED <<where, seedBroker, index, topicVars, calls>>
      /\ PoolOK /\ Processes(proc, DOMAIN objs) /\ j \in Procs
  BY DEF BrokerClosed, ClusterInv, ProcsOK, Procs, JobsOK
<1>2. PICK c \in proc[j].closing :
        /\ objs' = Close({c[1]})
        /\ brokers' = IF c[2] = None THEN brokers ELSE [brokers EXCEPT ![c[2]] = None]
        /\ proc' = IF proc[j].closing = {c} THEN Settle(j, "ok")
                   ELSE [proc EXCEPT ![j].closing = @ \ {c}]
  BY DEF BrokerClosed
<1>3. objs' \in Seq(BrokerObject) /\ DOMAIN objs' = DOMAIN objs
  BY <1>1, <1>2, CloseOK
<1>4. PoolOK'
  BY <1>1, <1>2, <1>3 DEF PoolOK
<1>5. CASE proc' = Settle(j, "ok")
  <2>1. Processes(proc', DOMAIN objs') /\ proc'[j] = Idle
    BY <1>1, <1>3, <1>5, JobSettles
  <2>2. JobEnds(j, proc')
    BY <1>1, <1>5 DEF JobEnds
  <2> QED
    BY <1>1, <1>4, <2>1, <2>2, IdleOK, JobStepInv
<1>6. CASE proc' = [proc EXCEPT ![j].closing = @ \ {c}]
  <2>1. Processes(proc', DOMAIN objs') /\ JobGoesOn(j, proc')
    BY <1>1, <1>3, <1>6 DEF Processes, IsProcess, Fields, JobGoesOn, JobPcs
  <2>2. proc'[j].pc = "closing"
    BY <1>1, <1>6 DEF Processes, IsProcess, Fields
  <2> QED
    BY <1>1, <1>4, <2>1, <2>2, JobStepInv
<1> QED
  BY <1>2, <1>5, <1>6
-----------------------------------------------------------------------------
(* The cluster, time, and the theorems                                     *)

\* Brokers fail and connections drop: nothing gets connected by it.
LEMMA EnvironmentInv ==
  ASSUME ClusterInv, Move \/ Expire \/ \E o \in DOMAIN objs : Drop(o)
  PROVE  ClusterInv'
<1>1. UNCHANGED <<brokers, seedBroker, index, topicVars, proc, calls>>
      /\ where' \in {Start} \cup Moves /\ PoolOK
  BY DEF Move, Expire, Drop, ClusterInv, PoolOK
<1>2. objs' = objs \/ \E S : objs' = Close(S)
  BY DEF Move, Expire, Drop
<1>3. objs' \in Seq(BrokerObject) /\ DOMAIN objs' = DOMAIN objs
  BY <1>1, <1>2, CloseOK DEF PoolOK
<1>4. PoolOK'
  BY <1>1, <1>3 DEF PoolOK
<1>5. HasConnectedBrokers' => HasConnectedBrokers
  <2>1. CASE objs' = objs
    BY <2>1, <1>1 DEF HasConnectedBrokers, Pooled, Known, IsConnected
  <2>2. CASE \E S : objs' = Close(S)
    BY <2>2, <1>1, ClosedPool
  <2> QED
    BY <1>2, <2>1, <2>2
<1>6. ProcsOK'
  BY <1>1, <1>3 DEF ClusterInv, ProcsOK
<1>7. JobsOK'
  BY <1>1, <1>5, JobsKept DEF ClusterInv
<1>8. TopicsOK'
  BY <1>1, AsideKeeps DEF ClusterInv, Aside
<1>9. CallsOK'
  BY <1>1 DEF ClusterInv, CallsOK
<1> QED
  BY <1>4, <1>6, <1>7, <1>8, <1>9 DEF ClusterInv

\* The invariant holds at the start.
LEMMA ClusterInitInv == ClusterInit => ClusterInv
<1> SUFFICES ASSUME ClusterInit
             PROVE  ClusterInv
  OBVIOUS
<1>1. \A p \in Procs : proc[p] = Idle
  BY DEF ClusterInit
<1>2. Callers \subseteq Procs /\ Jobs \subseteq Procs
  BY DEF Procs
<1>3. PoolOK
  <2>1. Len(Seeds) \in Nat /\ Len(Seeds) > 0
    BY ClusterAssumption
  <2> QED
    BY <2>1 DEF ClusterInit, PoolOK
<1>4. ProcsOK
  BY <1>1, IdleOK DEF ClusterInit, ProcsOK, Processes
<1>5. JobsOK
  BY <1>1, <1>2, IdleOK DEF JobsOK, JobPcs
<1>6. TopicsOK
  <2>1. \A c \in Callers : proc[c].op # "add" /\ proc[c].pc = "idle" /\ proc[c].then = "end"
    BY <1>1, <1>2, IdleOK, ClusterAssumption
  <2> QED
    BY <2>1 DEF ClusterInit, TopicsOK, LockOK, TargetsOK, Adding
<1>7. CallsOK
  BY <1>1, <1>2, IdleOK DEF CallsOK
<1> QED
  BY <1>3, <1>4, <1>5, <1>6, <1>7 DEF ClusterInv

\* Every action keeps it.
LEMMA ClusterNextInv == ClusterInv /\ [ClusterNext]_vars => ClusterInv'
<1> SUFFICES ASSUME ClusterInv, [ClusterNext]_vars
             PROVE  ClusterInv'
  OBVIOUS
<1>1. ASSUME NEW j \in Jobs, JobStep(j)
      PROVE  ClusterInv'
  BY <1>1, FindInv, MetadataFailsInv, MetadataArrivesInv, BrokerClosedInv DEF JobStep
<1>2. ASSUME NEW p \in Procs, ConnectStep(p)
      PROVE  ClusterInv'
  BY <1>2, ConnectSeedInv, ConnectedInv, SeedFailsInv, ConnectFailsInv DEF ConnectStep
<1>3. ASSUME NEW c \in Callers, CallBegins(c)
      PROVE  ClusterInv'
  BY <1>3, AddTargetTopicInv, ProduceInv, OtherCallBegins DEF CallBegins
<1>4. ASSUME NEW c \in Callers, CallStep(c)
      PROVE  ClusterInv'
  BY <1>4, LockedInv, AddedInv, RefreshedInv, AnsweredInv, RequestFailsInv, ReconnectedInv,
     WithBrokerInv, CaughtInv, RoundInv, DisconnectInv DEF CallStep
<1>5. ASSUME NEW c \in Callers, LockTimeout(c)
      PROVE  ClusterInv'
  BY <1>5, LockTimeoutInv
<1>6. ASSUME Move \/ Expire \/ \E o \in DOMAIN objs : Drop(o)
      PROVE  ClusterInv'
  BY <1>6, EnvironmentInv
<1>7. CASE UNCHANGED vars
  <2>1. UNCHANGED <<where, poolVars, topicVars, proc, calls>>
    BY <1>7 DEF vars
  <2>2. PoolOK' /\ objs' = objs /\ (HasConnectedBrokers' <=> HasConnectedBrokers)
    BY <2>1, PoolSame DEF ClusterInv
  <2>3. ProcsOK'
    BY <2>1, <2>2 DEF ClusterInv, ProcsOK
  <2>4. JobsOK'
    BY <2>1, <2>2, JobsKept DEF ClusterInv
  <2>5. TopicsOK'
    BY <2>1, AsideKeeps DEF ClusterInv, Aside
  <2>6. CallsOK'
    BY <2>1 DEF ClusterInv, CallsOK
  <2> QED
    BY <2>2, <2>3, <2>4, <2>5, <2>6 DEF ClusterInv
<1> QED
  BY <1>1, <1>2, <1>3, <1>4, <1>5, <1>6, <1>7 DEF ClusterNext

\* The cluster layer keeps ClusterInv: the Brokers it names exist, the lock of
\* the target topics is with one call at a time, and a refresh that succeeded
\* asked for no refused topic (brokerPool.js, cluster/index.js).
THEOREM ClusterInvariant == ClusterSpec => []ClusterInv
<1>1. ClusterInit => ClusterInv
  BY ClusterInitInv
<1>2. ClusterInv /\ [ClusterNext]_vars => ClusterInv'
  BY ClusterNextInv
<1> QED
  BY <1>1, <1>2, PTL DEF ClusterSpec

\* The type invariant of the cluster layer, whatever calls overlap: the pool,
\* the seed and every process name Broker objects that exist, and the lock of
\* the target topics is held or waited for by the calls that add topics.
THEOREM ClusterTypes == ClusterSpec => []ClusterTypeOK
<1>1. ClusterInv => ClusterTypeOK
  <2> SUFFICES ASSUME ClusterInv
               PROVE  ClusterTypeOK
    OBVIOUS
  <2>1. /\ brokers \in [Nodes -> DOMAIN objs \cup {None}]
        /\ seedBroker \in DOMAIN objs \cup {None}
    BY DEF ClusterInv, PoolOK
  <2>2. targetTopics \subseteq Topics
    BY DEF ClusterInv, TopicsOK, TargetsOK
  <2>3. ToSet(topicsLock) = {c \in Callers : proc[c].op = "add"}
    <3>1. /\ topicsLock \in Seq(Callers)
          /\ \A c \in Callers :
               proc[c].op = "add" <=> \E i \in 1..Len(topicsLock) : topicsLock[i] = c
      BY DEF ClusterInv, TopicsOK, LockOK
    <3>2. DOMAIN topicsLock = 1..Len(topicsLock)
          /\ \A i \in 1..Len(topicsLock) : topicsLock[i] \in Callers
      BY <3>1
    <3> QED
      BY <3>1, <3>2 DEF ToSet
  <2>4. \A p \in Procs : proc[p].o \in DOMAIN objs \cup {0}
    BY DEF ClusterInv, ProcsOK, Processes, IsProcess
  <2> QED
    BY <2>1, <2>2, <2>3, <2>4 DEF ClusterTypeOK
<1> QED
  BY <1>1, ClusterInvariant, PTL

\* A topic that the brokers refuse does not stay among the target topics: the
\* rollback of addMultipleTargetTopics takes it out, under any interleaving of
\* calls, refreshes, timeouts and faults, except when its call joined a refresh
\* under way or its refresh ended in another error (cluster/index.js).
THEOREM RefusedTopicsDoNotStay == ClusterSpec => []RefusedTopicsRemoved
<1>1. ClusterInv => RefusedTopicsRemoved
  BY DEF ClusterInv, TopicsOK, TargetsOK, RefusedTopicsRemoved, Adding
<1> QED
  BY <1>1, ClusterInvariant, PTL
=============================================================================

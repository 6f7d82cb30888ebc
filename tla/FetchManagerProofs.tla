------------------------- MODULE FetchManagerProofs -------------------------
(***************************************************************************)
(* Proofs about the fetch loop, for every set of brokers and partitions,   *)
(* every number of workers and any number of changes and errors: a         *)
(* partition is handled one batch at a time, fetchers are replaced only    *)
(* when the old ones are drained, and stop() leaves no handler running.    *)
(***************************************************************************)
EXTENDS FetchManager, FiniteSetTheorems, TLAPS

\* Two entries of the queue or of the workers are of the same batch.
SameBatch(a, b) == a.f = b.f /\ a.p = b.p

\* No batch is twice in the queue q, with the workers wk, or with both.
Apart(q, wk) ==
    /\ \A i, j \in 1..Len(q) : i # j => ~SameBatch(q[i], q[j])
    /\ \A v, w \in Workers : v # w /\ wk[v] # None /\ wk[w] # None
                             => ~SameBatch(wk[v], wk[w])
    /\ \A i \in 1..Len(q), w \in Workers : wk[w] # None => ~SameBatch(q[i], wk[w])

\* Every batch in the queue or with a worker is one its fetcher still awaits.
Awaited(q, wk, fe) ==
    /\ \A i \in 1..Len(q) : q[i].p \in fe[q[i].f].left
    /\ \A w \in Workers : wk[w] # None => wk[w].p \in fe[wk[w].f].left

\* What a fetcher has pushed is assigned to its node, and only one generation
\* of fetchers has batches outstanding.
Owned ==
    /\ \A f \in Fetchers : \A p \in fetcher[f].pushed : assigned[f[1]][p] = f[2]
    /\ \A f, g \in Fetchers : fetcher[f].left # {} /\ fetcher[g].left # {}
                              => f[1] = g[1]

\* The fetcher is not at work.
Idle(f) == fetcher[f].st \in {"off", "ended"}

\* Only fetchers of the generations created so far have been started.
Created ==
    \A f \in Fetchers : fetcher[f].st # "off" => f[1] <= gen /\ f[2] \in genNodes[f[1]]

\* How the flags of the runner, the manager and stop() go together.
Lifecycle ==
    /\ mode = "managed" <=> manager # "off"
    /\ running <=> stopCall = "none"
    /\ mode \in {"exited", "crashed"} => ~running
    /\ ~consuming => mode \in {"exited", "crashed"}
    /\ stopCall = "stopped" => ~consuming

\* While the runner runs, old fetchers are idle, and those of the current
\* generation are at work only under a manager that will hear of their end.
RunningFetchers ==
    running =>
      /\ \A f \in Fetchers : f[1] < gen => Idle(f)
      /\ mode # "managed" => \A f \in Fetchers : Idle(f)
      /\ manager = "running" => \A f \in Fetchers : Idle(f) \/ fetcher[f].isRunning
      /\ manager = "stopping" => \A f \in Fetchers : Idle(f) \/ f \in awaitEnd

\* Once the runner was stopped no fetch that returns is pushed any more.
StoppedFetchers ==
    ~running => \A f \in Fetchers : fetcher[f].st = "fetching" => ~fetcher[f].isRunning

\* After stop() somebody awaits every fetcher with a handler at work: the call
\* of stop(), or the manager that was replacing its fetchers when it came.
LiveAwaited ==
    ~running => \A w \in Workers : worker[w] # None /\ worker[w].live =>
      \/ stopCall = "fetchers" /\ worker[w].f \in stopAwaits
      \/ manager = "stopping" /\ worker[w].f \in awaitEnd

\* The inductive invariant of the fetch loop.
FetchInv ==
    /\ TypeOK
    /\ Apart(queue, worker) /\ Awaited(queue, worker, fetcher)
    /\ Owned /\ Created /\ Lifecycle
    /\ RunningFetchers /\ StoppedFetchers /\ LiveAwaited

-----------------------------------------------------------------------------
(***************************************************************************)
(* The worker queue                                                        *)
(***************************************************************************)

\* The k-th idle worker takes the k-th batch: no two workers take the same one,
\* and none is taken that stays in the queue.
LEMMA WorkersTakeInTurn ==
    ASSUME NEW q \in Seq(Batch), WorkersTake(q)
    PROVE  \E c \in Nat, k \in [Workers -> Nat] :
             /\ queue' = SubSeq(q, c + 1, Len(q))
             /\ \A w \in Workers :
                  \/ worker'[w] = worker[w]
                  \/ /\ worker[w] = None
                     /\ k[w] \in 1..c /\ k[w] \in 1..Len(q)
                     /\ worker'[w] = Item(q[k[w]])
             /\ \A v, w \in Workers :
                  v # w /\ worker[v] = None /\ worker[w] = None => k[v] # k[w]
<1> DEFINE idle(w) == {v \in 1..w : worker[v] = None}
           k == [w \in Workers |-> Cardinality(idle(w))]
           taken == {w \in Workers : worker[w] = None /\ k[w] <= Len(q)}
<1>1. Concurrency \in Nat
  BY FetchManagerAssumption
<1>2. \A w \in Workers : IsFiniteSet(idle(w)) /\ k[w] \in Nat
  <2> SUFFICES ASSUME NEW w \in Workers PROVE IsFiniteSet(idle(w)) /\ k[w] \in Nat
    OBVIOUS
  <2>1. IsFiniteSet(1..w)
    BY FS_Interval, <1>1 DEF Workers
  <2>2. IsFiniteSet(idle(w))
    BY <2>1, FS_Subset
  <2> QED BY <2>2, FS_CardinalityType
<1>3. ASSUME NEW v \in Workers, NEW w \in Workers, v < w, worker[w] = None
      PROVE  k[v] < k[w]
  <2>1. w \in idle(w) /\ w \notin idle(v) /\ idle(v) \cup {w} \subseteq idle(w)
    BY <1>1, <1>3 DEF Workers
  <2>2. Cardinality(idle(v) \cup {w}) = Cardinality(idle(v)) + 1
    BY <1>2, <2>1, FS_AddElement
  <2>3. Cardinality(idle(v) \cup {w}) <= Cardinality(idle(w))
    BY <1>2, <2>1, FS_Subset
  <2> HIDE DEF idle
  <2> QED BY <1>2, <2>2, <2>3
<1>4. IsFiniteSet(taken) /\ Cardinality(taken) \in Nat
  <2>1. IsFiniteSet(Workers)
    BY FS_Interval, <1>1 DEF Workers
  <2>2. IsFiniteSet(taken)
    BY <2>1, FS_Subset
  <2> QED BY <2>2, FS_CardinalityType
<1>5. ASSUME NEW w \in taken
      PROVE  k[w] \in 1..Cardinality(taken) /\ k[w] \in 1..Len(q)
  <2>1. idle(w) \subseteq taken
    <3> SUFFICES ASSUME NEW v \in idle(w), v # w PROVE v \in taken
      OBVIOUS
    <3>1. v \in Workers /\ v < w /\ worker[v] = None
      BY <1>1 DEF Workers
    <3>2. k[v] < k[w]
      BY <1>3, <3>1
    <3>3. k[v] \in Nat /\ k[w] \in Nat /\ k[w] <= Len(q)
      BY <1>2, <3>1
    <3>4. k[v] <= Len(q)
      <4> HIDE DEF k
      <4> QED BY <3>2, <3>3
    <3> QED BY <3>1, <3>4
  <2>2. k[w] <= Cardinality(taken)
    BY <1>4, <2>1, FS_Subset
  <2>3. k[w] # 0
    <3>1. w \in idle(w)
      BY <1>1 DEF Workers
    <3> QED BY <1>2, <3>1, FS_EmptySet
  <2>4. k[w] \in Nat /\ k[w] <= Len(q)
    BY <1>2
  <2> HIDE DEF k, taken, idle
  <2> QED BY <1>4, <2>2, <2>3, <2>4
<1>6. /\ worker' = [w \in Workers |-> IF w \in taken THEN Item(q[k[w]]) ELSE worker[w]]
      /\ queue' = SubSeq(q, Cardinality(taken) + 1, Len(q))
  BY DEF WorkersTake
<1>7. \A v, w \in Workers : v # w /\ worker[v] = None /\ worker[w] = None => k[v] # k[w]
  <2> SUFFICES ASSUME NEW v \in Workers, NEW w \in Workers, v # w,
                      worker[v] = None, worker[w] = None
               PROVE  k[v] # k[w]
    OBVIOUS
  <2>1. v < w \/ w < v
    BY <1>1 DEF Workers
  <2>2. k[v] < k[w] \/ k[w] < k[v]
    BY <1>3, <2>1
  <2>3. k[v] \in Nat /\ k[w] \in Nat
    BY <1>2
  <2> HIDE DEF k
  <2> QED BY <2>2, <2>3
<1>8. k \in [Workers -> Nat]
  BY <1>2
<1>9. \A w \in Workers : w \in taken => worker[w] = None
  OBVIOUS
<1> HIDE DEF k, taken
<1>10. \A w \in Workers :
         \/ worker'[w] = worker[w]
         \/ /\ worker[w] = None
            /\ k[w] \in 1..Cardinality(taken) /\ k[w] \in 1..Len(q)
            /\ worker'[w] = Item(q[k[w]])
  BY <1>5, <1>6, <1>9
<1> QED BY <1>4, <1>6, <1>7, <1>8, <1>10

\* Handing batches to the idle workers neither doubles nor invents one.
LEMMA WorkersTakeKeepsApart ==
    ASSUME worker \in [Workers -> WorkerItem \cup {None}], running \in BOOLEAN,
           NEW q \in Seq(Batch), WorkersTake(q),
           NEW fe, Apart(q, worker), Awaited(q, worker, fe)
    PROVE  /\ queue' \in Seq(Batch)
           /\ worker' \in [Workers -> WorkerItem \cup {None}]
           /\ Apart(queue', worker') /\ Awaited(queue', worker', fe)
           /\ \A w \in Workers : worker'[w] # None /\ worker'[w].live
                => (worker[w] # None /\ worker'[w] = worker[w]) \/ running
<1>1. PICK c \in Nat, k \in [Workers -> Nat] :
        /\ queue' = SubSeq(q, c + 1, Len(q))
        /\ \A w \in Workers :
             \/ worker'[w] = worker[w]
             \/ /\ worker[w] = None
                /\ k[w] \in 1..c /\ k[w] \in 1..Len(q)
                /\ worker'[w] = Item(q[k[w]])
        /\ \A v, w \in Workers :
             v # w /\ worker[v] = None /\ worker[w] = None => k[v] # k[w]
  BY WorkersTakeInTurn
<1>2. /\ queue' \in Seq(Batch)
      /\ \A i \in 1..Len(queue') : /\ i + c \in 1..Len(q) /\ i + c > c
                                   /\ queue'[i] = q[i + c]
  BY <1>1
<1>3. \A i \in 1..Len(q) : /\ q[i] \in Batch
                           /\ Item(q[i]) \in WorkerItem
                           /\ Item(q[i]).f = q[i].f /\ Item(q[i]).p = q[i].p
                           /\ Item(q[i]).live = running
                           /\ Item(q[i]) # None
  <2> SUFFICES ASSUME NEW i \in 1..Len(q)
               PROVE  /\ q[i] \in Batch
                      /\ Item(q[i]) \in WorkerItem
                      /\ Item(q[i]).f = q[i].f /\ Item(q[i]).p = q[i].p
                      /\ Item(q[i]).live = running
                      /\ Item(q[i]) # None
    OBVIOUS
  <2>1. q[i] \in Batch
    OBVIOUS
  <2>2. Item(q[i]).f = q[i].f /\ Item(q[i]).p = q[i].p /\ Item(q[i]).live = running
    BY DEF Item
  <2>3. q[i].f \in Fetchers /\ q[i].p \in Partitions
    BY <2>1 DEF Batch
  <2>4. Item(q[i]) \in WorkerItem
    BY <2>3, Zenon DEF Item, WorkerItem
  <2> QED BY <2>1, <2>2, <2>4, FetchManagerAssumption
<1>4. worker' \in [Workers -> WorkerItem \cup {None}]
  <2>1. worker' = [w \in Workers |-> worker'[w]]
    BY DEF WorkersTake
  <2> QED BY <1>1, <1>3, <2>1
<1>5. \A w \in Workers : worker'[w] # worker[w] =>
        /\ worker[w] = None
        /\ k[w] \in 1..c /\ k[w] \in 1..Len(q)
        /\ SameBatch(q[k[w]], worker'[w])
  BY <1>1, <1>3 DEF SameBatch
<1>6. Apart(queue', worker')
  <2>1. \A i, j \in 1..Len(queue') : i # j => ~SameBatch(queue'[i], queue'[j])
    <3> SUFFICES ASSUME NEW i \in 1..Len(queue'), NEW j \in 1..Len(queue'), i # j
                 PROVE  ~SameBatch(queue'[i], queue'[j])
      OBVIOUS
    <3>1. i + c # j + c /\ queue'[i] = q[i + c] /\ queue'[j] = q[j + c]
      BY <1>2
    <3> QED BY <1>2, <3>1 DEF Apart
  <2>2. ASSUME NEW v \in Workers, NEW w \in Workers, v # w,
               worker'[v] # None, worker'[w] # None
        PROVE  ~SameBatch(worker'[v], worker'[w])
    <3>1. CASE worker'[v] = worker[v] /\ worker'[w] = worker[w]
      BY <2>2, <3>1 DEF Apart
    <3>2. CASE worker'[v] # worker[v] /\ worker'[w] = worker[w]
      BY <1>5, <2>2, <3>2 DEF Apart, SameBatch
    <3>3. CASE worker'[v] = worker[v] /\ worker'[w] # worker[w]
      BY <1>5, <2>2, <3>3 DEF Apart, SameBatch
    <3>4. CASE worker'[v] # worker[v] /\ worker'[w] # worker[w]
      <4>1. k[v] # k[w]
        BY <1>1, <1>5, <2>2, <3>4
      <4>2. /\ k[v] \in 1..Len(q) /\ SameBatch(q[k[v]], worker'[v])
            /\ k[w] \in 1..Len(q) /\ SameBatch(q[k[w]], worker'[w])
        BY <1>5, <3>4
      <4>3. ~SameBatch(q[k[v]], q[k[w]])
        BY <4>1, <4>2 DEF Apart
      <4> QED BY <4>2, <4>3 DEF SameBatch
    <3> QED BY <3>1, <3>2, <3>3, <3>4
  <2>3. ASSUME NEW i \in 1..Len(queue'), NEW w \in Workers, worker'[w] # None
        PROVE  ~SameBatch(queue'[i], worker'[w])
    <3>1. i + c \in 1..Len(q) /\ i + c > c /\ queue'[i] = q[i + c]
      BY <1>2
    <3>2. CASE worker'[w] = worker[w]
      BY <2>3, <3>1, <3>2 DEF Apart
    <3>3. CASE worker'[w] # worker[w]
      <4>1. k[w] \in 1..Len(q) /\ k[w] # i + c /\ SameBatch(q[k[w]], worker'[w])
        BY <1>5, <2>3, <3>1, <3>3
      <4> QED BY <3>1, <4>1 DEF Apart, SameBatch
    <3> QED BY <3>2, <3>3
  <2> QED BY <2>1, <2>2, <2>3 DEF Apart
<1>7. Awaited(queue', worker', fe)
  <2>1. \A i \in 1..Len(queue') : queue'[i].p \in fe[queue'[i].f].left
    BY <1>2 DEF Awaited
  <2>2. ASSUME NEW w \in Workers, worker'[w] # None
        PROVE  worker'[w].p \in fe[worker'[w].f].left
    BY <1>5, <2>2 DEF Awaited, SameBatch
  <2> QED BY <2>1, <2>2 DEF Awaited
<1>8. \A w \in Workers : worker'[w] # None /\ worker'[w].live
        => (worker[w] # None /\ worker'[w] = worker[w]) \/ running
  BY <1>1, <1>3
<1> QED BY <1>2, <1>4, <1>6, <1>7, <1>8

-----------------------------------------------------------------------------
(***************************************************************************)
(* Fetchers and workers                                                    *)
(***************************************************************************)

\* What the type invariant says of the record of one fetcher.
FetcherOK(r) ==
    /\ r \in [st : FetcherState, isRunning : BOOLEAN, pushed : SUBSET Partitions,
              left : SUBSET Partitions, failed : BOOLEAN]
    /\ r.left \subseteq r.pushed
    /\ r.st # "pushing" => r.pushed = {} /\ ~r.failed
    /\ r.st \in {"off", "ended"} => ~r.isRunning

\* The batches in the queue and with the workers are of fetchers.
LEMMA BatchesOfFetchers ==
    ASSUME TypeOK
    PROVE  /\ \A i \in 1..Len(queue) : queue[i].f \in Fetchers /\ queue[i].p \in Partitions
           /\ \A w \in Workers : worker[w] # None
                => worker[w].f \in Fetchers /\ worker[w].p \in Partitions
<1>1. queue \in Seq(Batch)
  BY DEF TypeOK
<1>2. \A i \in 1..Len(queue) : queue[i] \in Batch
  BY <1>1
<1>3. \A w \in Workers : worker[w] # None => worker[w] \in WorkerItem
  BY DEF TypeOK
<1> QED BY <1>2, <1>3 DEF Batch, WorkerItem

\* The numbers of the generations can be compared.
LEMMA GenerationsAreNat ==
    ASSUME TypeOK
    PROVE  gen \in Nat /\ \A f \in Fetchers : f[1] \in Nat
BY FetchManagerAssumption DEF Fetchers, Generations, TypeOK

\* At the head of its loop a fetcher that holds no batch ends or fetches again,
\* and it fetches only for a runner that is running.
LEMMA IterationOK ==
    ASSUME NEW f, NEW r, FetcherOK(r), running \in BOOLEAN, r.pushed = {}, ~r.failed
    PROVE  /\ FetcherOK(NextIteration(f, r))
           /\ NextIteration(f, r).left = {} /\ NextIteration(f, r).pushed = {}
           /\ NextIteration(f, r).st \in {"fetching", "skipping", "ended"}
           /\ NextIteration(f, r).st = "ended" \/ NextIteration(f, r).isRunning
           /\ NextIteration(f, r).st = "fetching" => running
<1> USE DEF FetcherOK, FetcherState
<1>1. r.left = {}
  OBVIOUS
<1>2. CASE ~r.isRunning \/ ShouldRebalance(f[1])
  <2>1. NextIteration(f, r) = [r EXCEPT !.st = "ended", !.isRunning = FALSE]
    BY <1>2 DEF NextIteration, EndedFetcher
  <2> QED BY <1>1, <2>1
<1>3. CASE r.isRunning /\ ~ShouldRebalance(f[1])
  <2>1. NextIteration(f, r) = [r EXCEPT !.st = IF running THEN "fetching" ELSE "skipping"]
    BY <1>3 DEF NextIteration
  <2> QED BY <1>1, <1>3, <2>1
<1> QED BY <1>2, <1>3

\* The error an iteration or a failure leaves with the manager is one the
\* manager knows.
LEMMA CaughtOK ==
    ASSUME TypeOK, NEW f, NEW e, e \in ErrorKind \cup {"none", "fetchers"}, Caught(f, e)
    PROVE  error' \in ErrorKind \cup {"none", "fetchers"}
BY DEF Caught, TypeOK

\* A fetcher that has nothing outstanding goes on or ends.
LEMMA FetcherGoesOnInv ==
    ASSUME FetchInv, NEW f \in Fetchers, NEW r, FetcherOK(r),
           ~Idle(f), fetcher[f].left = {},
           r.pushed = {}, r.left = {}, r.st \in {"fetching", "skipping", "ended"},
           r.st = "ended" \/ r.isRunning,
           r.st = "fetching" => running,
           fetcher' = [fetcher EXCEPT ![f] = r],
           assigned' \in {assigned, Released(f)},
           error' \in ErrorKind \cup {"none", "fetchers"}, errors' \in 0..MaxErrors,
           UNCHANGED <<nodeIds, gen, genNodes, queue, worker, manager, awaitEnd,
                       runnerVars, stopVars, changes>>
    PROVE  FetchInv'
<1> USE DEF FetchInv, runnerVars, stopVars
<1>1. /\ \A g \in Fetchers : fetcher'[g] = IF g = f THEN r ELSE fetcher[g]
      /\ fetcher' \in [Fetchers -> [st : FetcherState, isRunning : BOOLEAN,
                                    pushed : SUBSET Partitions,
                                    left : SUBSET Partitions, failed : BOOLEAN]]
  BY DEF TypeOK, FetcherOK
<1>2. \A g \in Fetchers : g[1] \in Generations /\ g[2] \in Nodes
  BY DEF Fetchers
<1>3. \A g \in Fetchers : g[1] = f[1] /\ g[2] = f[2] => g = f
  BY DEF Fetchers
<1>4. assigned' \in [Generations -> [Partitions -> Nodes \cup {None}]]
  BY <1>2 DEF TypeOK, Released
<1>5. TypeOK'
  BY <1>1, <1>4 DEF TypeOK, FetcherOK
<1>6. Apart(queue, worker)'
  BY DEF Apart
<1>7. Awaited(queue, worker, fetcher)'
  BY <1>1 DEF Awaited, TypeOK, Batch, WorkerItem
<1>8. Owned'
  <2>1. ASSUME NEW g \in Fetchers, NEW p \in fetcher'[g].pushed
        PROVE  assigned'[g[1]][p] = g[2]
    <3>1. g # f /\ p \in fetcher[g].pushed /\ p \in Partitions
      BY <1>1, <2>1 DEF TypeOK
    <3>2. assigned[g[1]][p] = g[2]
      BY <3>1 DEF Owned
    <3>3. CASE assigned' = assigned
      BY <3>2, <3>3
    <3>4. CASE assigned' = Released(f) /\ g[1] # f[1]
      BY <1>2, <3>2, <3>4 DEF Released, TypeOK
    <3>5. CASE assigned' = Released(f) /\ g[1] = f[1]
      <4>1. p \notin fetcher[f].pushed
        BY <1>3, <3>1, <3>2, <3>5 DEF Owned
      <4>2. assigned'[g[1]][p] = assigned[g[1]][p]
        BY <1>2, <3>1, <3>5, <4>1 DEF Released, TypeOK
      <4> QED BY <3>2, <4>2
    <3> QED BY <3>3, <3>4, <3>5
  <2> QED BY <1>1, <2>1 DEF Owned
<1>9. Created'
  BY <1>1 DEF Created, Idle
<1>10. Lifecycle'
  BY DEF Lifecycle
<1>11. RunningFetchers' /\ StoppedFetchers' /\ LiveAwaited'
  BY <1>1 DEF RunningFetchers, StoppedFetchers, LiveAwaited, Idle
<1> QED BY <1>5, <1>6, <1>7, <1>8, <1>9, <1>10, <1>11

\* A fetch returns batches that nobody holds: they are pushed and assigned.
LEMMA PushInv ==
    ASSUME FetchInv, NEW f \in Fetchers, NEW S \in SUBSET Partitions,
           FetchReturns(f, S),
           fetcher[f].isRunning, AvailablePartitions(f, S) # {}
    PROVE  FetchInv'
<1> DEFINE available == AvailablePartitions(f, S)
<1> USE DEF FetchInv, runnerVars, stopVars, bounds
<1>1. /\ fetcher[f].st = "fetching" /\ available \subseteq Partitions
      /\ fetcher' = [fetcher EXCEPT ![f].st = "pushing", ![f].pushed = available,
                                    ![f].left = available]
      /\ assigned' = [assigned EXCEPT ![f[1]] = [p \in Partitions |->
                        IF p \in available THEN f[2] ELSE @[p]]]
      /\ UNCHANGED <<nodeIds, gen, genNodes, manager, awaitEnd, running, consuming,
                     mode, stopCall, stopAwaits, changes, errors, error>>
  BY DEF FetchReturns, AvailablePartitions
<1>2. PICK s \in Orders(f, available) : WorkersTake(queue \o s)
  BY DEF FetchReturns
<1>3. f \in Generations \X Nodes /\ f[1] \in Generations /\ f[2] \in Nodes
  BY DEF Fetchers
<1>4. running /\ f[1] = gen /\ \A g \in Fetchers : g[1] # gen => Idle(g)
  <2>1. running
    BY <1>1 DEF StoppedFetchers
  <2>2. ~Idle(f) /\ fetcher[f].st # "off"
    BY <1>1 DEF Idle
  <2>3. \A g \in Fetchers : g[1] \in Nat /\ gen \in Nat
    BY FetchManagerAssumption DEF Fetchers, Generations, TypeOK
  <2>4. f[1] = gen
    BY <2>1, <2>2, <2>3 DEF RunningFetchers, Created
  <2>5. \A g \in Fetchers : g[1] # gen => g[1] < gen \/ fetcher[g].st = "off"
    BY <2>3 DEF Created
  <2> QED BY <2>1, <2>4, <2>5 DEF RunningFetchers, Idle
<1>5. fetcher[f].pushed = {} /\ fetcher[f].left = {} /\ ~fetcher[f].failed
  BY <1>1 DEF TypeOK
<1>6. /\ \A g \in Fetchers : g # f => fetcher'[g] = fetcher[g]
      /\ fetcher'[f].st = "pushing"
      /\ fetcher'[f].pushed = available /\ fetcher'[f].left = available
      /\ fetcher'[f].isRunning = fetcher[f].isRunning
      /\ fetcher'[f].failed = fetcher[f].failed
      /\ fetcher' \in [Fetchers -> [st : FetcherState, isRunning : BOOLEAN,
                                    pushed : SUBSET Partitions,
                                    left : SUBSET Partitions, failed : BOOLEAN]]
  BY <1>1 DEF TypeOK, FetcherState
<1>7. /\ assigned' \in [Generations -> [Partitions -> Nodes \cup {None}]]
      /\ \A g \in Generations, p \in Partitions :
           assigned'[g][p] = IF g = f[1] /\ p \in available THEN f[2] ELSE assigned[g][p]
  BY <1>1, <1>3 DEF TypeOK
<1>8. /\ s \in Seq(Batch) /\ Len(s) = Cardinality(available)
      /\ \A i \in 1..Len(s) : s[i].f = f /\ s[i].p \in available
      /\ \A i, j \in 1..Len(s) : i # j => s[i].p # s[j].p
  <2>1. IsFiniteSet(available) /\ Cardinality(available) \in Nat
    BY <1>1, FetchManagerAssumption, FS_Subset, FS_CardinalityType
  <2>2. /\ s \in [1..Cardinality(available) -> {[f |-> f, p |-> p] : p \in available}]
        /\ \A i, j \in 1..Cardinality(available) : i # j => s[i] # s[j]
    BY <1>2 DEF Orders
  <2> HIDE DEF available
  <2>3. \A i \in 1..Cardinality(available) :
          \E p \in available : s[i] = [f |-> f, p |-> p]
    BY <2>2
  <2>4. \A i \in 1..Cardinality(available) : /\ s[i].f = f /\ s[i].p \in available
                                             /\ s[i] = [f |-> f, p |-> s[i].p]
    <3> SUFFICES ASSUME NEW i \in 1..Cardinality(available)
                 PROVE  /\ s[i].f = f /\ s[i].p \in available
                        /\ s[i] = [f |-> f, p |-> s[i].p]
      OBVIOUS
    <3>1. PICK p \in available : s[i] = [f |-> f, p |-> p]
      BY <2>3
    <3> QED BY <3>1
  <2>5. s \in [1..Cardinality(available) -> Batch]
    BY <1>1, <2>2, <2>4 DEF Batch
  <2>6. s \in Seq(Batch) /\ Len(s) = Cardinality(available)
    BY <2>1, <2>5
  <2> QED BY <2>2, <2>4, <2>6
<1> DEFINE q == queue \o s
<1>9. /\ q \in Seq(Batch) /\ Len(q) = Len(queue) + Len(s)
      /\ Len(queue) \in Nat /\ Len(s) \in Nat
      /\ \A i \in 1..Len(queue) : q[i] = queue[i]
      /\ \A i \in 1..Len(q) : i > Len(queue) =>
           i - Len(queue) \in 1..Len(s) /\ q[i] = s[i - Len(queue)]
  <2>1. queue \in Seq(Batch) /\ s \in Seq(Batch)
    BY <1>8 DEF TypeOK
  <2> QED BY <2>1
<1>10. /\ \A i \in 1..Len(queue) : queue[i].f # f /\ queue[i].f \in Fetchers
       /\ \A w \in Workers : worker[w] # None => worker[w].f # f /\ worker[w].f \in Fetchers
  BY <1>5, BatchesOfFetchers DEF Awaited
<1> HIDE DEF q, available
<1>11. Apart(q, worker)
  <2>1. ASSUME NEW i \in 1..Len(q), NEW j \in 1..Len(q), i # j
        PROVE  ~SameBatch(q[i], q[j])
    <3>1. CASE i \in 1..Len(queue) /\ j \in 1..Len(queue)
      BY <1>9, <2>1, <3>1 DEF Apart
    <3>2. CASE i > Len(queue) /\ j > Len(queue)
      <4>1. i - Len(queue) # j - Len(queue)
        BY <1>9, <2>1
      <4> QED BY <1>8, <1>9, <3>2, <4>1 DEF SameBatch
    <3>3. CASE i > Len(queue) /\ j \in 1..Len(queue)
      BY <1>8, <1>9, <1>10, <3>3 DEF SameBatch
    <3>4. CASE i \in 1..Len(queue) /\ j > Len(queue)
      BY <1>8, <1>9, <1>10, <3>4 DEF SameBatch
    <3> QED BY <1>9, <3>1, <3>2, <3>3, <3>4
  <2>2. ASSUME NEW i \in 1..Len(q), NEW w \in Workers, worker[w] # None
        PROVE  ~SameBatch(q[i], worker[w])
    <3>1. CASE i \in 1..Len(queue)
      BY <1>9, <2>2, <3>1 DEF Apart
    <3>2. CASE i > Len(queue)
      BY <1>8, <1>9, <1>10, <2>2, <3>2 DEF SameBatch
    <3> QED BY <1>9, <3>1, <3>2
  <2> QED BY <2>1, <2>2 DEF Apart
<1>12. Awaited(q, worker, fetcher')
  <2>1. ASSUME NEW i \in 1..Len(q) PROVE q[i].p \in fetcher'[q[i].f].left
    <3>1. CASE i \in 1..Len(queue)
      BY <1>6, <1>9, <1>10, <3>1 DEF Awaited
    <3>2. CASE i > Len(queue)
      BY <1>6, <1>8, <1>9, <3>2
    <3> QED BY <1>9, <3>1, <3>2
  <2> QED BY <1>6, <1>10, <2>1 DEF Awaited
<1>13. /\ queue' \in Seq(Batch)
       /\ worker' \in [Workers -> WorkerItem \cup {None}]
       /\ Apart(queue', worker') /\ Awaited(queue', worker', fetcher')
  <2>1. worker \in [Workers -> WorkerItem \cup {None}] /\ running \in BOOLEAN
    BY DEF TypeOK
  <2>2. WorkersTake(q)
    BY <1>2 DEF q
  <2> QED BY <1>9, <1>11, <1>12, <2>1, <2>2, WorkersTakeKeepsApart
<1>14. TypeOK'
  BY <1>1, <1>5, <1>6, <1>7, <1>13 DEF TypeOK
<1>15. Owned'
  <2>1. ASSUME NEW g \in Fetchers, NEW p \in fetcher'[g].pushed
        PROVE  assigned'[g[1]][p] = g[2]
    <3>1. g[1] \in Generations /\ p \in Partitions
      BY <1>6 DEF Fetchers
    <3>2. CASE g = f
      BY <1>6, <1>7, <3>1, <3>2
    <3>3. CASE g # f
      <4>1. p \in fetcher[g].pushed /\ assigned[g[1]][p] = g[2] /\ g[2] # None
        BY <1>6, <3>3, FetchManagerAssumption DEF Owned, Fetchers
      <4>2. g[1] = f[1] => g[2] # f[2]
        BY <1>3, <3>3 DEF Fetchers
      <4>3. ~(g[1] = f[1] /\ p \in available)
        BY <4>1, <4>2 DEF available, AvailablePartitions
      <4> QED BY <1>7, <3>1, <4>1, <4>3
    <3> QED BY <3>2, <3>3
  <2>2. \A g \in Fetchers : fetcher'[g].left # {} => g[1] = gen
    BY <1>4, <1>6 DEF Idle, TypeOK
  <2> QED BY <2>1, <2>2 DEF Owned
<1>16. Created' /\ Lifecycle'
  BY <1>1, <1>6 DEF Created, Lifecycle
<1>17. RunningFetchers'
  BY <1>1, <1>6 DEF RunningFetchers, Idle
<1>18. StoppedFetchers' /\ LiveAwaited'
  BY <1>1, <1>4 DEF StoppedFetchers, LiveAwaited
<1> QED BY <1>13, <1>14, <1>15, <1>16, <1>17, <1>18

\* Every step of a fetcher keeps the invariant.
LEMMA FetcherStepInv ==
    ASSUME FetchInv, NEW f \in Fetchers, FetcherStep(f)
    PROVE  FetchInv'
<1> USE DEF FetchInv, bounds
<1>1. FetcherOK(fetcher[f]) /\ running \in BOOLEAN /\ errors \in 0..MaxErrors
  BY DEF TypeOK, FetcherOK
<1>2. ASSUME NEW S \in SUBSET Partitions, FetchReturns(f, S),
             ~(fetcher[f].isRunning /\ AvailablePartitions(f, S) # {})
      PROVE  FetchInv'
  <2> DEFINE r == NextIteration(f, fetcher[f])
  <2>1. /\ fetcher[f].st \in {"fetching", "skipping"}
        /\ fetcher' = [fetcher EXCEPT ![f] = r]
        /\ Caught(f, IterationError(f, fetcher[f]))
        /\ UNCHANGED <<assigned, queue, worker, nodeIds, gen, genNodes, manager,
                       awaitEnd, runnerVars, stopVars, changes, errors>>
    BY <1>2 DEF FetchReturns, LoopAgain
  <2>2. fetcher[f].pushed = {} /\ fetcher[f].left = {} /\ ~fetcher[f].failed
    BY <1>1, <2>1 DEF FetcherOK
  <2>3. error' \in ErrorKind \cup {"none", "fetchers"}
    <3>1. IterationError(f, fetcher[f]) \in ErrorKind \cup {"none", "fetchers"}
      BY DEF IterationError
    <3> QED BY <2>1, <3>1, CaughtOK
  <2>4. ~Idle(f)
    BY <2>1 DEF Idle
  <2>5. /\ FetcherOK(r) /\ r.left = {} /\ r.pushed = {}
        /\ r.st \in {"fetching", "skipping", "ended"}
        /\ r.st = "ended" \/ r.isRunning
        /\ r.st = "fetching" => running
    BY <1>1, <2>2, IterationOK
  <2> HIDE DEF r
  <2> QED BY <1>1, <2>1, <2>2, <2>3, <2>4, <2>5, FetcherGoesOnInv
<1>3. ASSUME NEW kind \in ErrorKind, FetchFails(f, kind)
      PROVE  FetchInv'
  <2> DEFINE r == EndedFetcher(fetcher[f])
  <2>1. /\ fetcher[f].st = "fetching"
        /\ fetcher' = [fetcher EXCEPT ![f] = r]
        /\ Caught(f, kind)
        /\ errors < MaxErrors /\ errors' = errors + 1
        /\ UNCHANGED <<assigned, queue, worker, nodeIds, gen, genNodes, manager,
                       awaitEnd, runnerVars, stopVars, changes>>
    BY <1>3 DEF FetchFails
  <2>2. errors' \in 0..MaxErrors /\ error' \in ErrorKind \cup {"none", "fetchers"}
    BY <1>1, <2>1, CaughtOK, FetchManagerAssumption
  <2>3. ~Idle(f) /\ fetcher[f].left = {}
    BY <1>1, <2>1 DEF Idle, FetcherOK
  <2>4. FetcherOK(r) /\ r.left = {} /\ r.pushed = {} /\ r.st = "ended"
    BY <1>1, <2>1 DEF EndedFetcher, FetcherOK, FetcherState
  <2> HIDE DEF r
  <2> QED BY <2>1, <2>2, <2>3, <2>4, FetcherGoesOnInv
<1>4. ASSUME NEW kind \in ErrorKind, PushSettles(f, kind)
      PROVE  FetchInv'
  <2> DEFINE r == [fetcher[f] EXCEPT !.pushed = {}, !.failed = FALSE]
             e == EndedFetcher(r)
             n == NextIteration(f, r)
  <2>1. /\ fetcher[f].st = "pushing" /\ fetcher[f].left = {}
        /\ assigned' = Released(f)
        /\ UNCHANGED <<queue, worker, nodeIds, gen, genNodes, manager,
                       awaitEnd, runnerVars, stopVars, changes, errors>>
        /\ \/ fetcher' = [fetcher EXCEPT ![f] = e] /\ Caught(f, kind)
           \/ fetcher' = [fetcher EXCEPT ![f] = n] /\ Caught(f, IterationError(f, r))
    BY <1>4 DEF PushSettles, LoopAgain
  <2>2. error' \in ErrorKind \cup {"none", "fetchers"}
    <3>1. IterationError(f, r) \in ErrorKind \cup {"none", "fetchers"}
      BY DEF IterationError
    <3> QED BY <2>1, <3>1, CaughtOK
  <2>3. /\ r \in [st : FetcherState, isRunning : BOOLEAN, pushed : SUBSET Partitions,
                  left : SUBSET Partitions, failed : BOOLEAN]
        /\ r.left = {} /\ r.pushed = {} /\ r.failed = FALSE /\ r.st = "pushing"
    BY <1>1, <2>1 DEF FetcherOK
  <2>4. FetcherOK(r)
    BY <2>3 DEF FetcherOK
  <2>5. ~Idle(f)
    BY <2>1 DEF Idle
  <2> HIDE DEF r
  <2>6. FetcherOK(e) /\ e.left = {} /\ e.pushed = {} /\ e.st = "ended"
    BY <2>3 DEF EndedFetcher, FetcherOK, FetcherState
  <2>7. /\ FetcherOK(n) /\ n.left = {} /\ n.pushed = {}
        /\ n.st \in {"fetching", "skipping", "ended"}
        /\ n.st = "ended" \/ n.isRunning
        /\ n.st = "fetching" => running
    BY <1>1, <2>3, <2>4, IterationOK
  <2> HIDE DEF e, n
  <2> QED BY <1>1, <2>1, <2>2, <2>5, <2>6, <2>7, FetcherGoesOnInv
<1> QED BY <1>2, <1>3, <1>4, PushInv DEF FetcherStep

\* A handler returns or throws, and its worker takes the next batch: only the
\* batch of that worker is settled.
LEMMA HandlerEndsInv ==
    ASSUME FetchInv, NEW w \in Workers, NEW ok \in BOOLEAN, HandlerEnds(w, ok)
    PROVE  FetchInv'
<1> DEFINE item == worker[w]
           g == item.f
<1> USE DEF FetchInv, runnerVars, stopVars, managerVars
<1>1. /\ item # None /\ item \in WorkerItem
      /\ g \in Fetchers /\ item.p \in Partitions
      /\ item.p \in fetcher[g].left
  <2>1. item # None /\ item \in WorkerItem
    BY DEF HandlerEnds, TypeOK
  <2> QED BY <2>1 DEF WorkerItem, Awaited
<1>2. /\ fetcher' = [fetcher EXCEPT ![g] = Settle(@, item.p, ok)]
      /\ UNCHANGED <<nodeIds, gen, genNodes, assigned, manager, error, awaitEnd,
                     running, consuming, mode, stopCall, stopAwaits, changes>>
      /\ errors' \in 0..MaxErrors
  BY FetchManagerAssumption DEF HandlerEnds, TypeOK
<1>3. /\ \A f \in Fetchers : f # g => fetcher'[f] = fetcher[f]
      /\ fetcher'[g].left = fetcher[g].left \ {item.p}
      /\ fetcher'[g].pushed = fetcher[g].pushed
      /\ fetcher'[g].st = fetcher[g].st
      /\ fetcher'[g].isRunning = fetcher[g].isRunning
      /\ fetcher' \in [Fetchers -> [st : FetcherState, isRunning : BOOLEAN,
                                    pushed : SUBSET Partitions,
                                    left : SUBSET Partitions, failed : BOOLEAN]]
  <2> DEFINE R == [st : FetcherState, isRunning : BOOLEAN, pushed : SUBSET Partitions,
                   left : SUBSET Partitions, failed : BOOLEAN]
             failed == fetcher[g].failed \/ ~ok
             r == [fetcher[g] EXCEPT !.left = @ \ {item.p}, !.failed = failed]
  <2>1. fetcher \in [Fetchers -> R] /\ fetcher[g] \in R
    BY <1>1 DEF TypeOK
  <2>2. fetcher' = [fetcher EXCEPT ![g] = r]
    BY <1>2, Zenon DEF Settle
  <2>3. failed \in BOOLEAN
    OBVIOUS
  <2> HIDE DEF failed
  <2>4. /\ r \in R /\ r.left = fetcher[g].left \ {item.p} /\ r.pushed = fetcher[g].pushed
        /\ r.st = fetcher[g].st /\ r.isRunning = fetcher[g].isRunning
    BY <2>1, <2>3
  <2> HIDE DEF r, R
  <2>5. fetcher'[g] = r /\ fetcher' \in [Fetchers -> R]
    BY <1>1, <2>1, <2>2, <2>4
  <2>6. \A f \in Fetchers : f # g => fetcher'[f] = fetcher[f]
    BY <2>1, <2>2
  <2> QED BY <2>4, <2>5, <2>6 DEF R
<1>4. fetcher[g].st = "pushing"
  BY <1>1 DEF TypeOK
\* Where a batch is after the step, another than the settled one was before.
<1>5. /\ queue' \in Seq(Batch)
      /\ worker' \in [Workers -> WorkerItem \cup {None}]
      /\ \/ /\ queue' = queue /\ queue = <<>> /\ worker'[w] = None
         \/ /\ Len(queue) > 0
            /\ Len(queue') = Len(queue) - 1
            /\ \A i \in 1..Len(queue') : i + 1 \in 1..Len(queue) /\ queue'[i] = queue[i + 1]
            /\ worker'[w] = Item(queue[1])
            /\ worker'[w] # None
            /\ SameBatch(queue[1], worker'[w])
            /\ worker'[w].live => running
      /\ \A v \in Workers : v # w => worker'[v] = worker[v]
  <2>1. queue \in Seq(Batch) /\ TakesNext(w)
    BY DEF TypeOK, HandlerEnds
  <2>2. CASE queue = <<>>
    BY <2>1, <2>2 DEF TakesNext, TypeOK
  <2>3. CASE queue # <<>>
    <3>1. /\ worker' = [worker EXCEPT ![w] = Item(Head(queue))]
          /\ queue' = Tail(queue)
      BY <2>1, <2>3 DEF TakesNext
    <3>2. /\ Len(queue) > 0 /\ Head(queue) = queue[1] /\ queue[1] \in Batch
          /\ queue' \in Seq(Batch) /\ Len(queue') = Len(queue) - 1
          /\ \A i \in 1..Len(queue') : i + 1 \in 1..Len(queue) /\ queue'[i] = queue[i + 1]
      BY <2>1, <2>3, <3>1
    <3>3. queue[1].f \in Fetchers /\ queue[1].p \in Partitions /\ running \in BOOLEAN
      BY <3>2 DEF Batch, TypeOK
    <3>4. Item(queue[1]) \in WorkerItem
      BY <3>3, Zenon DEF Item, WorkerItem
    <3>5. Item(queue[1]) # None
      BY <3>4, FetchManagerAssumption
    <3>6. SameBatch(queue[1], Item(queue[1])) /\ Item(queue[1]).live = running
      BY DEF SameBatch, Item
    <3>7. /\ worker' \in [Workers -> WorkerItem \cup {None}]
          /\ worker'[w] = Item(queue[1])
          /\ \A v \in Workers : v # w => worker'[v] = worker[v]
      BY <3>1, <3>2, <3>4 DEF TypeOK
    <3> QED BY <3>2, <3>5, <3>6, <3>7
  <2> QED BY <2>2, <2>3
<1>6. Apart(queue', worker')
  <2>1. ASSUME NEW i \in 1..Len(queue'), NEW j \in 1..Len(queue'), i # j
        PROVE  ~SameBatch(queue'[i], queue'[j])
    BY <1>5, <2>1 DEF Apart
  <2>2. ASSUME NEW u \in Workers, NEW v \in Workers, u # v,
               worker'[u] # None, worker'[v] # None
        PROVE  ~SameBatch(worker'[u], worker'[v])
    BY <1>5, <2>2 DEF Apart, SameBatch
  <2>3. ASSUME NEW i \in 1..Len(queue'), NEW v \in Workers, worker'[v] # None
        PROVE  ~SameBatch(queue'[i], worker'[v])
    BY <1>5, <2>3 DEF Apart, SameBatch
  <2> QED BY <2>1, <2>2, <2>3 DEF Apart
<1>7. Awaited(queue', worker', fetcher')
  <2>2. \A i \in 1..Len(queue) : queue[i].p \in fetcher'[queue[i].f].left
    BY <1>1, <1>3, BatchesOfFetchers DEF Awaited, Apart, SameBatch
  <2>4. \A v \in Workers : v # w /\ worker[v] # None
          => worker[v].p \in fetcher'[worker[v].f].left
    BY <1>1, <1>3, BatchesOfFetchers DEF Awaited, Apart, SameBatch
  <2>5. \A i \in 1..Len(queue') : queue'[i].p \in fetcher'[queue'[i].f].left
    BY <1>5, <2>2
  <2>6. \A v \in Workers : worker'[v] # None
          => worker'[v].p \in fetcher'[worker'[v].f].left
    BY <1>5, <2>2, <2>4 DEF SameBatch
  <2> QED BY <2>5, <2>6 DEF Awaited
<1>8. TypeOK'
  <2>1. \A f \in Fetchers :
          /\ fetcher'[f].left \subseteq fetcher'[f].pushed
          /\ fetcher'[f].st # "pushing" => fetcher'[f].pushed = {} /\ ~fetcher'[f].failed
          /\ fetcher'[f].st \in {"off", "ended"} => ~fetcher'[f].isRunning
    BY <1>3, <1>4 DEF TypeOK
  <2> QED BY <1>2, <1>3, <1>5, <2>1 DEF TypeOK
<1>9. Owned'
  BY <1>2, <1>3 DEF Owned
<1>10. Created' /\ Lifecycle'
  BY <1>2, <1>3 DEF Created, Lifecycle
<1>11. RunningFetchers' /\ StoppedFetchers'
  BY <1>2, <1>3, <1>4 DEF RunningFetchers, StoppedFetchers, Idle
<1>12. LiveAwaited'
  BY <1>2, <1>5 DEF LiveAwaited
<1> QED BY <1>6, <1>7, <1>8, <1>9, <1>10, <1>11, <1>12

-----------------------------------------------------------------------------
(***************************************************************************)
(* Manager and runner                                                      *)
(***************************************************************************)

\* Stopping the current fetchers changes nothing but their flag.
LEMMA StopFetchersOnly ==
    ASSUME TypeOK, StopFetchers
    PROVE  /\ fetcher' \in [Fetchers -> [st : FetcherState, isRunning : BOOLEAN,
                                         pushed : SUBSET Partitions,
                                         left : SUBSET Partitions, failed : BOOLEAN]]
           /\ \A f \in Fetchers :
                /\ fetcher'[f].st = fetcher[f].st
                /\ fetcher'[f].pushed = fetcher[f].pushed
                /\ fetcher'[f].left = fetcher[f].left
                /\ fetcher'[f].failed = fetcher[f].failed
                /\ f \in Current => ~fetcher'[f].isRunning
                /\ f \notin Current => fetcher'[f].isRunning = fetcher[f].isRunning
<1> DEFINE R == [st : FetcherState, isRunning : BOOLEAN, pushed : SUBSET Partitions,
                 left : SUBSET Partitions, failed : BOOLEAN]
           r(f) == [fetcher[f] EXCEPT !.isRunning = FALSE]
<1>1. \A f \in Fetchers : fetcher[f] \in R
  BY DEF TypeOK
<1>2. \A f \in Fetchers :
        /\ r(f) \in R /\ r(f).st = fetcher[f].st /\ r(f).pushed = fetcher[f].pushed
        /\ r(f).left = fetcher[f].left /\ r(f).failed = fetcher[f].failed
        /\ ~r(f).isRunning
  BY <1>1
<1>3. fetcher' = [f \in Fetchers |-> IF f \in Current THEN r(f) ELSE fetcher[f]]
  BY DEF StopFetchers
<1> HIDE DEF R, r
<1>4. fetcher' \in [Fetchers -> R]
  BY <1>1, <1>2, <1>3
<1>5. \A f \in Fetchers : fetcher'[f] = IF f \in Current THEN r(f) ELSE fetcher[f]
  BY <1>3
<1> QED BY <1>2, <1>4, <1>5 DEF R

\* A fetcher that is at work is of a created generation; if that is the
\* current one it is among the fetchers stop() goes through.
LEMMA AtWorkIsCurrent ==
    ASSUME FetchInv, NEW f \in Fetchers, fetcher[f].st # "off", f[1] = gen
    PROVE  f \in Current
<1>1. f = <<f[1], f[2]>> /\ f[1] \in Generations
  BY DEF Fetchers
<1>2. gen # 0
  BY <1>1, FetchManagerAssumption DEF Generations
<1>3. f[2] \in genNodes[gen]
  BY DEF FetchInv, Created
<1> QED BY <1>1, <1>2, <1>3 DEF Current

\* The fetchers that are still running are fetchers.
LEMMA StillRunningFetchers ==
    ASSUME TypeOK
    PROVE  StillRunning \subseteq Fetchers
<1>1. CASE gen = 0
  BY <1>1 DEF StillRunning, Current
<1>2. CASE gen # 0
  <2>1. gen \in Generations
    BY <1>2, FetchManagerAssumption DEF TypeOK, Generations
  <2>2. genNodes[gen] \subseteq Nodes
    BY <2>1 DEF TypeOK
  <2> QED BY <1>2, <2>1, <2>2 DEF StillRunning, Current, Fetchers
<1> QED BY <1>1, <1>2

\* The manager catches the error of a fetcher and stops the others: those that
\* are still at work are the ones it awaits.
LEMMA ManagerCatchesInv ==
    ASSUME FetchInv, ManagerCatches
    PROVE  FetchInv'
<1> USE DEF FetchInv, runnerVars, stopVars, bounds
<1>1. /\ manager = "running" /\ manager' = "stopping"
      /\ awaitEnd' = StillRunning /\ StopFetchers
      /\ UNCHANGED <<nodeIds, gen, genNodes, assigned, queue, worker, error, running,
                     consuming, mode, stopCall, stopAwaits, changes, errors>>
  BY DEF ManagerCatches
<1>2. /\ fetcher' \in [Fetchers -> [st : FetcherState, isRunning : BOOLEAN,
                                    pushed : SUBSET Partitions,
                                    left : SUBSET Partitions, failed : BOOLEAN]]
      /\ \A f \in Fetchers :
           /\ fetcher'[f].st = fetcher[f].st
           /\ fetcher'[f].pushed = fetcher[f].pushed
           /\ fetcher'[f].left = fetcher[f].left
           /\ fetcher'[f].failed = fetcher[f].failed
           /\ f \in Current => ~fetcher'[f].isRunning
           /\ f \notin Current => fetcher'[f].isRunning = fetcher[f].isRunning
  BY <1>1, StopFetchersOnly
<1>3. TypeOK'
  BY <1>1, <1>2, StillRunningFetchers DEF TypeOK
<1>4. Apart(queue, worker)'
  BY <1>1 DEF Apart
<1>5. Awaited(queue, worker, fetcher)'
  BY <1>1, <1>2, BatchesOfFetchers DEF Awaited
<1>6. Owned' /\ Created' /\ Lifecycle'
  BY <1>1, <1>2 DEF Owned, Created, Lifecycle
<1>7. RunningFetchers'
  <2> SUFFICES ASSUME running, NEW f \in Fetchers, ~Idle(f)
               PROVE  ~(f[1] < gen) /\ f \in StillRunning
    BY <1>1, <1>2 DEF RunningFetchers, Idle, Lifecycle
  <2>1. ~(f[1] < gen) /\ fetcher[f].isRunning /\ fetcher[f].st # "off"
    BY <1>1 DEF RunningFetchers, Idle
  <2>2. f[1] = gen
    BY <2>1, GenerationsAreNat DEF Created
  <2> QED BY <2>1, <2>2, AtWorkIsCurrent DEF StillRunning
<1>8. StoppedFetchers'
  BY <1>1, <1>2 DEF StoppedFetchers
<1>9. LiveAwaited'
  BY <1>1 DEF LiveAwaited
<1> QED BY <1>3, <1>4, <1>5, <1>6, <1>7, <1>8, <1>9

\* The runner is stopped: stop() awaits the fetchers that were running, which
\* are all that have a handler at work unless the manager awaits them already.
LEMMA StopInv ==
    ASSUME FetchInv, Stop
    PROVE  FetchInv'
<1> USE DEF FetchInv, managerVars, bounds
<1>1. /\ running /\ running' = FALSE
      /\ stopCall' = "fetchers" /\ stopAwaits' = StillRunning /\ StopFetchers
      /\ UNCHANGED <<nodeIds, gen, genNodes, assigned, queue, worker, manager, error,
                     awaitEnd, consuming, mode, changes, errors>>
  BY DEF Stop
<1>2. /\ fetcher' \in [Fetchers -> [st : FetcherState, isRunning : BOOLEAN,
                                    pushed : SUBSET Partitions,
                                    left : SUBSET Partitions, failed : BOOLEAN]]
      /\ \A f \in Fetchers :
           /\ fetcher'[f].st = fetcher[f].st
           /\ fetcher'[f].pushed = fetcher[f].pushed
           /\ fetcher'[f].left = fetcher[f].left
           /\ fetcher'[f].failed = fetcher[f].failed
           /\ f \in Current => ~fetcher'[f].isRunning
           /\ f \notin Current => fetcher'[f].isRunning = fetcher[f].isRunning
  BY <1>1, StopFetchersOnly
<1>3. TypeOK'
  BY <1>1, <1>2, StillRunningFetchers DEF TypeOK
<1>4. Apart(queue, worker)'
  BY <1>1 DEF Apart
<1>5. Awaited(queue, worker, fetcher)'
  BY <1>1, <1>2, BatchesOfFetchers DEF Awaited
<1>6. Owned' /\ Created' /\ Lifecycle'
  BY <1>1, <1>2 DEF Owned, Created, Lifecycle
<1>7. ASSUME NEW f \in Fetchers, ~Idle(f)
      PROVE  f \in Current
  <2>1. ~(f[1] < gen) /\ fetcher[f].st # "off"
    BY <1>1, <1>7 DEF RunningFetchers, Idle
  <2>2. f[1] = gen
    BY <2>1, GenerationsAreNat DEF Created
  <2> QED BY <2>1, <2>2, AtWorkIsCurrent
<1>8. RunningFetchers' /\ StoppedFetchers'
  BY <1>1, <1>2, <1>7 DEF RunningFetchers, StoppedFetchers, Idle
<1>9. LiveAwaited'
  <2> SUFFICES ASSUME NEW w \in Workers, worker[w] # None
               PROVE  \/ worker[w].f \in StillRunning
                      \/ manager = "stopping" /\ worker[w].f \in awaitEnd
    BY <1>1 DEF LiveAwaited
  <2> DEFINE f == worker[w].f
  <2>1. f \in Fetchers /\ fetcher[f].left # {}
    BY BatchesOfFetchers DEF Awaited
  <2> HIDE DEF f
  <2>2. ~Idle(f)
    BY <2>1 DEF TypeOK, Idle
  <2>3. manager # "off"
    BY <1>1, <2>1, <2>2 DEF RunningFetchers, Lifecycle
  <2>4. CASE manager = "stopping"
    BY <1>1, <2>1, <2>2, <2>4 DEF RunningFetchers, f
  <2>5. CASE manager = "running"
    BY <1>1, <1>7, <2>1, <2>2, <2>5 DEF RunningFetchers, StillRunning, f
  <2> QED BY <2>3, <2>4, <2>5 DEF TypeOK
<1> QED BY <1>3, <1>4, <1>5, <1>6, <1>8, <1>9

\* A worker is busy only for a fetcher that awaits it.
LEMMA BusyIsAwaited ==
    ASSUME FetchInv, NEW w \in Workers, worker[w] # None
    PROVE  worker[w].f \in Fetchers /\ ~Idle(worker[w].f)
<1>1. worker[w].f \in Fetchers /\ fetcher[worker[w].f].left # {}
  BY BatchesOfFetchers DEF FetchInv, Awaited
<1> QED BY <1>1 DEF FetchInv, TypeOK, Idle

\* New fetchers are started when the old ones that somebody should have
\* awaited are idle.
LEMMA CreateFetchersInv ==
    ASSUME FetchInv, CreateFetchers,
           running => \A f \in Fetchers : Idle(f),
           ~running => \A w \in Workers : worker[w] # None /\ worker[w].live
                         => stopCall = "fetchers" /\ worker[w].f \in stopAwaits,
           manager' = "running", mode' = "managed", consuming' = TRUE,
           stopCall # "stopped",
           error' \in ErrorKind \cup {"none", "fetchers"}, awaitEnd' \subseteq Fetchers,
           UNCHANGED <<nodeIds, assigned, queue, worker, running, stopVars, bounds>>
    PROVE  FetchInv'
<1> DEFINE R == [st : FetcherState, isRunning : BOOLEAN, pushed : SUBSET Partitions,
                 left : SUBSET Partitions, failed : BOOLEAN]
           r(f) == [fetcher[f] EXCEPT !.st = IF running THEN "fetching" ELSE "skipping",
                                      !.isRunning = TRUE]
           new(f) == f[1] = gen + 1 /\ f[2] \in nodeIds
<1> USE DEF FetchInv, stopVars, bounds
<1>1. /\ gen' = gen + 1 /\ gen \in Nat /\ gen' \in 0..MaxGenerations
      /\ gen + 1 \in Generations
      /\ genNodes' \in [Generations -> SUBSET Nodes]
      /\ genNodes'[gen + 1] = nodeIds
      /\ \A g \in Generations : g # gen + 1 => genNodes'[g] = genNodes[g]
  <2>1. /\ gen \in Nat /\ gen < MaxGenerations /\ gen' = gen + 1
        /\ genNodes' = [genNodes EXCEPT ![gen + 1] = nodeIds]
        /\ genNodes \in [Generations -> SUBSET Nodes] /\ nodeIds \subseteq Nodes
    BY GenerationsAreNat DEF CreateFetchers, TypeOK
  <2>2. gen' \in 0..MaxGenerations /\ gen + 1 \in Generations
    BY <2>1, FetchManagerAssumption DEF Generations
  <2> QED BY <2>1, <2>2
<1>2. \A f \in Fetchers : fetcher[f] \in R /\ f[1] \in Nat /\ f[1] \in Generations
  BY GenerationsAreNat DEF TypeOK, Fetchers
<1>3. \A f \in Fetchers :
        /\ r(f) \in R /\ r(f).pushed = fetcher[f].pushed
        /\ r(f).left = fetcher[f].left /\ r(f).failed = fetcher[f].failed
        /\ r(f).st = IF running THEN "fetching" ELSE "skipping"
        /\ r(f).isRunning
  BY <1>2 DEF FetcherState
<1>4. fetcher' = [f \in Fetchers |-> IF new(f) THEN r(f) ELSE fetcher[f]]
  BY DEF CreateFetchers
<1>5. \A f \in Fetchers : new(f) => fetcher[f].st = "off"
  BY <1>1, <1>2 DEF Created
<1> HIDE DEF R, r, new
<1>6. /\ fetcher' \in [Fetchers -> R]
      /\ \A f \in Fetchers : fetcher'[f] = IF new(f) THEN r(f) ELSE fetcher[f]
  BY <1>2, <1>3, <1>4
<1>7. \A f \in Fetchers : /\ fetcher'[f].left = fetcher[f].left
                          /\ fetcher'[f].pushed = fetcher[f].pushed
                          /\ fetcher'[f].failed = fetcher[f].failed
  BY <1>3, <1>6
<1>8. TypeOK'
  <2>1. \A f \in Fetchers :
          /\ fetcher'[f].left \subseteq fetcher'[f].pushed
          /\ fetcher'[f].st # "pushing" => fetcher'[f].pushed = {} /\ ~fetcher'[f].failed
          /\ fetcher'[f].st \in {"off", "ended"} => ~fetcher'[f].isRunning
    BY <1>3, <1>5, <1>6, <1>7 DEF TypeOK
  <2> QED BY <1>1, <1>6, <2>1 DEF TypeOK, R
<1>9. Apart(queue, worker)'
  BY DEF Apart
<1>10. Awaited(queue, worker, fetcher)'
  BY <1>7, BatchesOfFetchers DEF Awaited
<1>11. Owned'
  BY <1>7 DEF Owned
<1>12. Created'
  <2> SUFFICES ASSUME NEW f \in Fetchers, fetcher'[f].st # "off"
               PROVE  f[1] <= gen' /\ f[2] \in genNodes'[f[1]]
    BY DEF Created
  <2>1. CASE new(f)
    BY <1>1, <1>2, <2>1 DEF new
  <2>2. CASE ~new(f)
    <3>1. f[1] <= gen /\ f[2] \in genNodes[f[1]]
      BY <1>6, <2>2 DEF Created
    <3> QED BY <1>1, <1>2, <3>1
  <2> QED BY <2>1, <2>2
<1>13. Lifecycle'
  BY DEF Lifecycle
<1>14. RunningFetchers'
  <2> SUFFICES ASSUME running, NEW f \in Fetchers
               PROVE  /\ f[1] < gen' => fetcher'[f].st \in {"off", "ended"}
                      /\ fetcher'[f].st \in {"off", "ended"} \/ fetcher'[f].isRunning
    BY DEF RunningFetchers, Idle
  <2>1. CASE new(f)
    BY <1>1, <1>2, <1>3, <1>6, <2>1 DEF new
  <2>2. CASE ~new(f)
    BY <1>6, <2>2 DEF Idle
  <2> QED BY <2>1, <2>2
<1>15. StoppedFetchers' /\ LiveAwaited'
  BY <1>3, <1>6 DEF StoppedFetchers, LiveAwaited
<1> QED BY <1>8, <1>9, <1>10, <1>11, <1>12, <1>13, <1>14, <1>15

\* A step that leaves the fetchers, the queue and the workers alone keeps the
\* invariant if it keeps what the invariant says of the flags.
LEMMA FlagsInv ==
    ASSUME FetchInv, TypeOK', Lifecycle', RunningFetchers', StoppedFetchers', LiveAwaited',
           UNCHANGED <<gen, genNodes, fetcher, assigned, queue, worker>>
    PROVE  FetchInv'
<1> USE DEF FetchInv
<1>1. Apart(queue, worker)' /\ Awaited(queue, worker, fetcher)'
  BY DEF Apart, Awaited
<1>2. Owned' /\ Created'
  BY DEF Owned, Created
<1> QED BY <1>1, <1>2

\* The runner crashes when, if it was running, no fetcher is at work.
LEMMA CrashInv ==
    ASSUME FetchInv, Crash,
           running => \A f \in Fetchers : Idle(f),
           ~running => \A w \in Workers : worker[w] # None /\ worker[w].live
                         => stopCall = "fetchers" /\ worker[w].f \in stopAwaits,
           manager' = "off", error' \in ErrorKind \cup {"none", "fetchers"},
           awaitEnd' \subseteq Fetchers, errors' \in 0..MaxErrors,
           UNCHANGED <<fetchVars, changes>>
    PROVE  FetchInv'
<1> USE DEF FetchInv, fetchVars
<1>1. /\ mode' = "crashed" /\ running' = FALSE /\ consuming' = FALSE
      /\ stopCall' = IF running THEN "consumer" ELSE stopCall
      /\ stopAwaits' = stopAwaits
  BY DEF Crash
<1>2. TypeOK'
  BY <1>1 DEF TypeOK
<1>3. Lifecycle'
  BY <1>1 DEF Lifecycle
<1>4. RunningFetchers' /\ StoppedFetchers'
  BY <1>1 DEF RunningFetchers, StoppedFetchers, Idle
<1>5. LiveAwaited'
  BY <1>1, BusyIsAwaited DEF LiveAwaited
<1> QED BY <1>2, <1>3, <1>4, <1>5, FlagsInv

\* What the manager awaited before it goes on has ended, so while the runner
\* is running no fetcher is at work, and of the others stop() awaits those with
\* a handler at work.
LEMMA AwaitedHaveEnded ==
    ASSUME FetchInv, manager = "stopping", Ended(awaitEnd)
    PROVE  /\ running => \A f \in Fetchers : Idle(f)
           /\ ~running => \A w \in Workers : worker[w] # None /\ worker[w].live
                => stopCall = "fetchers" /\ worker[w].f \in stopAwaits
<1>1. \A f \in awaitEnd : Idle(f)
  BY DEF Ended, Idle
<1> QED BY <1>1, BusyIsAwaited DEF FetchInv, RunningFetchers, LiveAwaited

\* The manager replaces its fetchers for new brokers.
LEMMA FetchersRebalanceInv ==
    ASSUME FetchInv, FetchersRebalance
    PROVE  FetchInv'
<1> USE DEF FetchInv, runnerVars
<1>1. /\ manager = "stopping" /\ Ended(awaitEnd) /\ CreateFetchers
      /\ manager' = "running" /\ error' = "none" /\ awaitEnd' = {}
      /\ UNCHANGED <<nodeIds, assigned, queue, worker, running, consuming, mode,
                     stopVars, bounds>>
  BY DEF FetchersRebalance
<1>2. mode = "managed" /\ consuming = TRUE /\ stopCall # "stopped"
  BY <1>1 DEF Lifecycle, TypeOK
<1> QED BY <1>1, <1>2, AwaitedHaveEnded, CreateFetchersInv

\* All fetchers have ended without an error: the manager is off.
LEMMA ManagerFinishesInv ==
    ASSUME FetchInv, ManagerFinishes
    PROVE  FetchInv'
<1> USE DEF FetchInv, fetchVars, stopVars, bounds
<1>1. /\ manager = "running" /\ manager' = "off" /\ mode' = "scheduling"
      /\ Ended(Current)
      /\ UNCHANGED <<nodeIds, gen, genNodes, fetcher, assigned, queue, worker, error,
                     awaitEnd, running, consuming, stopCall, stopAwaits, changes, errors>>
  BY DEF ManagerFinishes
<1>2. TypeOK' /\ Lifecycle'
  BY <1>1 DEF TypeOK, Lifecycle
<1>3. running => \A f \in Fetchers : Idle(f)
  <2> SUFFICES ASSUME running, NEW f \in Fetchers, ~Idle(f) PROVE FALSE
    OBVIOUS
  <2>1. ~(f[1] < gen) /\ fetcher[f].st # "off"
    BY DEF RunningFetchers, Idle
  <2>2. f[1] = gen
    BY <2>1, GenerationsAreNat DEF Created
  <2>3. f \in Current
    BY <2>1, <2>2, AtWorkIsCurrent
  <2> QED BY <1>1, <2>3 DEF Ended, Idle
<1>4. RunningFetchers' /\ StoppedFetchers' /\ LiveAwaited'
  BY <1>1, <1>3 DEF RunningFetchers, StoppedFetchers, LiveAwaited, Idle
<1> QED BY <1>1, <1>2, <1>4, FlagsInv

\* The manager gives its error to the runner, which goes on or crashes.
LEMMA ManagerFailsInv ==
    ASSUME FetchInv, ManagerFails
    PROVE  FetchInv'
<1> USE DEF FetchInv, fetchVars, stopVars, bounds
<1>1. /\ manager = "stopping" /\ Ended(awaitEnd)
      /\ manager' = "off" /\ error' = "none" /\ awaitEnd' = {}
      /\ UNCHANGED <<nodeIds, gen, genNodes, fetcher, assigned, queue, worker, changes,
                     errors>>
      /\ \/ /\ mode' \in {"joining", "backoff"}
            /\ UNCHANGED <<running, consuming, stopCall, stopAwaits>>
         \/ Crash
  BY DEF ManagerFails
<1>2. CASE Crash
  <2>1. errors' \in 0..MaxErrors /\ UNCHANGED <<fetchVars, changes>>
    BY <1>1 DEF TypeOK
  <2> QED BY <1>1, <1>2, <2>1, AwaitedHaveEnded, CrashInv
<1>3. CASE /\ mode' \in {"joining", "backoff"}
           /\ UNCHANGED <<running, consuming, stopCall, stopAwaits>>
  <2>1. TypeOK' /\ Lifecycle'
    BY <1>1, <1>3 DEF TypeOK, Lifecycle
  <2>2. RunningFetchers' /\ StoppedFetchers'
    BY <1>1, <1>3, AwaitedHaveEnded DEF RunningFetchers, StoppedFetchers, Idle
  <2>3. LiveAwaited'
    BY <1>1, <1>3, AwaitedHaveEnded DEF LiveAwaited
  <2> QED BY <1>1, <2>1, <2>2, <2>3, FlagsInv
<1> QED BY <1>1, <1>2, <1>3

\* The runner starts the manager, finds itself stopped, or crashes.
LEMMA StartFetchManagerInv ==
    ASSUME FetchInv, StartFetchManager
    PROVE  FetchInv'
<1> USE DEF FetchInv, fetchVars, stopVars, bounds
<1>1. /\ mode \in {"scheduling", "backoff"}
      /\ UNCHANGED <<nodeIds, assigned, queue, worker, error, awaitEnd, changes, errors>>
  BY DEF StartFetchManager
<1>2. /\ manager = "off"
      /\ running => \A f \in Fetchers : Idle(f)
      /\ stopCall # "stopped" /\ error \in ErrorKind \cup {"none", "fetchers"}
      /\ awaitEnd \subseteq Fetchers /\ errors \in 0..MaxErrors
  BY <1>1 DEF Lifecycle, RunningFetchers, TypeOK
<1>3. CASE /\ ~running /\ mode' = "scheduling"
           /\ UNCHANGED <<gen, genNodes, fetcher, manager, running, consuming, stopVars>>
  <2>1. TypeOK' /\ Lifecycle'
    BY <1>1, <1>3 DEF TypeOK, Lifecycle
  <2>2. RunningFetchers' /\ StoppedFetchers' /\ LiveAwaited'
    BY <1>1, <1>3 DEF RunningFetchers, StoppedFetchers, LiveAwaited
  <2> QED BY <1>1, <1>3, <2>1, <2>2, FlagsInv
<1>4. CASE /\ running /\ CreateFetchers /\ manager' = "running" /\ consuming' = TRUE
           /\ mode' = "managed" /\ UNCHANGED <<running, stopVars>>
  BY <1>1, <1>2, <1>4, CreateFetchersInv
<1>5. CASE running /\ Crash /\ UNCHANGED <<gen, genNodes, fetcher, manager>>
  BY <1>1, <1>2, <1>5, CrashInv
<1> QED BY <1>3, <1>4, <1>5 DEF StartFetchManager

\* The other steps of the runner, and a change of the brokers.
LEMMA RunnerStepInv ==
    ASSUME FetchInv, RunnerStep \/ NodesChange
    PROVE  FetchInv'
<1> USE DEF FetchInv, fetchVars, managerVars, runnerVars, stopVars, bounds
<1>1. CASE ScheduleExits
  <2>1. TypeOK' /\ Lifecycle'
    BY <1>1 DEF ScheduleExits, ExitConsuming, TypeOK, Lifecycle
  <2>2. RunningFetchers' /\ StoppedFetchers' /\ LiveAwaited'
    BY <1>1 DEF ScheduleExits, RunningFetchers, StoppedFetchers, LiveAwaited
  <2> QED BY <1>1, <2>1, <2>2, FlagsInv DEF ScheduleExits
<1>2. CASE Rejoined
  <2>1. TypeOK' /\ Lifecycle'
    BY <1>2 DEF Rejoined, TypeOK, Lifecycle
  <2>2. RunningFetchers' /\ StoppedFetchers' /\ LiveAwaited'
    BY <1>2 DEF Rejoined, RunningFetchers, StoppedFetchers, LiveAwaited, Idle
  <2> QED BY <1>2, <2>1, <2>2, FlagsInv DEF Rejoined
<1>3. CASE RejoinFails
  <2>1. /\ mode = "joining" /\ errors' \in 0..MaxErrors
        /\ UNCHANGED <<nodeIds, gen, genNodes, fetcher, assigned, queue, worker,
                       manager, error, awaitEnd, changes>>
        /\ \/ mode' = "backoff" /\ UNCHANGED <<running, consuming, stopCall, stopAwaits>>
           \/ Crash
    BY <1>3, FetchManagerAssumption DEF RejoinFails, TypeOK
  <2>3. CASE Crash
    <3>1. /\ error' \in ErrorKind \cup {"none", "fetchers"} /\ awaitEnd' \subseteq Fetchers
          /\ manager' = "off"
      BY <2>1 DEF TypeOK, Lifecycle
    <3>2. running => \A f \in Fetchers : Idle(f)
      BY <2>1 DEF RunningFetchers
    <3>3. ~running => \A w \in Workers : worker[w] # None /\ worker[w].live
                        => stopCall = "fetchers" /\ worker[w].f \in stopAwaits
      BY <2>1 DEF Lifecycle, LiveAwaited
    <3> QED BY <2>1, <2>3, <3>1, <3>2, <3>3, CrashInv
  <2>4. CASE mode' = "backoff" /\ UNCHANGED <<running, consuming, stopCall, stopAwaits>>
    <3>1. TypeOK' /\ Lifecycle'
      BY <2>1, <2>4 DEF TypeOK, Lifecycle
    <3>2. RunningFetchers' /\ StoppedFetchers' /\ LiveAwaited'
      BY <2>1, <2>4 DEF RunningFetchers, StoppedFetchers, LiveAwaited, Idle
    <3> QED BY <2>1, <3>1, <3>2, FlagsInv
  <2> QED BY <2>1, <2>3, <2>4
<1>4. CASE StopAwaitsConsumer
  <2>1. /\ stopCall = "fetchers" /\ stopCall' = "consumer"
        /\ \A f \in stopAwaits : Idle(f)
        /\ UNCHANGED <<nodeIds, gen, genNodes, fetcher, assigned, queue, worker, manager,
                       error, awaitEnd, running, consuming, mode, stopAwaits, changes,
                       errors>>
    BY <1>4 DEF StopAwaitsConsumer, FetchersEnded, Ended, Idle
  <2>2. TypeOK' /\ Lifecycle'
    BY <2>1 DEF TypeOK, Lifecycle
  <2>3. RunningFetchers' /\ StoppedFetchers'
    BY <2>1 DEF RunningFetchers, StoppedFetchers, Idle
  <2>4. LiveAwaited'
    BY <2>1, BusyIsAwaited DEF LiveAwaited
  <2> QED BY <2>1, <2>2, <2>3, <2>4, FlagsInv
<1>5. CASE StopReturns
  <2>1. TypeOK' /\ Lifecycle'
    BY <1>5 DEF StopReturns, TypeOK, Lifecycle
  <2>2. RunningFetchers' /\ StoppedFetchers' /\ LiveAwaited'
    BY <1>5 DEF StopReturns, RunningFetchers, StoppedFetchers, LiveAwaited, Idle
  <2> QED BY <1>5, <2>1, <2>2, FlagsInv DEF StopReturns
<1>6. CASE NodesChange
  <2>1. TypeOK' /\ Lifecycle'
    BY <1>6, FetchManagerAssumption DEF NodesChange, TypeOK, Lifecycle
  <2>2. RunningFetchers' /\ StoppedFetchers' /\ LiveAwaited'
    BY <1>6 DEF NodesChange, RunningFetchers, StoppedFetchers, LiveAwaited, Idle
  <2> QED BY <1>6, <2>1, <2>2, FlagsInv DEF NodesChange
<1> QED BY <1>1, <1>2, <1>3, <1>4, <1>5, <1>6, StartFetchManagerInv DEF RunnerStep

-----------------------------------------------------------------------------
(***************************************************************************)
(* The invariant and what follows from it                                  *)
(***************************************************************************)

\* The runner has joined its group; nothing was fetched.
LEMMA FetchInitInv ==
    ASSUME Init
    PROVE  FetchInv
<1> USE DEF Init
<1>1. \A f \in Fetchers : /\ fetcher[f].st = "off" /\ ~fetcher[f].isRunning
                          /\ fetcher[f].pushed = {} /\ fetcher[f].left = {}
                          /\ ~fetcher[f].failed
  OBVIOUS
<1>2. fetcher \in [Fetchers -> [st : FetcherState, isRunning : BOOLEAN,
                               pushed : SUBSET Partitions,
                               left : SUBSET Partitions, failed : BOOLEAN]]
  BY DEF FetcherState
<1>3. /\ genNodes \in [Generations -> SUBSET Nodes]
      /\ assigned \in [Generations -> [Partitions -> Nodes \cup {None}]]
      /\ worker \in [Workers -> WorkerItem \cup {None}]
      /\ queue \in Seq(Batch) /\ Len(queue) = 0
  BY DEF Unassigned
<1>4. \A w \in Workers : worker[w] = None
  OBVIOUS
<1>5. gen \in 0..MaxGenerations /\ changes \in 0..MaxNodeChanges /\ errors \in 0..MaxErrors
  BY FetchManagerAssumption
<1>6. TypeOK
  BY <1>1, <1>2, <1>3, <1>5 DEF TypeOK
<1>7. Apart(queue, worker) /\ Awaited(queue, worker, fetcher)
  BY <1>3, <1>4 DEF Apart, Awaited
<1>8. Owned /\ Created
  BY <1>1 DEF Owned, Created
<1>9. Lifecycle
  BY DEF Lifecycle
<1>10. RunningFetchers /\ StoppedFetchers /\ LiveAwaited
  BY <1>1 DEF RunningFetchers, StoppedFetchers, LiveAwaited, Idle
<1> QED BY <1>6, <1>7, <1>8, <1>9, <1>10 DEF FetchInv

\* Every step of the fetch loop keeps the invariant.
LEMMA FetchNextInv ==
    ASSUME FetchInv, [Next]_vars
    PROVE  FetchInv'
<1>1. CASE \E f \in Fetchers : FetcherStep(f)
  BY <1>1, FetcherStepInv
<1>2. CASE \E w \in Workers, ok \in BOOLEAN : HandlerEnds(w, ok)
  BY <1>2, HandlerEndsInv
<1>3. CASE ManagerStep
  BY <1>3, ManagerCatchesInv, FetchersRebalanceInv, ManagerFinishesInv, ManagerFailsInv
     DEF ManagerStep
<1>4. CASE RunnerStep \/ NodesChange
  BY <1>4, RunnerStepInv
<1>5. CASE Stop
  BY <1>5, StopInv
<1>6. CASE UNCHANGED vars
  <2>1. UNCHANGED <<nodeIds, gen, genNodes, fetcher, assigned, queue, worker, manager,
                    error, awaitEnd, running, consuming, mode, stopCall, stopAwaits,
                    changes, errors>>
    BY <1>6 DEF vars, fetchVars, managerVars, runnerVars, stopVars, bounds
  <2>2. TypeOK' /\ Lifecycle'
    BY <2>1 DEF FetchInv, TypeOK, Lifecycle
  <2>3. RunningFetchers' /\ StoppedFetchers' /\ LiveAwaited'
    BY <2>1 DEF FetchInv, RunningFetchers, StoppedFetchers, LiveAwaited, Idle
  <2> QED BY <2>1, <2>2, <2>3, FlagsInv
<1> QED BY <1>1, <1>2, <1>3, <1>4, <1>5, <1>6 DEF Next, Stopped

\* The invariant of the fetch loop, for all its parameters.
THEOREM FetchInvariant == Spec => []FetchInv
BY FetchInitInv, FetchNextInv, PTL DEF Spec

\* In a state of the invariant the batch of a partition is in one place only:
\* two batches of the partition would be of the same generation, so of the
\* fetcher the partition is assigned to, and then the same batch.
LEMMA OneBatchOfPartition ==
    ASSUME FetchInv
    PROVE  /\ \A i, j \in 1..Len(queue) : queue[i].p = queue[j].p => i = j
           /\ \A v, w \in Workers : /\ worker[v] # None /\ worker[w] # None
                                    /\ worker[v].p = worker[w].p
                                    => v = w
           /\ \A i \in 1..Len(queue), w \in Workers :
                worker[w] # None => queue[i].p # worker[w].p
<1> USE DEF FetchInv
<1>1. ASSUME NEW f \in Fetchers, NEW g \in Fetchers, NEW p,
             p \in fetcher[f].left, p \in fetcher[g].left
      PROVE  f = g
  <2>1. f[1] = g[1] /\ p \in fetcher[f].pushed /\ p \in fetcher[g].pushed
    BY <1>1 DEF Owned, TypeOK
  <2>2. f[2] = g[2]
    BY <2>1 DEF Owned
  <2> QED BY <2>1, <2>2 DEF Fetchers
<1>2. /\ \A i \in 1..Len(queue) : /\ queue[i].f \in Fetchers
                                  /\ queue[i].p \in fetcher[queue[i].f].left
      /\ \A w \in Workers : worker[w] # None =>
           worker[w].f \in Fetchers /\ worker[w].p \in fetcher[worker[w].f].left
  BY BatchesOfFetchers DEF Awaited
<1>3. ASSUME NEW i \in 1..Len(queue), NEW j \in 1..Len(queue), queue[i].p = queue[j].p
      PROVE  i = j
  <2>1. SameBatch(queue[i], queue[j])
    BY <1>1, <1>2, <1>3 DEF SameBatch
  <2> QED BY <2>1 DEF Apart
<1>4. ASSUME NEW v \in Workers, NEW w \in Workers, worker[v] # None, worker[w] # None,
             worker[v].p = worker[w].p
      PROVE  v = w
  <2>1. SameBatch(worker[v], worker[w])
    BY <1>1, <1>2, <1>4 DEF SameBatch
  <2> QED BY <1>4, <2>1 DEF Apart
<1>5. ASSUME NEW i \in 1..Len(queue), NEW w \in Workers, worker[w] # None,
             queue[i].p = worker[w].p
      PROVE  FALSE
  <2>1. SameBatch(queue[i], worker[w])
    BY <1>1, <1>2, <1>5 DEF SameBatch
  <2> QED BY <1>5, <2>1 DEF Apart
<1> QED BY <1>3, <1>4, <1>5

\* A set with at most one element has cardinality 0 or 1.
LEMMA AtMostOne ==
    ASSUME NEW S, \A x, y \in S : x = y
    PROVE  /\ Cardinality(S) \in {0, 1}
           /\ S = {} => Cardinality(S) = 0
<1>1. CASE S = {}
  BY <1>1, FS_EmptySet
<1>2. CASE S # {}
  <2>1. PICK x \in S : TRUE
    BY <1>2
  <2>2. S = {x}
    BY <2>1
  <2> QED BY <2>2, FS_Singleton
<1> QED BY <1>1, <1>2

\* Whatever the number of workers and brokers, and whatever is stopped,
\* restarted or fails, no partition ever has two batches queued or handled.
THEOREM PartitionsAreExclusive == Spec => []PartitionExclusive
<1>1. FetchInv => PartitionExclusive
  <2> SUFFICES ASSUME FetchInv, NEW p \in Partitions PROVE BatchesOf(p) <= 1
    BY DEF PartitionExclusive
  <2> DEFINE Q == {i \in 1..Len(queue) : queue[i].p = p}
             W == {w \in Busy : worker[w].p = p}
  <2>1. \A i, j \in Q : i = j
    BY OneBatchOfPartition
  <2>2. \A v, w \in W : v = w
    BY OneBatchOfPartition DEF Busy
  <2>3. Q = {} \/ W = {}
    BY OneBatchOfPartition DEF Busy
  <2>4. BatchesOf(p) = Cardinality(Q) + Cardinality(W)
    BY DEF BatchesOf
  <2> HIDE DEF Q, W
  <2>5. /\ Cardinality(Q) \in {0, 1} /\ Cardinality(W) \in {0, 1}
        /\ Cardinality(Q) = 0 \/ Cardinality(W) = 0
    BY <2>1, <2>2, <2>3, AtMostOne
  <2> QED BY <2>4, <2>5
<1> QED BY <1>1, FetchInvariant, PTL

\* While the runner runs, fetchers are started, the group joined again and
\* retries awaited only when every earlier batch was handled.
THEOREM RestartsDrained == Spec => []DrainedBeforeRestart
<1>1. FetchInv => DrainedBeforeRestart
  <2> SUFFICES ASSUME FetchInv, running
               PROVE  /\ mode # "managed" => Busy = {} /\ queue = <<>>
                      /\ \A f \in Fetchers : f[1] < gen => fetcher[f].st \in {"off", "ended"}
    BY DEF DrainedBeforeRestart
  <2>1. \A f \in Fetchers : f[1] < gen => fetcher[f].st \in {"off", "ended"}
    BY DEF FetchInv, RunningFetchers, Idle
  <2>2. ASSUME mode # "managed" PROVE Busy = {} /\ queue = <<>>
    <3>1. \A f \in Fetchers : fetcher[f].left = {}
      BY <2>2 DEF FetchInv, RunningFetchers, Idle, TypeOK
    <3>2. Busy = {}
      BY <3>1, BatchesOfFetchers DEF FetchInv, Awaited, Busy
    <3>3. 1..Len(queue) = {}
      BY <3>1, BatchesOfFetchers DEF FetchInv, Awaited
    <3>4. queue \in Seq(Batch)
      BY DEF FetchInv, TypeOK
    <3>5. Len(queue) = 0
      <4>1. Len(queue) \in Nat /\ 1 \notin 1..Len(queue)
        BY <3>3, <3>4
      <4> QED BY <4>1
    <3> QED BY <3>2, <3>4, <3>5
  <2> QED BY <2>1, <2>2
<1> QED BY <1>1, FetchInvariant, PTL

\* When stop() has returned, no handler of the user is at work.
THEOREM StopLeavesNoHandler == Spec => []StoppedIsQuiet
<1>1. FetchInv => StoppedIsQuiet
  BY DEF FetchInv, StoppedIsQuiet, Lifecycle, LiveAwaited, Busy
<1> QED BY <1>1, FetchInvariant, PTL
=============================================================================

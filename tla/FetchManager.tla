---------------------------- MODULE FetchManager ----------------------------
(***************************************************************************)
(* The fetch loop of a running consumer: src/src/consumer/fetchManager.js, *)
(* fetcher.js, worker.js, workerQueue.js, and the start, stop and          *)
(* scheduleFetchManager of runner.js.                                      *)
(*                                                                         *)
(* There is one fetcher per broker; all fetchers push what they fetch to   *)
(* one queue served by partitionsConsumedConcurrently workers.  The        *)
(* fetchers are replaced as a whole (a new generation) when the set of     *)
(* brokers changes, after an error, and after the group has rebalanced.    *)
(***************************************************************************)
EXTENDS Naturals, Sequences, FiniteSets

CONSTANTS
    Nodes,           \* broker ids
    Partitions,
    Concurrency,     \* partitionsConsumedConcurrently
    None,            \* no fetcher, and no batch
    MaxGenerations,  \* bound on createFetchers()
    MaxNodeChanges,  \* bound on changes of getNodeIds()
    MaxErrors        \* bound on failing fetches, handlers and joins

Workers == 1..Concurrency
Generations == 1..MaxGenerations
Fetchers == Generations \X Nodes

\* What the worker queue holds, and what a worker does.
Batch == [f : Fetchers, p : Partitions]
WorkerItem == [f : Fetchers, p : Partitions, live : BOOLEAN]

ASSUME FetchManagerAssumption ==
    /\ Concurrency \in Nat \ {0}
    /\ MaxNodeChanges \in Nat
    /\ MaxErrors \in Nat
    /\ MaxGenerations \in Nat
    /\ MaxGenerations > MaxNodeChanges + MaxErrors
    /\ IsFiniteSet(Partitions)
    /\ None \notin Nodes /\ None \notin WorkerItem

VARIABLES
    nodeIds,     \* what getNodeIds() returns
    gen,         \* number of the current generation of fetchers
    genNodes,    \* the node ids each generation was created for
    fetcher,     \* the fetchers of all generations
    assigned,    \* partitionAssignments of each generation
    queue,       \* the worker queue
    worker,      \* what each worker is handling
    manager,     \* fetchManager.start(): "off", "running" or "stopping"
    error,       \* the error Promise.all rejected with, or "none"
    awaitEnd,    \* fetchers whose 'end' the manager's own stop() awaits
    running,     \* Runner.running
    consuming,   \* Runner.consuming
    mode,        \* where scheduleFetchManager is
    stopCall,    \* where the call of Runner.stop() is
    stopAwaits,  \* fetchers whose 'end' Runner.stop() awaits
    changes, errors

fetchVars == <<nodeIds, gen, genNodes, fetcher, assigned, queue, worker>>
managerVars == <<manager, error, awaitEnd>>
runnerVars == <<running, consuming, mode>>
stopVars == <<stopCall, stopAwaits>>
bounds == <<changes, errors>>
vars == <<fetchVars, managerVars, runnerVars, stopVars, bounds>>

\* What a fetch or a handler may fail with, as the runner tells them apart:
\* the group rebalances or forgot the member, a retriable error, one that
\* crashes the consumer.
ErrorKind == {"rejoin", "retriable", "fatal"}

\* skipping: Runner.fetch() was called when the runner was not running.
FetcherState == {"off", "fetching", "skipping", "pushing", "ended"}

Unassigned == [p \in Partitions |-> None]

\* The runner has joined its group and is about to schedule the fetch manager.
Init ==
    /\ nodeIds \in (SUBSET Nodes) \ {{}}
    /\ gen = 0
    /\ genNodes = [g \in Generations |-> {}]
    /\ fetcher = [f \in Fetchers |-> [st |-> "off", isRunning |-> FALSE,
                                      pushed |-> {}, left |-> {},
                                      failed |-> FALSE]]
    /\ assigned = [g \in Generations |-> Unassigned]
    /\ queue = <<>>
    /\ worker = [w \in Workers |-> None]
    /\ manager = "off"
    /\ error = "none"
    /\ awaitEnd = {}
    /\ running = TRUE
    /\ consuming = TRUE
    /\ mode = "scheduling"
    /\ stopCall = "none"
    /\ stopAwaits = {}
    /\ changes = 0
    /\ errors = 0

-----------------------------------------------------------------------------
(***************************************************************************)
(* Helpers                                                                 *)
(***************************************************************************)

Ended(F) == \A f \in F : fetcher[f].st = "ended"

\* validateShouldRebalance() throws for the fetchers of generation g.
ShouldRebalance(g) == nodeIds # genNodes[g] /\ nodeIds # {}

\* The catch block of a fetcher, and the end of its loop.
EndedFetcher(r) == [r EXCEPT !.st = "ended", !.isRunning = FALSE]

\* Fetcher f (record r) at the head of its loop: it ends if it was stopped or
\* its fetch throws at once, otherwise it calls Runner.fetch() again.
NextIteration(f, r) ==
    IF ~r.isRunning \/ ShouldRebalance(f[1])
    THEN EndedFetcher(r)
    ELSE [r EXCEPT !.st = IF running THEN "fetching" ELSE "skipping"]

\* The error the head of the loop throws.
IterationError(f, r) ==
    IF r.isRunning /\ ShouldRebalance(f[1]) THEN "fetchers" ELSE "none"

\* Promise.all of the current generation takes the first error only.
Caught(f, e) ==
    error' = IF e # "none" /\ error = "none" /\ manager = "running" /\ f[1] = gen
             THEN e ELSE error

\* A batch handed to a worker.  handleBatch() returns at once if the runner is
\* not running.
Item(b) == [f |-> b.f, p |-> b.p, live |-> running]

\* worker.run() is called for every worker, in order: each idle one takes the
\* next batch of q and starts its handler; for a busy one it does nothing.
WorkersTake(q) ==
    LET rank(w) == Cardinality({v \in 1..w : worker[v] = None})
        taken == {w \in Workers : worker[w] = None /\ rank(w) <= Len(q)}
    IN /\ worker' = [w \in Workers |-> IF w \in taken THEN Item(q[rank(w)])
                                                     ELSE worker[w]]
       /\ queue' = SubSeq(q, Cardinality(taken) + 1, Len(q))

\* Some order of the batches of S, as the queue holds them.
Orders(f, S) ==
    {s \in [1..Cardinality(S) -> {[f |-> f, p |-> p] : p \in S}] :
        \A i, j \in 1..Cardinality(S) : i # j => s[i] # s[j]}

-----------------------------------------------------------------------------
(***************************************************************************)
(* Fetchers                                                                *)
(***************************************************************************)

\* Fetcher f goes on as record r, at the head of its loop.
LoopAgain(f, r) ==
    /\ fetcher' = [fetcher EXCEPT ![f] = NextIteration(f, r)]
    /\ Caught(f, IterationError(f, r))

\* filterUnassignedBatches(): the partitions of S no other fetcher holds.
UnfilteredPartitions(f, S) == S
AvailablePartitions(f, S) == {p \in S : assigned[f[1]][p] \in {None, f[2]}}

\* The fetch of f returns batches of the partitions in S.  Those another
\* fetcher is processing are dropped; the rest is assigned to f and pushed.
FetchReturns(f, S) ==
    LET available == AvailablePartitions(f, S)
    IN /\ \/ fetcher[f].st = "fetching"
          \/ fetcher[f].st = "skipping" /\ S = {}
       /\ IF fetcher[f].isRunning /\ available # {}
          THEN /\ fetcher' = [fetcher EXCEPT ![f].st = "pushing",
                                             ![f].pushed = available,
                                             ![f].left = available]
               /\ assigned' = [assigned EXCEPT ![f[1]] = [p \in Partitions |->
                                 IF p \in available THEN f[2] ELSE @[p]]]
               /\ \E s \in Orders(f, available) : WorkersTake(queue \o s)
               /\ UNCHANGED error
          ELSE /\ LoopAgain(f, fetcher[f])
               /\ UNCHANGED <<assigned, queue, worker>>
       /\ UNCHANGED <<nodeIds, gen, genNodes, manager, awaitEnd, runnerVars,
                      stopVars, bounds>>

\* The fetch of f, or the heartbeat after an empty one, fails.
FetchFails(f, kind) ==
    /\ errors < MaxErrors
    /\ fetcher[f].st = "fetching"
    /\ fetcher' = [fetcher EXCEPT ![f] = EndedFetcher(@)]
    /\ Caught(f, kind)
    /\ errors' = errors + 1
    /\ UNCHANGED <<nodeIds, gen, genNodes, assigned, queue, worker, manager,
                   awaitEnd, runnerVars, stopVars, changes>>

\* unassignTopicPartition() of every batch f pushed.
Released(f) ==
    [assigned EXCEPT ![f[1]] = [p \in Partitions |->
        IF p \in fetcher[f].pushed THEN None ELSE @[p]]]

\* workerQueue.push() settles once every batch of f was handled: the
\* partitions are unassigned, and a failed batch makes push() throw.
PushSettles(f, kind) ==
    LET r == [fetcher[f] EXCEPT !.pushed = {}, !.failed = FALSE]
    IN /\ fetcher[f].st = "pushing"
       /\ fetcher[f].left = {}
       /\ assigned' = Released(f)
       /\ IF fetcher[f].failed
          THEN /\ fetcher' = [fetcher EXCEPT ![f] = EndedFetcher(r)]
               /\ Caught(f, kind)
          ELSE LoopAgain(f, r)
       /\ UNCHANGED <<nodeIds, gen, genNodes, queue, worker, manager, awaitEnd,
                      runnerVars, stopVars, bounds>>

(***************************************************************************)
(* Workers                                                                 *)
(***************************************************************************)

\* The worker settles the promise of its batch: r is the fetcher it is of.
Settle(r, p, ok) == [r EXCEPT !.left = @ \ {p}, !.failed = @ \/ ~ok]

\* The worker asks for its next batch.
TakesNext(w) ==
    IF queue = <<>>
    THEN worker' = [worker EXCEPT ![w] = None] /\ UNCHANGED queue
    ELSE /\ worker' = [worker EXCEPT ![w] = Item(Head(queue))]
         /\ queue' = Tail(queue)

\* The handler of worker w returns or throws; the worker takes the next batch.
\* (That run() may be called again is visible one microtask later in the code.)
HandlerEnds(w, ok) ==
    LET item == worker[w]
    IN /\ item # None
       /\ ok \/ (item.live /\ errors < MaxErrors)
       /\ errors' = IF ok THEN errors ELSE errors + 1
       /\ fetcher' = [fetcher EXCEPT ![item.f] = Settle(@, item.p, ok)]
       /\ TakesNext(w)
       /\ UNCHANGED <<nodeIds, gen, genNodes, assigned, managerVars, runnerVars,
                      stopVars, changes>>

(***************************************************************************)
(* FetchManager                                                            *)
(***************************************************************************)

\* createFetchers() and the start() of every new fetcher.
CreateFetchers ==
    /\ gen < MaxGenerations
    /\ gen' = gen + 1
    /\ genNodes' = [genNodes EXCEPT ![gen + 1] = nodeIds]
    /\ fetcher' = [f \in Fetchers |->
          IF f[1] = gen + 1 /\ f[2] \in nodeIds
          THEN [fetcher[f] EXCEPT !.st = IF running THEN "fetching" ELSE "skipping",
                                  !.isRunning = TRUE]
          ELSE fetcher[f]]

\* The fetchers of the current generation.
Current == {gen} \X (IF gen = 0 THEN {} ELSE genNodes[gen])

\* What FetchManager.stop() awaits: fetchers that are stopped already are
\* not waited for.
NothingAwaited == {}
StillRunning == {f \in Current : fetcher[f].isRunning}

StopFetchers ==
    fetcher' = [f \in Fetchers |-> IF f \in Current
                                   THEN [fetcher[f] EXCEPT !.isRunning = FALSE]
                                   ELSE fetcher[f]]

\* Promise.all rejects: the catch block stops the other fetchers.
ManagerCatches ==
    /\ manager = "running"
    /\ error # "none"
    /\ StopFetchers
    /\ awaitEnd' = StillRunning
    /\ manager' = "stopping"
    /\ UNCHANGED <<nodeIds, gen, genNodes, assigned, queue, worker, error,
                   runnerVars, stopVars, bounds>>

\* Its stop() is through and the brokers had changed: the loop of start() goes
\* round with new fetchers.
FetchersRebalance ==
    /\ manager = "stopping"
    /\ Ended(awaitEnd)
    /\ error = "fetchers"
    /\ nodeIds # {}
    /\ CreateFetchers
    /\ manager' = "running"
    /\ error' = "none"
    /\ awaitEnd' = {}
    /\ UNCHANGED <<nodeIds, assigned, queue, worker, runnerVars, stopVars, bounds>>

\* Every fetcher was stopped: start() resolves and the runner schedules again.
ManagerFinishes ==
    /\ manager = "running"
    /\ error = "none"
    /\ Ended(Current)
    /\ manager' = "off"
    /\ mode' = "scheduling"
    /\ UNCHANGED <<fetchVars, error, awaitEnd, running, consuming, stopVars, bounds>>

(***************************************************************************)
(* Runner                                                                  *)
(***************************************************************************)

\* onCrash() stops the runner (disconnect() calls stop()); the catch handler
\* of scheduleFetchManager() clears both flags.
Crash ==
    /\ mode' = "crashed"
    /\ running' = FALSE
    /\ consuming' = FALSE
    /\ stopCall' = IF running THEN "consumer" ELSE stopCall
    /\ UNCHANGED stopAwaits

\* What consuming becomes when the runner exits.
ExitConsumingKept == consuming' = consuming
ExitConsuming == consuming' = FALSE

\* scheduleFetchManager() when the runner is not running any more.
ScheduleExits ==
    /\ mode = "scheduling"
    /\ ~running
    /\ ExitConsuming
    /\ mode' = "exited"
    /\ UNCHANGED <<fetchVars, managerVars, running, stopVars, bounds>>

\* The retried function: it returns if the runner was stopped, otherwise it
\* calls fetchManager.start(), which fails without brokers.
StartFetchManager ==
    /\ \/ mode = "scheduling" /\ running
       \/ mode = "backoff"
    /\ UNCHANGED <<nodeIds, assigned, queue, worker, error, awaitEnd, bounds>>
    /\ \/ /\ ~running
          /\ mode' = "scheduling"
          /\ UNCHANGED <<gen, genNodes, fetcher, manager, running, consuming,
                         stopVars>>
       \/ /\ running /\ nodeIds # {}
          /\ CreateFetchers
          /\ manager' = "running"
          /\ consuming' = TRUE
          /\ mode' = "managed"
          /\ UNCHANGED <<running, stopVars>>
       \/ /\ running /\ nodeIds = {}
          /\ Crash
          /\ UNCHANGED <<gen, genNodes, fetcher, manager>>

\* The manager's stop() is through and start() rejects: the runner joins its
\* group again, waits for a retry, or gives up.
ManagerFails ==
    /\ manager = "stopping"
    /\ Ended(awaitEnd)
    /\ error # "fetchers" \/ nodeIds = {}
    /\ manager' = "off"
    /\ error' = "none"
    /\ awaitEnd' = {}
    /\ \/ /\ error = "rejoin"
          /\ mode' = "joining"
          /\ UNCHANGED <<running, consuming, stopVars>>
       \/ /\ error = "retriable"
          /\ mode' = "backoff"
          /\ UNCHANGED <<running, consuming, stopVars>>
       \/ /\ error # "rejoin"
          /\ Crash
    /\ UNCHANGED <<fetchVars, bounds>>

\* joinAndSync() is through.
Rejoined ==
    /\ mode = "joining"
    /\ mode' = "scheduling"
    /\ UNCHANGED <<fetchVars, managerVars, running, consuming, stopVars, bounds>>

\* joinAndSync() fails, which the retrier retries or not.
RejoinFails ==
    /\ mode = "joining"
    /\ errors < MaxErrors
    /\ errors' = errors + 1
    /\ \/ mode' = "backoff" /\ UNCHANGED <<running, consuming, stopVars>>
       \/ Crash
    /\ UNCHANGED <<fetchVars, managerVars, changes>>

\* Runner.stop(), up to its await of fetchManager.stop().
Stop ==
    /\ stopCall = "none"
    /\ running
    /\ running' = FALSE
    /\ StopFetchers
    /\ stopAwaits' = StillRunning
    /\ stopCall' = "fetchers"
    /\ UNCHANGED <<nodeIds, gen, genNodes, assigned, queue, worker, managerVars,
                   consuming, mode, bounds>>

\* The fetchers that were running when stop() was called have ended.
NotAwaited == TRUE
FetchersEnded == Ended(stopAwaits)

\* fetchManager.stop() resolves; then waitForConsumer().
StopAwaitsConsumer ==
    /\ stopCall = "fetchers"
    /\ FetchersEnded
    /\ stopCall' = "consumer"
    /\ UNCHANGED <<fetchVars, managerVars, runnerVars, stopAwaits, bounds>>

\* waitForConsumer() resolves; the group is left and stop() returns.
StopReturns ==
    /\ stopCall = "consumer"
    /\ ~consuming
    /\ stopCall' = "stopped"
    /\ UNCHANGED <<fetchVars, managerVars, runnerVars, stopAwaits, bounds>>

\* A metadata refresh adds or removes brokers.
NodesChange ==
    /\ changes < MaxNodeChanges
    /\ changes' = changes + 1
    /\ nodeIds' \in (SUBSET Nodes) \ {nodeIds}
    /\ UNCHANGED <<gen, genNodes, fetcher, assigned, queue, worker, managerVars,
                   runnerVars, stopVars, errors>>

\* stop() has returned: nothing is left to do.
Stopped == stopCall = "stopped" /\ UNCHANGED vars

FetcherStep(f) ==
    \/ \E S \in SUBSET Partitions : FetchReturns(f, S)
    \/ \E kind \in ErrorKind : FetchFails(f, kind) \/ PushSettles(f, kind)

ManagerStep ==
    \/ ManagerCatches
    \/ FetchersRebalance
    \/ ManagerFinishes
    \/ ManagerFails

RunnerStep ==
    \/ ScheduleExits
    \/ StartFetchManager
    \/ Rejoined
    \/ RejoinFails
    \/ StopAwaitsConsumer
    \/ StopReturns

Next ==
    \/ \E f \in Fetchers : FetcherStep(f)
    \/ \E w \in Workers, ok \in BOOLEAN : HandlerEnds(w, ok)
    \/ ManagerStep
    \/ RunnerStep
    \/ Stop
    \/ NodesChange
    \/ Stopped

Spec == Init /\ [][Next]_vars

\* Promise callbacks are run, fetches return (their requests time out), timers
\* fire and handlers end.  Nobody has to call stop(), no broker has to change.
Fairness ==
    /\ \A f \in Fetchers : WF_vars(FetcherStep(f))
    /\ \A w \in Workers : WF_vars(\E ok \in BOOLEAN : HandlerEnds(w, ok))
    /\ WF_vars(ManagerStep)
    /\ WF_vars(ScheduleExits \/ StartFetchManager \/ Rejoined \/ RejoinFails)
    /\ WF_vars(StopAwaitsConsumer \/ StopReturns)

FairSpec == Spec /\ Fairness

-----------------------------------------------------------------------------
(***************************************************************************)
(* Properties                                                              *)
(***************************************************************************)

\* Every variable keeps its type; a fetcher that is not handing over batches
\* has none outstanding, so nothing of an earlier push() is left in it.
TypeOK ==
    /\ nodeIds \subseteq Nodes
    /\ gen \in 0..MaxGenerations
    /\ genNodes \in [Generations -> SUBSET Nodes]
    /\ fetcher \in [Fetchers -> [st : FetcherState, isRunning : BOOLEAN,
                                 pushed : SUBSET Partitions,
                                 left : SUBSET Partitions, failed : BOOLEAN]]
    /\ \A f \in Fetchers :
          /\ fetcher[f].left \subseteq fetcher[f].pushed
          /\ fetcher[f].st # "pushing" => fetcher[f].pushed = {} /\ ~fetcher[f].failed
          /\ fetcher[f].st \in {"off", "ended"} => ~fetcher[f].isRunning
    /\ assigned \in [Generations -> [Partitions -> Nodes \cup {None}]]
    /\ queue \in Seq(Batch)
    /\ worker \in [Workers -> WorkerItem \cup {None}]
    /\ manager \in {"off", "running", "stopping"}
    /\ error \in ErrorKind \cup {"none", "fetchers"}
    /\ awaitEnd \subseteq Fetchers
    /\ running \in BOOLEAN
    /\ consuming \in BOOLEAN
    /\ mode \in {"scheduling", "managed", "joining", "backoff", "exited", "crashed"}
    /\ stopCall \in {"none", "fetchers", "consumer", "stopped"}
    /\ stopAwaits \subseteq Fetchers
    /\ changes \in 0..MaxNodeChanges
    /\ errors \in 0..MaxErrors

Busy == {w \in Workers : worker[w] # None}

\* The batches a partition has in the queue or with a worker.
BatchesOf(p) ==
    Cardinality({i \in 1..Len(queue) : queue[i].p = p})
        + Cardinality({w \in Busy : worker[w].p = p})

\* Messages of a partition are handled one batch at a time, whatever the number
\* of workers, brokers that serve it, and fetcher generations: a second batch of
\* the partition is not even queued (filterUnassignedBatches, and stop() being
\* awaited before createFetchers()).
PartitionExclusive == \A p \in Partitions : BatchesOf(p) <= 1

\* While the runner is running, no handler of earlier fetchers is at work when
\* it starts fetchers, joins its group again or waits to retry: offsets and
\* assignment change only when all batches fetched under the old ones are done.
DrainedBeforeRestart ==
    running => /\ mode # "managed" => Busy = {} /\ queue = <<>>
               /\ \A f \in Fetchers : f[1] < gen => fetcher[f].st \in {"off", "ended"}

\* When stop() returns (the group was left), no handler of a user is running.
StoppedIsQuiet ==
    stopCall = "stopped" => \A w \in Busy : ~worker[w].live

\* Fetchers were replaced after stop() had stopped them: nobody stops the new ones.
Replaced == ~running /\ \E f \in Current : fetcher[f].isRunning

\* A call of Runner.stop() returns, whatever fails meanwhile, unless it came
\* while the manager was replacing its fetchers for new brokers.
StopTerminates == stopCall = "fetchers" ~> stopCall = "stopped" \/ Replaced
=============================================================================

------------------------------- MODULE Group -------------------------------
(***************************************************************************)
(* The life of consumers and of the group they form: run(), stop(), the    *)
(* crash handler and its restart timer (consumer/index.js), the runner     *)
(* that joins, re-joins and leaves (runner.js), joinAndSync() and the      *)
(* round robin assigner (consumerGroup.js), and the offset manager as far  *)
(* as the group can tell: what it commits, under which member id and       *)
(* generation.  The group coordinator is Kafka's and external.             *)
(*                                                                         *)
(* run() and each restart make a new ConsumerGroup and a new Runner, so    *)
(* the state is kept per runner: one that the consumer has forgotten may   *)
(* still be alive.  The partitions belong to one topic, which every        *)
(* consumer subscribes to; partitions may be added to it.  The fetchers    *)
(* are the subject of FetchManager.tla: here they handle one message at a  *)
(* time and stop with the runner.                                          *)
(***************************************************************************)
EXTENDS Integers, Sequences, FiniteSets, SequencesExt, FiniteSetsExt

CONSTANTS
    Consumers,      \* the consumers of the group
    MaxRunners,     \* runners a consumer may create
    First, Added,   \* partitions of the topic at first, and added later
    MaxOffset,      \* messages in a partition
    Retries,        \* retries of joinAndSync()
    Scenarios,      \* what may happen in a behaviour (see budget)
    None            \* null

Runners == Consumers \X (1 .. MaxRunners)
Partitions == First \cup Added
NoOffset == -1      \* an offset not resolved yet

ASSUME GroupAssumption ==
    /\ MaxRunners \in Nat \ {0} /\ MaxOffset \in Nat /\ Retries \in Nat
    /\ Partitions \subseteq Nat /\ None \notin Runners
    /\ Scenarios \subseteq [runners : [Consumers -> 0 .. MaxRunners], grows : BOOLEAN,
                            faults : Nat, stops : Nat]

VARIABLES
    runner,         \* runner[c]: the runner the consumer knows, or None
    stopOf,         \* stopOf[c]: the runner stop() is waiting for, or None
    crash,          \* crash[r]: how far onCrash() of the runner has got
    timers,         \* runners whose crash has a restart timer running
    restartTimeout, \* restartTimeout[c]: the timer the consumer can clear
    metadata,       \* metadata[c]: partitions in the consumer's metadata
    group,          \* group[r]: the ConsumerGroup of a runner
    work,           \* work[r]: the message a handler has, or None
    parts,          \* partitions of the topic
    members,        \* members[id]: the coordinator's view of a member
    coord,          \* the coordinator: state, generation, leader, assignment
    committed,      \* committed[p]: the group's offset
    handled,        \* handled[p]: messages of p some handler has finished
    budget,         \* runners, growth of the topic, faults and calls of stop() left
    stopped,        \* stopped[c]: stop() has resolved, run() not called since
    raced,          \* raced[c]: stop() overlapped a start or the handling of a crash
    lost,           \* member ids the client gave up without leaving
    undrained       \* a runner has re-joined under a working handler

facade == <<runner, stopOf, crash, timers, restartTimeout>>
client == <<metadata, group, work>>
kafka == <<parts, members, coord, committed>>
history == <<handled, stopped, raced, lost, undrained>>
vars == <<facade, client, kafka, history, budget>>

(***************************************************************************)
(* A ConsumerGroup.  "phase" is what its runner awaits: "join" and "sync"  *)
(* a request on its way, "joining" the other members, "aware" the metadata *)
(* of partitions it was given and did not know; "idle" is consuming, "off" *)
(* ended, "new" not created.  "asked" is the id in the JoinGroup request,  *)
(* which the broker object may have been given by an error.  An answer is  *)
(* taken up in the step that gives it.  The offset manager has the member  *)
(* id and the generation of the assignment it was created for.             *)
(***************************************************************************)
NoOffsets == [p \in Partitions |-> NoOffset]
NoManager == [member |-> 0, generation |-> 0, assigned |-> {}, resolved |-> NoOffsets]
NewGroup == [phase |-> "new", started |-> FALSE, running |-> FALSE, memberId |-> 0,
             asked |-> 0, generation |-> 0, plan |-> <<>>, known |-> {}, tries |-> 0,
             offsets |-> NoManager]

Init ==
    /\ runner = [c \in Consumers |-> None] /\ stopOf = runner
    /\ restartTimeout = runner /\ timers = {} /\ crash = [r \in Runners |-> "no"]
    /\ metadata = [c \in Consumers |-> First]
    /\ group = [r \in Runners |-> NewGroup] /\ work = [r \in Runners |-> None]
    /\ parts = First /\ members = <<>> /\ committed = [p \in Partitions |-> 0]
    /\ coord = [state |-> "stable", generation |-> 0, leader |-> 0, assignment |-> <<>>,
                synced |-> {}, lastId |-> 0]
    /\ handled = committed /\ budget \in Scenarios
    /\ stopped = [c \in Consumers |-> FALSE] /\ raced = stopped
    /\ lost = {} /\ undrained = FALSE

Ended(g) == [NewGroup EXCEPT !.phase = "off", !.started = TRUE, !.memberId = g.memberId]
Live(r) == group[r].phase \notin {"new", "off"}
Upd(r, g) == group' = [group EXCEPT ![r] = g]
Fault == budget.faults > 0 /\ budget' = [budget EXCEPT !.faults = @ - 1]
-----------------------------------------------------------------------------
(***************************************************************************)
(* run(), the restart timer: start() makes a ConsumerGroup and a Runner    *)
(* whatever the consumer had, and the runner joins.                        *)
(***************************************************************************)
Fresh(c) == {i \in 1 .. budget.runners[c] : group[<<c, i>>].phase = "new"}

Start(c) ==
    /\ Fresh(c) # {}
    /\ LET r == <<c, Min(Fresh(c))>> IN
         /\ runner' = [runner EXCEPT ![c] = r]
         /\ Upd(r, [NewGroup EXCEPT !.phase = "join"])

Run(c) ==
    /\ runner[c] = None /\ Start(c)
    /\ stopped' = [stopped EXCEPT ![c] = FALSE] /\ raced' = [raced EXCEPT ![c] = FALSE]
    /\ UNCHANGED <<stopOf, crash, timers, restartTimeout, metadata, work, kafka, handled,
                   lost, undrained, budget>>

TimerFires(r) ==
    /\ r \in timers /\ Start(r[1])
    /\ timers' = timers \ {r}
    /\ UNCHANGED <<stopOf, crash, restartTimeout, metadata, work, kafka, history, budget>>

(***************************************************************************)
(* The end of stop(): the consumer forgets its runner and clears the timer *)
(* it knows of.  Everyone who shared the call resumes: the user, and the   *)
(* crash handlers waiting in disconnect().                                 *)
(***************************************************************************)
\* Mutant: clearTimeout() forgotten.
NotCleared(c) == timers
Cleared(c) == timers \ {restartTimeout[c]}

Settle(c, waiting) ==
    /\ runner' = [runner EXCEPT ![c] = None]
    /\ stopOf' = [stopOf EXCEPT ![c] = None]
    /\ timers' = Cleared(c)
    /\ crash' = [r \in Runners |-> IF r[1] = c /\ (crash[r] = "stopping" \/ r = waiting)
                                   THEN "deciding" ELSE crash[r]]

\* stop(): a runner that is not running yet is simply forgotten.
BeginStop(c, by) ==
    LET r == runner[c] IN
    IF stopOf[c] # None \/ (r # None /\ group[r].running)
    THEN /\ stopOf' = [stopOf EXCEPT ![c] = IF @ = None THEN r ELSE @]
         /\ crash' = IF by = None THEN crash ELSE [crash EXCEPT ![by] = "stopping"]
         /\ UNCHANGED <<runner, timers>>
    ELSE Settle(c, by)

NotRunning(c, g) ==
    IF stopOf[c] = None /\ runner[c] # None /\ g[runner[c]].running
    THEN [g EXCEPT ![runner[c]].running = FALSE] ELSE g

InCrash(c) == \E r \in Runners : r[1] = c /\ crash[r] \in {"stopping", "deciding"}
Forgotten(c) ==
    \E r \in Runners :
        /\ r[1] = c
        /\ \/ Live(r) /\ r # runner[c]
           \/ r \in timers /\ (r # restartTimeout[c] \/ runner[c] # None)
Starting(c) == runner[c] # None /\ group[runner[c]].started = FALSE

Stop(c) ==
    /\ budget.stops > 0 /\ budget' = [budget EXCEPT !.stops = @ - 1]
    /\ stopped[c] = FALSE
    /\ BeginStop(c, None)
    /\ group' = NotRunning(c, group)
    /\ stopped' = [stopped EXCEPT ![c] = TRUE]
    /\ raced' = [raced EXCEPT ![c] = @ \/ InCrash(c) \/ Starting(c) \/ Forgotten(c)]
    /\ UNCHANGED <<restartTimeout, metadata, work, kafka, handled, lost, undrained>>

(***************************************************************************)
(* runner.stop() goes on once the fetchers have ended and the schedule has *)
(* exited: leave(), whose failure is ignored, then the rest of stop().     *)
(***************************************************************************)
Without(id) == [i \in DOMAIN members \ {id} |-> members[i]]

Leave(id) ==
    /\ members' = Without(id)
    /\ coord' = [coord EXCEPT !.state = IF id \notin DOMAIN members THEN @
                                        ELSE IF DOMAIN members = {id} THEN "stable" ELSE "preparing"]

\* Mutant: the member id is dropped and the group not told.
ForgetGroup(r) ==
    /\ Upd(r, [group[r] EXCEPT !.memberId = 0])
    /\ UNCHANGED <<members, coord, lost, budget>>

LeaveGroup(r) ==
    LET id == group[r].memberId IN
    \/ /\ id # 0 /\ Leave(id)
       /\ Upd(r, [group[r] EXCEPT !.memberId = 0])
       /\ UNCHANGED <<lost, budget>>
    \/ /\ id # 0 /\ Fault
       /\ lost' = lost \cup {id}
       /\ UNCHANGED <<members, coord, group>>
    \/ id = 0 /\ UNCHANGED <<members, coord, group, lost, budget>>

Stopped(c) ==
    /\ stopOf[c] # None /\ group[stopOf[c]].phase = "off"
    /\ LeaveGroup(stopOf[c])
    /\ Settle(c, None)
    /\ UNCHANGED <<restartTimeout, metadata, work, parts, committed, handled, stopped, raced,
                   undrained>>

(***************************************************************************)
(* onCrash() of a runner: disconnect(), then unless the error or the user  *)
(* says otherwise a restart timer.  The runner itself is over.             *)
(***************************************************************************)
Crashed(r, g) ==
    /\ BeginStop(r[1], r)
    /\ group' = [NotRunning(r[1], group) EXCEPT ![r] = Ended(g)]
    /\ work' = [work EXCEPT ![r] = None]
    /\ lost' = lost \cup ({g.asked} \ {g.memberId})
                    \cup (IF stopOf'[r[1]] = r THEN {} ELSE {g.memberId})
    /\ raced' = [raced EXCEPT ![r[1]] = @ \/ stopped[r[1]]]

Decide(r) ==
    /\ crash[r] = "deciding"
    /\ crash' = [crash EXCEPT ![r] = "over"]
    /\ \/ /\ timers' = timers \cup {r}
          /\ restartTimeout' = [restartTimeout EXCEPT ![r[1]] = r]
       \/ UNCHANGED <<timers, restartTimeout>>
    /\ UNCHANGED <<runner, stopOf, client, kafka, history, budget>>
-----------------------------------------------------------------------------
(***************************************************************************)
(* The assigner: the partitions the leader knows, dealt round to the       *)
(* sorted member ids.                                                      *)
(***************************************************************************)
RoundRobin(ids, known) ==
    LET order == SetToSortSeq(ids, <)
        dealt == SetToSortSeq(known, <)
    IN [id \in ids |-> {dealt[i] : i \in {j \in 1 .. Len(dealt) :
                                            order[((j - 1) % Len(order)) + 1] = id}}]

\* JOIN answered, SYNC begins: the leader reads the metadata and assigns.
Known(r, leads) == IF leads THEN parts ELSE metadata[r[1]]

Joined(r, generation, ids, leader) ==
    LET id == group[r].asked
        known == Known(r, id = leader) IN
    [group[r] EXCEPT !.phase = "sync", !.memberId = id, !.generation = generation, !.known = known,
                     !.plan = IF id = leader THEN RoundRobin(ids, known) ELSE <<>>]

\* joinAndSync() starts over.
Rejoining(g) == [g EXCEPT !.phase = "join", !.asked = g.memberId, !.plan = <<>>]

\* joinAndSync() has failed: the first one crashes the runner; after that the runner's
\* own retrier starts the fetchers again, unless the error is final.
GivesUp(r, final) ==
    LET g == [group[r] EXCEPT !.tries = 0, !.plan = <<>>] IN
    \/ (final \/ ~g.started) /\ Crashed(r, g)
    \/ /\ ~final /\ g.started
       /\ Upd(r, IF g.running THEN [g EXCEPT !.phase = "idle", !.asked = 0] ELSE Ended(g))
       /\ lost' = lost \cup ({g.asked} \ {g.memberId})
       /\ UNCHANGED <<runner, stopOf, crash, timers, work, raced>>

Refused(r, said) ==
    LET g == [group[r] EXCEPT !.tries = @ + 1,
                              !.memberId = IF said = "UNKNOWN_MEMBER_ID" THEN 0 ELSE @] IN
    \/ /\ g.tries <= Retries /\ Upd(r, Rejoining(g))
       /\ UNCHANGED <<runner, stopOf, crash, timers, work, lost, raced>>
    \/ g.tries > Retries /\ GivesUp(r, TRUE)
-----------------------------------------------------------------------------
(***************************************************************************)
(* The coordinator (external).  A JoinGroup without a member id is refused *)
(* with the id to use; one with an unknown id is refused.  A follower that *)
(* joins a group at rest is answered at once with the generation it has.   *)
(***************************************************************************)
JoinArrives(r) ==
    LET id == group[r].asked
        given == id # group[r].memberId
        atRest == id \in DOMAIN members /\ coord.state # "preparing" /\ id # coord.leader IN
    /\ group[r].phase = "join"
    /\ \/ /\ id = 0
          /\ coord' = [coord EXCEPT !.lastId = @ + 1]
          /\ Upd(r, [group[r] EXCEPT !.asked = coord.lastId + 1])
          /\ UNCHANGED <<members, runner, stopOf, crash, timers, work, lost, raced>>
       \/ /\ id # 0 /\ atRest
          /\ Upd(r, Joined(r, coord.generation, {}, coord.leader))
          /\ UNCHANGED <<members, coord, runner, stopOf, crash, timers, work, lost, raced>>
       \/ /\ id # 0 /\ ~atRest /\ (given \/ id \in DOMAIN members)
          /\ members' = [i \in DOMAIN members \cup {id} |->
                           IF i = id THEN r
                           ELSE IF coord.state = "preparing" THEN members[i] ELSE None]
          /\ coord' = [coord EXCEPT !.state = "preparing"]
          /\ Upd(r, [group[r] EXCEPT !.phase = "joining"])
          /\ UNCHANGED <<runner, stopOf, crash, timers, work, lost, raced>>
       \/ /\ id # 0 /\ ~given /\ id \notin DOMAIN members
          /\ Refused(r, "UNKNOWN_MEMBER_ID")
          /\ UNCHANGED <<members, coord>>
    /\ UNCHANGED <<restartTimeout, metadata, parts, committed, handled, stopped, undrained, budget>>

\* Every member has joined: a new generation, which all are told.
JoinCompletes ==
    LET ids == DOMAIN members
        lead == IF coord.leader \in ids THEN coord.leader ELSE Min(ids)
        waiting == {r \in Runners : group[r].phase = "joining"} IN
    /\ coord.state = "preparing"
    /\ \A id \in ids : members[id] # None
    /\ coord' = [coord EXCEPT !.state = "completing", !.generation = @ + 1, !.leader = lead,
                              !.synced = {}]
    /\ group' = [r \in Runners |-> IF r \in waiting THEN Joined(r, coord.generation + 1, ids, lead)
                                   ELSE group[r]]
    /\ metadata' = [c \in Consumers |-> IF \E r \in waiting : r[1] = c /\ group[r].asked = lead
                                        THEN parts ELSE metadata[c]]
    /\ members' = [id \in ids |-> None]
    /\ UNCHANGED <<facade, work, parts, committed, history, budget>>

\* What the coordinator says of a member and a generation.
Judge(id, generation) ==
    IF id \notin DOMAIN members           THEN "UNKNOWN_MEMBER_ID"
    ELSE IF generation # coord.generation THEN "ILLEGAL_GENERATION"
    ELSE IF coord.state = "preparing"     THEN "REBALANCE_IN_PROGRESS"
    ELSE "ok"

\* Offsets are taken while a rebalance is prepared, and refused while it is completed.
JudgeCommit(id, generation) ==
    LET said == Judge(id, generation) IN
    CASE said = "REBALANCE_IN_PROGRESS"               -> "ok"
      [] said = "ok" /\ coord.state = "completing"    -> "REBALANCE_IN_PROGRESS"
      [] OTHER                                        -> said

\* joinAndSync() is done: the fetchers start, or the runner has been stopped.
Manager(g, assigned) ==
    [member |-> g.memberId, generation |-> g.generation, assigned |-> assigned,
     resolved |-> NoOffsets]

Adopted(g, assigned, known) ==
    IF g.started /\ ~g.running THEN Ended(g)
    ELSE [g EXCEPT !.phase = "idle", !.running = TRUE, !.started = TRUE, !.known = known, !.tries = 0,
                   !.asked = 0, !.plan = <<>>, !.offsets = Manager(g, assigned)]

SyncArrives(r) ==
    LET g == group[r]
        said == Judge(g.memberId, g.generation)
        leads == g.memberId = coord.leader
        assigned == (IF coord.state = "completing" THEN g.plan ELSE coord.assignment)[g.memberId] IN
    /\ g.phase = "sync"
    /\ \/ /\ said # "ok" /\ Refused(r, said)
          /\ UNCHANGED coord
       \/ /\ said = "ok" /\ (leads \/ coord.state = "stable")
          /\ coord' = [coord EXCEPT !.state = "stable", !.synced = @ \cup {g.memberId},
                                    !.assignment = IF coord.state = "completing" THEN g.plan ELSE @]
          /\ Upd(r, IF assigned \subseteq g.known THEN Adopted(g, assigned, g.known)
                    ELSE [g EXCEPT !.phase = "aware", !.plan = [id \in {g.memberId} |-> assigned]])
          /\ UNCHANGED <<runner, stopOf, crash, timers, work, lost, raced>>
    /\ UNCHANGED <<restartTimeout, metadata, parts, members, committed, handled, stopped,
                   undrained, budget>>

\* Given partitions it does not know, the member reads the metadata first.
Aware(r) ==
    /\ group[r].phase = "aware"
    /\ metadata' = [metadata EXCEPT ![r[1]] = parts]
    /\ Upd(r, Adopted(group[r], group[r].plan[group[r].memberId], parts))
    /\ UNCHANGED <<facade, work, kafka, history, budget>>

\* A request of joinAndSync() is lost.
JoinFails(r) ==
    /\ group[r].phase \in {"join", "joining", "sync", "aware"} /\ Fault
    /\ GivesUp(r, FALSE)
    /\ members' = [id \in DOMAIN members |-> IF members[id] = r THEN None ELSE members[id]]
    /\ UNCHANGED <<restartTimeout, metadata, parts, coord, committed, handled, stopped, undrained>>

\* A member is dropped when its session expires, or when it never syncs: one that gave up
\* after JOIN goes on with what it had, under the new generation, and its heartbeats are good.
Holder(id) == {r \in Runners : Live(r) /\ id \in {group[r].memberId, group[r].asked}}

Overdue(id) ==
    \/ Holder(id) = {}
    \/ /\ coord.state # "preparing" /\ id \notin coord.synced
       /\ \A r \in Holder(id) : group[r].phase = "idle"

SessionExpires(id) ==
    /\ \/ Overdue(id) /\ UNCHANGED budget
       \/ ~Overdue(id) /\ Fault
    /\ members[id] = None
    /\ Leave(id)
    /\ UNCHANGED <<facade, client, parts, committed, history>>

\* Partitions are added to the topic.
PartitionsAdded ==
    /\ budget.grows /\ parts # Partitions /\ parts' = Partitions
    /\ UNCHANGED <<facade, client, members, coord, committed, history, budget>>
-----------------------------------------------------------------------------
(***************************************************************************)
(* A runner that consumes.  A handler takes the next message of a          *)
(* partition of the current offset manager and, when done, resolves its    *)
(* offset in whatever offset manager there is by then.                     *)
(***************************************************************************)
Handle(r, p) ==
    LET m == group[r].offsets
        next == IF m.resolved[p] = NoOffset THEN committed[p] ELSE m.resolved[p] IN
    /\ group[r].phase = "idle" /\ group[r].running /\ work[r] = None
    /\ p \in m.assigned /\ next < MaxOffset
    /\ work' = [work EXCEPT ![r] = [partition |-> p, offset |-> next]]
    /\ UNCHANGED <<facade, metadata, group, kafka, history, budget>>

HandlerEnds(r) ==
    /\ work[r] # None
    /\ LET p == work[r].partition
           o == work[r].offset + 1 IN
         /\ handled' = [handled EXCEPT ![p] = IF o > @ THEN o ELSE @]
         /\ \/ /\ group[r].offsets.assigned # {}
               /\ Upd(r, [group[r] EXCEPT !.offsets.resolved[p] = o])
               /\ work' = [work EXCEPT ![r] = None]
               /\ UNCHANGED <<runner, stopOf, crash, timers, lost, raced>>
            \/ /\ group[r].offsets.assigned = {}        \* TypeError in resolveOffset()
               /\ Crashed(r, group[r])
    /\ UNCHANGED <<restartTimeout, metadata, kafka, stopped, undrained, budget>>

HandlerFails(r) ==
    /\ work[r] # None /\ group[r].phase = "idle" /\ Fault
    /\ \/ Crashed(r, group[r])                \* the retries are exhausted
       \/ /\ work' = [work EXCEPT ![r] = None]
          /\ UNCHANGED <<runner, stopOf, crash, timers, group, lost, raced>>
    /\ UNCHANGED <<restartTimeout, metadata, kafka, handled, stopped, undrained>>

\* commitOffsets() of the resolved offsets, by a handler or by the user.
\* Mutant: as the member the group is now, not the one the manager was made for.
CommitterNow(g) == [id |-> g.memberId, generation |-> g.generation]
Committer(g) == [id |-> g.offsets.member, generation |-> g.offsets.generation]

\* After UNKNOWN_MEMBER_ID the runner drops its member id, which is not always the refused one.
Expelled(r, said) ==
    /\ Upd(r, Rejoining([group[r] EXCEPT !.memberId = IF said = "UNKNOWN_MEMBER_ID" THEN 0 ELSE @]))
    /\ lost' = IF said = "UNKNOWN_MEMBER_ID" THEN lost \cup {group[r].memberId} ELSE lost

Commit(r) ==
    LET m == group[r].offsets
        by == Committer(group[r])
        said == JudgeCommit(by.id, by.generation)
        changed == {p \in Partitions : m.resolved[p] # NoOffset /\ m.resolved[p] # committed[p]} IN
    /\ group[r].running /\ changed # {}
    /\ \/ /\ said = "ok"
          /\ committed' = [p \in Partitions |-> IF p \in changed THEN m.resolved[p] ELSE committed[p]]
          /\ UNCHANGED <<group, lost>>
       \/ /\ said # "ok" /\ group[r].phase = "idle" /\ work[r] = None
          /\ Expelled(r, said)
          /\ UNCHANGED committed
    /\ UNCHANGED <<facade, metadata, work, parts, members, coord, handled, stopped, raced,
                   undrained, budget>>

\* A heartbeat is refused: the fetchers end, then the runner re-joins.
Heartbeat(r) ==
    LET said == Judge(group[r].memberId, group[r].generation) IN
    /\ group[r].phase = "idle" /\ group[r].running /\ group[r].memberId # 0
    /\ said # "ok" /\ work[r] = None
    /\ Expelled(r, said)
    /\ UNCHANGED <<facade, metadata, work, kafka, handled, stopped, raced, undrained, budget>>

\* fetch(): refreshMetadataIfNecessary(), then checkForStaleAssignment(): the fetch that
\* notices new partitions re-joins, whatever the other fetchers and handlers do.
\* Mutant: new partitions are not looked for.
NeverStale(g, loaded) == FALSE
Stale(g, loaded) == ~(loaded \subseteq g.known)

CheckForStaleAssignment(r) ==
    /\ group[r].phase = "idle" /\ group[r].running /\ Stale(group[r], parts)
    /\ metadata' = [metadata EXCEPT ![r[1]] = parts]
    /\ Upd(r, Rejoining(group[r]))
    /\ undrained' = (undrained \/ work[r] # None)
    /\ UNCHANGED <<facade, work, kafka, handled, stopped, raced, lost, budget>>

\* A stopped runner's fetchers and schedule end.
Drains(r) ==
    /\ group[r].phase = "idle" /\ ~group[r].running /\ work[r] = None
    /\ Upd(r, Ended(group[r]))
    /\ UNCHANGED <<facade, metadata, work, kafka, history, budget>>
-----------------------------------------------------------------------------
RunnerSteps(r) ==
    \/ JoinArrives(r) \/ SyncArrives(r) \/ Aware(r) \/ HandlerEnds(r) \/ Commit(r) \/ Heartbeat(r)
    \/ CheckForStaleAssignment(r) \/ Drains(r)

Next ==
    \/ \E c \in Consumers : Run(c) \/ Stop(c) \/ Stopped(c)
    \/ \E r \in Runners : TimerFires(r) \/ Decide(r) \/ JoinFails(r) \/ HandlerFails(r)
    \/ \E r \in Runners : RunnerSteps(r)
    \/ \E r \in Runners, p \in Partitions : Handle(r, p)
    \/ JoinCompletes \/ PartitionsAdded
    \/ \E id \in DOMAIN members : SessionExpires(id)

Spec == Init /\ [][Next]_vars

\* Answers come, handlers end, timers fire, and overdue members are dropped.
Fairness ==
    /\ \A r \in Runners : WF_vars(RunnerSteps(r)) /\ WF_vars(\E p \in Partitions : Handle(r, p))
    /\ WF_vars(\E r \in Runners : TimerFires(r) \/ Decide(r))
    /\ WF_vars(\E c \in Consumers : Stopped(c))
    /\ WF_vars(JoinCompletes)
    /\ WF_vars(\E id \in DOMAIN members : Overdue(id) /\ SessionExpires(id))

FairSpec == Spec /\ Fairness
-----------------------------------------------------------------------------
(***************************************************************************)
(* The coordinator takes an offset of a partition only from the member it  *)
(* has given the partition to: an offset manager commits as the member and *)
(* generation it was made for (consumerGroup.js SYNC), so once its member  *)
(* has joined anew, what it had resolved is refused.  Not so after a       *)
(* re-join from a fetch under a handler of another fetcher, which then     *)
(* resolves its offset in the new manager.                                 *)
(***************************************************************************)
CommitsByOwner ==
    [][\A p \in Partitions : committed'[p] # committed[p] =>
          \/ undrained
          \/ \E r \in Runners : LET m == group[r].offsets IN
                /\ m.resolved[p] = committed'[p]
                /\ m.member \in DOMAIN coord.assignment /\ p \in coord.assignment[m.member]]_vars

(***************************************************************************)
(* Once stop() has resolved, and until run() is called, no runner of the   *)
(* consumer is alive and no restart is due (consumer/index.js stop), unless*)
(* stop() met a runner still starting, a crash still being handled, or     *)
(* what run() between a crash and its restart leaves: a runner that the    *)
(* consumer has forgotten or will forget.                                  *)
(***************************************************************************)
StopHolds ==
    \A c \in Consumers :
        stopped[c] /\ stopOf[c] = None /\ ~raced[c] =>
            \A r \in Runners : r[1] = c => ~Live(r) /\ r \notin timers

(***************************************************************************)
(* A member the coordinator waits for in a rebalance is a runner that is   *)
(* alive or about to leave, unless its leave() or its start was lost:      *)
(* every other runner that ends has left the group (runner.js stop).       *)
(***************************************************************************)
Leaving(id) == \E c \in Consumers : stopOf[c] # None /\ group[stopOf[c]].memberId = id

NoGhostMember ==
    \A id \in DOMAIN members : Holder(id) # {} \/ Leaving(id) \/ id \in lost

(***************************************************************************)
(* If from some point on some runner is consuming or joining for good,     *)
(* every message of every partition is handled, those of partitions added  *)
(* meanwhile too (consumerGroup.js checkForStaleAssignment, SYNC).         *)
(***************************************************************************)
EveryPartitionConsumed ==
    (<>[](\E r \in Runners : Live(r))) => <>[](\A p \in parts : handled[p] = MaxOffset)
=============================================================================

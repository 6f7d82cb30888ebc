---------------------------- MODULE GroupProofs ----------------------------
(***************************************************************************)
(* Proofs about the life of consumers in their group, for any number of    *)
(* consumers, runners, partitions, retries and faults: stop() is final,    *)
(* every member the coordinator waits for is alive, leaving or given up,   *)
(* and offsets are committed by the owner of their partition.              *)
(***************************************************************************)
EXTENDS Group, WellFoundedInduction, TLAPS

Phases == {"new", "join", "joining", "sync", "aware", "idle", "off"}

\* An offset manager and a ConsumerGroup have these fields.
ManagerOK(m) ==
    /\ m = [member |-> m.member, generation |-> m.generation, assigned |-> m.assigned,
            resolved |-> m.resolved]
    /\ m.generation \in Nat
    /\ m.resolved = [p \in Partitions |-> m.resolved[p]]

GroupOK(g) ==
    /\ g = [phase |-> g.phase, started |-> g.started, running |-> g.running,
            memberId |-> g.memberId, asked |-> g.asked, generation |-> g.generation,
            plan |-> g.plan, known |-> g.known, tries |-> g.tries, offsets |-> g.offsets]
    /\ g.phase \in Phases /\ g.started \in BOOLEAN /\ g.running \in BOOLEAN
    /\ g.memberId \in Nat /\ g.asked \in Nat /\ g.generation \in Nat
    /\ ManagerOK(g.offsets)

\* The ids a ConsumerGroup has, where it is in joinAndSync(); a runner that
\* runs or consumes has been started.
Identity(g) ==
    /\ g.phase \in {"join", "joining"} => g.memberId \in {0, g.asked}
    /\ g.phase \in {"sync", "aware"} => g.asked = g.memberId
    /\ g.phase = "idle" => g.asked = 0 /\ g.started
    /\ g.phase = "new" => g.memberId = 0
    /\ g.running => g.started

GroupsOK ==
    /\ group = [r \in Runners |-> group[r]]
    /\ \A r \in Runners : GroupOK(group[r]) /\ Identity(group[r])

FacadeOK ==
    /\ runner \in [Consumers -> Runners \cup {None}]
    /\ stopOf \in [Consumers -> Runners \cup {None}]
    /\ restartTimeout \in [Consumers -> Runners \cup {None}]
    /\ timers \subseteq Runners
    /\ crash \in [Runners -> {"no", "stopping", "deciding", "over"}]
    /\ stopped \in [Consumers -> BOOLEAN] /\ raced \in [Consumers -> BOOLEAN]
    /\ \A c \in Consumers : runner[c] # None => runner[c][1] = c
    /\ \A c \in Consumers : stopOf[c] # None => stopOf[c][1] = c /\ runner[c] # None
    /\ budget \in [runners : [Consumers -> 0 .. MaxRunners], grows : BOOLEAN,
                   faults : Nat, stops : Nat]

\* A runner that was told to stop and is still alive is the one stop() awaits.
ToldToStop ==
    \A r \in Runners : Live(r) /\ group[r].started /\ ~group[r].running => stopOf[r[1]] = r

\* A stop() that the user did not call was called by the handler of a crash.
StopByCrash ==
    \A c \in Consumers : stopOf[c] # None /\ ~stopped[c] =>
        \E r \in Runners : r[1] = c /\ crash[r] = "stopping"

\* A stop() that met nothing unusual leaves at most the runner it awaits.
StopIsFinal ==
    \A c \in Consumers : stopped[c] /\ ~raced[c] =>
        \A r \in Runners : r[1] = c =>
            /\ r \notin timers /\ crash[r] \notin {"stopping", "deciding"}
            /\ Live(r) => r = stopOf[c]

CoordOK ==
    /\ coord = [state |-> coord.state, generation |-> coord.generation,
                leader |-> coord.leader, assignment |-> coord.assignment,
                synced |-> coord.synced, lastId |-> coord.lastId]
    /\ coord.state \in {"stable", "preparing", "completing"}
    /\ coord.generation \in Nat /\ coord.lastId \in Nat
    /\ 0 \notin DOMAIN members
    /\ \A r \in Runners : /\ group[r].generation <= coord.generation
                          /\ group[r].offsets.generation <= coord.generation

\* The coordinator k has given p to member id, in its generation.
Given(k, id, p) ==
    /\ k.state # "completing"
    /\ id \in DOMAIN k.assignment /\ p \in k.assignment[id]

\* What members of the current generation hold, or are about to hold, is what
\* the coordinator has given them; in a group at rest it has an assignment for
\* every member, and the plan of the leader has one.
OwnersOK ==
    /\ \A r \in Runners : group[r].offsets.generation = coord.generation =>
          \A p \in group[r].offsets.assigned : Given(coord, group[r].offsets.member, p)
    /\ \A r \in Runners :
          group[r].phase = "aware" /\ group[r].generation = coord.generation =>
             \A p \in group[r].plan[group[r].memberId] : Given(coord, group[r].memberId, p)
    /\ \A r \in Runners :
          /\ coord.state = "completing" /\ group[r].phase = "sync"
          /\ group[r].generation = coord.generation /\ group[r].memberId = coord.leader
          => DOMAIN group[r].plan = DOMAIN members
    /\ coord.state = "stable" => DOMAIN members \subseteq DOMAIN coord.assignment

\* Unless a runner has re-joined under a handler, handlers work on partitions of
\* the offset manager there is, and only their offsets are resolved in it.
WorkOK ==
    /\ work = [r \in Runners |-> work[r]]
    /\ \A r \in Runners : work[r] # None => work[r].partition \in Partitions
    /\ \/ undrained
       \/ \A r \in Runners :
            /\ work[r] # None => /\ group[r].phase = "idle"
                                 /\ work[r].partition \in group[r].offsets.assigned
            /\ \A p \in Partitions : group[r].offsets.resolved[p] # NoOffset
                                     => p \in group[r].offsets.assigned

\* The inductive invariant of the group.
GroupInv ==
    /\ GroupsOK /\ FacadeOK /\ CoordOK
    /\ ToldToStop /\ StopByCrash /\ StopIsFinal
    /\ NoGhostMember /\ OwnersOK /\ WorkOK

-----------------------------------------------------------------------------
(***************************************************************************)
(* The records the steps make                                              *)
(***************************************************************************)

\* The empty offset manager is one.
LEMMA NoManagerOK ==
    ManagerOK(NoManager) /\ NoManager.generation = 0 /\ NoManager.assigned = {}
      /\ \A p \in Partitions : NoManager.resolved[p] = NoOffset
BY DEF ManagerOK, NoManager, NoOffsets

\* A runner that has ended keeps its member id only.
LEMMA EndedOK ==
    ASSUME NEW g, GroupOK(g)
    PROVE  /\ GroupOK(Ended(g)) /\ Identity(Ended(g))
           /\ Ended(g).phase = "off" /\ ~Ended(g).running
           /\ Ended(g).memberId = g.memberId /\ Ended(g).generation = 0
           /\ Ended(g).offsets = NoManager
<1> DEFINE e == Ended(g)
<1>1. e = [NewGroup EXCEPT !.phase = "off", !.started = TRUE, !.memberId = g.memberId]
  BY DEF Ended
<1> HIDE DEF e
<1>2. /\ e.phase = "off" /\ e.started = TRUE /\ e.running = FALSE
      /\ e.memberId = g.memberId /\ e.asked = 0 /\ e.generation = 0
      /\ e.offsets = NoManager
  BY <1>1 DEF NewGroup
<1>3. e = [phase |-> e.phase, started |-> e.started, running |-> e.running,
           memberId |-> e.memberId, asked |-> e.asked, generation |-> e.generation,
           plan |-> e.plan, known |-> e.known, tries |-> e.tries, offsets |-> e.offsets]
  BY <1>1 DEF NewGroup
<1>4. GroupOK(e)
  <2>1. e.phase \in Phases /\ e.started \in BOOLEAN /\ e.running \in BOOLEAN
    BY <1>2, Zenon DEF Phases
  <2>2. e.memberId \in Nat /\ e.asked \in Nat /\ e.generation \in Nat
    BY <1>2 DEF GroupOK
  <2> QED BY <1>2, <1>3, <2>1, <2>2, NoManagerOK, Zenon DEF GroupOK
<1> QED BY <1>2, <1>4 DEF Identity, e

\* joinAndSync() starts over with the member id there is.
LEMMA RejoiningOK ==
    ASSUME NEW g, GroupOK(g), g.running => g.started
    PROVE  /\ GroupOK(Rejoining(g)) /\ Identity(Rejoining(g))
           /\ Rejoining(g).phase = "join"
           /\ Rejoining(g).started = g.started /\ Rejoining(g).running = g.running
           /\ Rejoining(g).memberId = g.memberId /\ Rejoining(g).asked = g.memberId
           /\ Rejoining(g).generation = g.generation /\ Rejoining(g).offsets = g.offsets
<1> DEFINE j == Rejoining(g)
<1>1. j = [g EXCEPT !.phase = "join", !.asked = g.memberId, !.plan = <<>>]
  BY DEF Rejoining
<1> HIDE DEF j
<1>2. /\ j.phase = "join" /\ j.started = g.started /\ j.running = g.running
      /\ j.memberId = g.memberId /\ j.asked = g.memberId /\ j.generation = g.generation
      /\ j.offsets = g.offsets
  BY <1>1 DEF GroupOK
<1>3. j = [phase |-> j.phase, started |-> j.started, running |-> j.running,
           memberId |-> j.memberId, asked |-> j.asked, generation |-> j.generation,
           plan |-> j.plan, known |-> j.known, tries |-> j.tries, offsets |-> j.offsets]
  BY <1>1 DEF GroupOK
<1>4. GroupOK(j)
  BY <1>2, <1>3 DEF GroupOK, Phases
<1> QED BY <1>2, <1>4 DEF Identity, j

\* JOIN was answered: the id asked for is the member id, and the leader's plan
\* has an entry for every member.
LEMMA JoinedOK ==
    ASSUME NEW r \in Runners, GroupOK(group[r]), group[r].running => group[r].started,
           NEW generation \in Nat, NEW ids, NEW leader
    PROVE  LET g == Joined(r, generation, ids, leader) IN
           /\ GroupOK(g) /\ Identity(g)
           /\ g.phase = "sync"
           /\ g.started = group[r].started /\ g.running = group[r].running
           /\ g.memberId = group[r].asked /\ g.asked = group[r].asked
           /\ g.generation = generation /\ g.offsets = group[r].offsets
           /\ g.memberId = leader => DOMAIN g.plan = ids
<1> DEFINE id == group[r].asked
           known == Known(r, id = leader)
           plan == IF id = leader THEN RoundRobin(ids, known) ELSE <<>>
           g == Joined(r, generation, ids, leader)
<1>1. id = leader => DOMAIN plan = ids
  BY DEF RoundRobin
<1>2. g = [group[r] EXCEPT !.phase = "sync", !.memberId = id, !.generation = generation,
                           !.known = known, !.plan = plan]
  BY DEF Joined
<1> HIDE DEF known, plan, g
<1> QED BY <1>1, <1>2 DEF GroupOK, Identity, Phases, g

\* joinAndSync() is done.
LEMMA AdoptedOK ==
    ASSUME NEW g, GroupOK(g), NEW assigned, NEW known
    PROVE  LET a == Adopted(g, assigned, known) IN
           /\ GroupOK(a) /\ Identity(a)
           /\ g.started /\ ~g.running => a = Ended(g)
           /\ ~(g.started /\ ~g.running) =>
                /\ a.phase = "idle" /\ a.running /\ a.started
                /\ a.memberId = g.memberId /\ a.generation = g.generation
                /\ a.offsets = Manager(g, assigned)
<1> DEFINE a == Adopted(g, assigned, known)
           m == Manager(g, assigned)
<1>1. ManagerOK(m)
  BY DEF ManagerOK, Manager, NoOffsets, GroupOK
<1>2. CASE g.started /\ ~g.running
  BY <1>2, EndedOK DEF Adopted
<1>3. CASE ~(g.started /\ ~g.running)
  <2>1. a = [g EXCEPT !.phase = "idle", !.running = TRUE, !.started = TRUE, !.known = known,
                      !.tries = 0, !.asked = 0, !.plan = <<>>, !.offsets = m]
    BY <1>3 DEF Adopted
  <2> HIDE DEF m, a
  <2>2. /\ a.phase = "idle" /\ a.running = TRUE /\ a.started = TRUE
        /\ a.memberId = g.memberId /\ a.generation = g.generation /\ a.asked = 0
        /\ a.offsets = m
    BY <2>1 DEF GroupOK
  <2>3. a = [phase |-> a.phase, started |-> a.started, running |-> a.running,
             memberId |-> a.memberId, asked |-> a.asked, generation |-> a.generation,
             plan |-> a.plan, known |-> a.known, tries |-> a.tries, offsets |-> a.offsets]
    BY <2>1 DEF GroupOK
  <2>4. GroupOK(a)
    <3>1. a.phase \in Phases /\ a.started \in BOOLEAN /\ a.running \in BOOLEAN
      BY <2>2, Zenon DEF Phases
    <3>2. a.memberId \in Nat /\ a.asked \in Nat /\ a.generation \in Nat
      BY <2>2 DEF GroupOK
    <3> QED BY <1>1, <2>2, <2>3, <3>1, <3>2, Zenon DEF GroupOK
  <2> QED BY <1>3, <2>2, <2>4 DEF Identity, m, a
<1> QED BY <1>2, <1>3

-----------------------------------------------------------------------------
(***************************************************************************)
(* What a step of one runner keeps                                         *)
(***************************************************************************)

Budgets == [runners : [Consumers -> 0 .. MaxRunners], grows : BOOLEAN, faults : Nat,
            stops : Nat]

\* A step of a runner that leaves the consumer alone keeps what is known of
\* stop(), if no runner comes to life and none is told to stop.
LEMMA FacadeKept ==
    ASSUME GroupInv, NEW r \in Runners, NEW g, group' = [group EXCEPT ![r] = g],
           g.phase \notin {"new", "off"} =>
               /\ Live(r)
               /\ g.started /\ ~g.running => group[r].started /\ ~group[r].running,
           UNCHANGED <<runner, stopOf, crash, timers, restartTimeout, stopped, raced>>,
           budget' \in Budgets
    PROVE  FacadeOK' /\ ToldToStop' /\ StopByCrash' /\ StopIsFinal'
<1> USE DEF GroupInv
<1>1. \A q \in Runners : group'[q] = IF q = r THEN g ELSE group[q]
  BY DEF GroupsOK
<1>2. FacadeOK'
  BY DEF FacadeOK, Budgets
<1>3. ToldToStop'
  BY <1>1 DEF ToldToStop, Live
<1>4. StopByCrash'
  BY DEF StopByCrash
<1>5. StopIsFinal'
  BY <1>1 DEF StopIsFinal, Live
<1> QED BY <1>2, <1>3, <1>4, <1>5

\* The offsets a ConsumerGroup would commit in generation n of the coordinator k
\* belong to partitions that its member was given, and the plan it is about to
\* adopt or to propose is the group's.
HoldsItsOwn(g, k, ids) ==
    /\ g.generation <= k.generation /\ g.offsets.generation <= k.generation
    /\ g.offsets.generation = k.generation =>
          \A p \in g.offsets.assigned : Given(k, g.offsets.member, p)
    /\ g.phase = "aware" /\ g.generation = k.generation =>
          \A p \in g.plan[g.memberId] : Given(k, g.memberId, p)
    /\ k.state = "completing" /\ g.phase = "sync" /\ g.generation = k.generation
          /\ g.memberId = k.leader => DOMAIN g.plan = ids

\* A step of runner r leaves the consumer alone; nobody comes to life, or is told to stop.
ConsumerKept(r, g) ==
    /\ UNCHANGED <<runner, stopOf, crash, timers, restartTimeout, stopped, raced>>
    /\ budget' \in Budgets
    /\ g.phase \notin {"new", "off"} =>
          /\ Live(r)
          /\ g.started /\ ~g.running => group[r].started /\ ~group[r].running

\* The ids it drops are lost, not of the group, or of a runner about to leave.
IdsKept(r, g) ==
    /\ lost \subseteq lost'
    /\ \A id \in DOMAIN members' :
          id \in DOMAIN members \/ (g.phase \notin {"new", "off"} /\ id = g.asked)
    /\ \A id \in DOMAIN members' : Live(r) /\ id \in {group[r].memberId, group[r].asked} =>
          \/ g.phase \notin {"new", "off"} /\ id \in {g.memberId, g.asked}
          \/ id \in lost'
          \/ stopOf[r[1]] = r /\ g.memberId = id
    /\ group[r].memberId \in DOMAIN members' =>
          g.memberId = group[r].memberId \/ group[r].memberId \in lost'

\* The coordinator takes nothing from the members of its generation.
CoordKept ==
    /\ coord' = [state |-> coord'.state, generation |-> coord'.generation,
                 leader |-> coord'.leader, assignment |-> coord'.assignment,
                 synced |-> coord'.synced, lastId |-> coord'.lastId]
    /\ coord'.state \in {"stable", "preparing", "completing"}
    /\ coord'.generation = coord.generation /\ coord'.lastId \in Nat
    /\ 0 \notin DOMAIN members'
    /\ \A id, p : Given(coord, id, p) => Given(coord', id, p)
    /\ coord'.state = "completing" => /\ coord.state = "completing"
                                      /\ coord'.leader = coord.leader
                                      /\ DOMAIN members' = DOMAIN members
    /\ coord'.state = "stable" => DOMAIN members' \subseteq DOMAIN coord'.assignment

\* Handlers work on partitions of the offset manager, unless the step re-joins under one.
WorkKept(r, g) ==
    /\ work' \in {work, [work EXCEPT ![r] = None]} /\ (undrained => undrained')
    /\ \/ undrained'
       \/ /\ work'[r] # None => g.phase = "idle" /\ work[r].partition \in g.offsets.assigned
          /\ \A p \in Partitions : g.offsets.resolved[p] # NoOffset => p \in g.offsets.assigned

\* A step of one runner that does as much keeps the invariant.
LEMMA RunnerStepInv ==
    ASSUME GroupInv, NEW r \in Runners, NEW g, group' = [group EXCEPT ![r] = g],
           GroupOK(g), Identity(g), HoldsItsOwn(g, coord', DOMAIN members'),
           ConsumerKept(r, g), IdsKept(r, g), CoordKept, WorkKept(r, g)
    PROVE  GroupInv'
<1>1. \A q \in Runners : group'[q] = IF q = r THEN g ELSE group[q]
  BY DEF GroupInv, GroupsOK
<1>2. GroupsOK'
  <2>1. group' = [q \in Runners |-> group'[q]]
    BY DEF GroupInv, GroupsOK
  <2> QED BY <1>1, <2>1 DEF GroupInv, GroupsOK
<1>3. FacadeOK' /\ ToldToStop' /\ StopByCrash' /\ StopIsFinal'
  BY FacadeKept DEF ConsumerKept
<1>4. NoGhostMember'
  <2> USE DEF ConsumerKept, IdsKept
  <2> SUFFICES ASSUME NEW id \in DOMAIN members'
               PROVE  Holder(id)' # {} \/ Leaving(id)' \/ id \in lost'
    BY DEF GroupInv, NoGhostMember
  <2>2. CASE id \notin DOMAIN members
    <3>1. r \in Holder(id)'
      BY <1>1, <2>2 DEF Holder, Live
    <3> QED BY <3>1
  <2>3. CASE \E q \in Runners : q \in Holder(id) /\ q # r
    <3>1. PICK q \in Runners : q \in Holder(id) /\ q # r
      BY <2>3
    <3>2. q \in Holder(id)'
      BY <1>1, <3>1 DEF Holder, Live
    <3> QED BY <3>2
  <2>4. CASE r \in Holder(id)
    <3>1. Live(r) /\ id \in {group[r].memberId, group[r].asked}
      BY <2>4 DEF Holder
    <3>2. CASE g.phase \notin {"new", "off"} /\ id \in {g.memberId, g.asked}
      <4>1. r \in Holder(id)'
        BY <1>1, <3>2 DEF Holder, Live
      <4> QED BY <4>1
    <3>3. CASE stopOf[r[1]] = r /\ g.memberId = id
      <4>1. r[1] \in Consumers /\ r # None
        BY GroupAssumption DEF Runners
      <4> QED BY <1>1, <3>3, <4>1 DEF Leaving
    <3> QED BY <3>1, <3>2, <3>3
  <2>5. CASE Leaving(id)
    <3>1. PICK c \in Consumers : stopOf[c] # None /\ group[stopOf[c]].memberId = id
      BY <2>5 DEF Leaving
    <3>2. stopOf[c] \in Runners
      BY <3>1 DEF GroupInv, FacadeOK
    <3>3. CASE stopOf[c] = r
      BY <1>1, <3>1, <3>2, <3>3 DEF Leaving
    <3>4. CASE stopOf[c] # r
      BY <1>1, <3>1, <3>2, <3>4 DEF Leaving
    <3> QED BY <3>3, <3>4
  <2>6. Holder(id) \subseteq Runners
    BY DEF Holder
  <2> QED BY <2>2, <2>3, <2>4, <2>5, <2>6 DEF GroupInv, NoGhostMember
<1>5. CoordOK'
  BY <1>1 DEF GroupInv, CoordOK, HoldsItsOwn, CoordKept
<1>6. OwnersOK'
  <2>1. ASSUME NEW q \in Runners
        PROVE  HoldsItsOwn(group'[q], coord', DOMAIN members')
    <3>1. CASE q = r
      BY <1>1, <3>1
    <3>2. CASE q # r
      BY <1>1, <3>2 DEF GroupInv, CoordOK, OwnersOK, HoldsItsOwn, CoordKept
    <3> QED BY <3>1, <3>2
  <2> QED BY <2>1 DEF OwnersOK, HoldsItsOwn, CoordKept
<1>7. WorkOK'
  <2>1. \A q \in Runners : work'[q] = work[q] \/ (q = r /\ work'[q] = None)
    BY DEF GroupInv, WorkOK, WorkKept
  <2>2. work' = [q \in Runners |-> work'[q]]
    BY DEF GroupInv, WorkOK, WorkKept
  <2> QED BY <1>1, <2>1, <2>2 DEF GroupInv, WorkOK, WorkKept
<1> QED BY <1>2, <1>3, <1>4, <1>5, <1>6, <1>7 DEF GroupInv

-----------------------------------------------------------------------------
(***************************************************************************)
(* stop() and crashes                                                      *)
(***************************************************************************)

\* Two ConsumerGroups differ at most in whether their runner runs.
SameButRunning(g, h) ==
    /\ g.phase = h.phase /\ g.started = h.started /\ g.memberId = h.memberId
    /\ g.asked = h.asked /\ g.generation = h.generation /\ g.plan = h.plan
    /\ g.offsets = h.offsets

\* stop() takes the running flag of the consumer's runner, no more.
LEMMA NotRunningOK ==
    ASSUME GroupInv, NEW c \in Consumers
    PROVE  LET n == NotRunning(c, group) IN
           /\ n = [q \in Runners |-> n[q]]
           /\ \A q \in Runners :
                /\ GroupOK(n[q]) /\ Identity(n[q]) /\ SameButRunning(n[q], group[q])
                /\ n[q].running = group[q].running
                   \/ (stopOf[c] = None /\ q = runner[c] /\ group[q].running /\ ~n[q].running)
                /\ q[1] # c => n[q] = group[q]
<1> DEFINE n == NotRunning(c, group)
           k == runner[c]
<1> USE DEF GroupInv
<1>1. CASE ~(stopOf[c] = None /\ runner[c] # None /\ group[runner[c]].running)
  <2>1. n = group
    BY <1>1 DEF NotRunning
  <2> QED BY <2>1 DEF GroupsOK, SameButRunning
<1>2. CASE stopOf[c] = None /\ runner[c] # None /\ group[runner[c]].running
  <2> DEFINE g == [group[k] EXCEPT !.running = FALSE]
  <2>1. k \in Runners /\ k[1] = c
    BY <1>2 DEF FacadeOK
  <2>2. n = [group EXCEPT ![k] = g]
    BY <1>2 DEF NotRunning
  <2>3. GroupOK(group[k]) /\ Identity(group[k])
    BY <2>1 DEF GroupsOK
  <2>a. g = [group[k] EXCEPT !.running = FALSE]
    OBVIOUS
  <2> HIDE DEF g
  <2>4. /\ g.phase = group[k].phase /\ g.started = group[k].started
        /\ g.memberId = group[k].memberId /\ g.asked = group[k].asked
        /\ g.generation = group[k].generation /\ g.plan = group[k].plan
        /\ g.offsets = group[k].offsets
    BY <2>3, <2>a DEF GroupOK
  <2>b. g.running = FALSE
    BY <2>3, <2>a DEF GroupOK
  <2>5. GroupOK(g)
    <3>1. g = [phase |-> g.phase, started |-> g.started, running |-> g.running,
               memberId |-> g.memberId, asked |-> g.asked, generation |-> g.generation,
               plan |-> g.plan, known |-> g.known, tries |-> g.tries, offsets |-> g.offsets]
      BY <2>3, <2>a DEF GroupOK
    <3>2. g.running \in BOOLEAN
      BY <2>b
    <3> QED BY <2>3, <2>4, <3>1, <3>2 DEF GroupOK
  <2>6. Identity(g) /\ SameButRunning(g, group[k]) /\ ~g.running
    BY <2>3, <2>4, <2>b DEF Identity, SameButRunning
  <2>7. \A q \in Runners : n[q] = IF q = k THEN g ELSE group[q]
    BY <2>1, <2>2 DEF GroupsOK
  <2>8. n = [q \in Runners |-> n[q]]
    BY <2>1, <2>2 DEF GroupsOK
  <2> HIDE DEF n, k
  <2>9. \A q \in Runners : SameButRunning(group[q], group[q])
    BY DEF SameButRunning
  <2> QED BY <1>2, <2>1, <2>5, <2>6, <2>7, <2>8, <2>9 DEF n, k, GroupsOK
<1> QED BY <1>1, <1>2

\* How stop() begins: it awaits the runner it told to stop, or one it was
\* awaiting already, or is over at once.
LEMMA StopBegins ==
    ASSUME GroupInv, NEW c \in Consumers, NEW by \in Runners \cup {None},
           by # None => by[1] = c, BeginStop(c, by)
    PROVE  LET n == NotRunning(c, group) IN
           /\ runner' \in [Consumers -> Runners \cup {None}]
           /\ stopOf' \in [Consumers -> Runners \cup {None}]
           /\ timers' \subseteq timers
           /\ crash' \in [Runners -> {"no", "stopping", "deciding", "over"}]
           /\ \A d \in Consumers : runner'[d] # None => runner'[d][1] = d
           /\ \A d \in Consumers : stopOf'[d] # None => stopOf'[d][1] = d /\ runner'[d] # None
           /\ \A d \in Consumers : d # c => stopOf'[d] = stopOf[d]
           /\ stopOf[c] # None => stopOf'[c] = stopOf[c]
           /\ \A q \in Runners : q[1] # c => crash'[q] = crash[q]
           /\ by # None /\ stopOf'[c] # None => crash'[by] = "stopping"
           /\ \A q \in Runners : Live(q) /\ n[q].started /\ ~n[q].running
                                 => stopOf'[q[1]] = q
<1> DEFINE n == NotRunning(c, group)
           k == runner[c]
           awaits == stopOf[c] # None \/ (k # None /\ group[k].running)
<1> USE DEF GroupInv
<1>1. \A q \in Runners : q[1] \in Consumers /\ q # None
  BY GroupAssumption DEF Runners
<1>2. /\ \A d \in Consumers : d # c => stopOf'[d] = stopOf[d]
      /\ stopOf[c] # None => stopOf'[c] = stopOf[c]
      /\ stopOf[c] = None /\ awaits => stopOf'[c] = k
  BY DEF BeginStop, Settle, FacadeOK
<1>3. \A q \in Runners : Live(q) /\ n[q].started /\ ~n[q].running => stopOf'[q[1]] = q
  <2> SUFFICES ASSUME NEW q \in Runners, Live(q), n[q].started, ~n[q].running
               PROVE  stopOf'[q[1]] = q
    OBVIOUS
  <2>1. /\ SameButRunning(n[q], group[q])
        /\ \/ n[q].running = group[q].running
           \/ stopOf[c] = None /\ q = runner[c] /\ group[q].running
    BY NotRunningOK
  <2> HIDE DEF n
  <2>2. CASE ~group[q].running
    <3>1. stopOf[q[1]] = q
      BY <2>1, <2>2 DEF ToldToStop, SameButRunning
    <3> QED BY <1>1, <1>2, <3>1
  <2>3. CASE stopOf[c] = None /\ q = runner[c] /\ group[q].running
    <3>1. q[1] = c /\ awaits
      BY <1>1, <2>3 DEF FacadeOK
    <3> QED BY <1>2, <2>3, <3>1
  <2> QED BY <2>1, <2>2, <2>3
<1>4. /\ runner' \in [Consumers -> Runners \cup {None}]
      /\ stopOf' \in [Consumers -> Runners \cup {None}]
      /\ timers' \subseteq timers
      /\ crash' \in [Runners -> {"no", "stopping", "deciding", "over"}]
  <2>1. CASE awaits
    BY <2>1 DEF BeginStop, FacadeOK
  <2>2. CASE ~awaits
    BY <2>2 DEF BeginStop, Settle, Cleared, FacadeOK
  <2> QED BY <2>1, <2>2
<1>5. /\ \A d \in Consumers : runner'[d] # None => runner'[d][1] = d
      /\ \A d \in Consumers : stopOf'[d] # None => stopOf'[d][1] = d /\ runner'[d] # None
  <2>1. CASE awaits
    BY <2>1 DEF BeginStop, FacadeOK
  <2>2. CASE ~awaits
    BY <2>2 DEF BeginStop, Settle, FacadeOK
  <2> QED BY <2>1, <2>2
<1>6. /\ \A q \in Runners : q[1] # c => crash'[q] = crash[q]
      /\ by # None /\ stopOf'[c] # None => crash'[by] = "stopping"
  <2>1. CASE awaits
    BY <2>1 DEF BeginStop, FacadeOK
  <2>2. CASE ~awaits
    BY <2>2 DEF BeginStop, Settle, FacadeOK
  <2> QED BY <2>1, <2>2
<1> QED BY <1>2, <1>3, <1>4, <1>5, <1>6

\* A runner crashes, whatever it was doing: its ids are left with stop(), or lost.
LEMMA CrashedInv ==
    ASSUME GroupInv, NEW r \in Runners, NEW g, GroupOK(g), Crashed(r, g),
           g.memberId = group[r].memberId, g.asked = group[r].asked,
           DOMAIN members' = DOMAIN members, budget' \in Budgets,
           UNCHANGED <<restartTimeout, coord, undrained, stopped>>
    PROVE  GroupInv'
<1> DEFINE c == r[1]
           n == NotRunning(c, group)
<1> USE DEF GroupInv
<1>1. r[1] \in Consumers /\ r \in Runners \cup {None} /\ r # None
  BY GroupAssumption DEF Runners
<1>2. /\ BeginStop(c, r)
      /\ group' = [n EXCEPT ![r] = Ended(g)]
      /\ work' = [work EXCEPT ![r] = None]
      /\ lost' = lost \cup ({g.asked} \ {g.memberId})
                     \cup (IF stopOf'[c] = r THEN {} ELSE {g.memberId})
      /\ raced' = [raced EXCEPT ![c] = @ \/ stopped[c]]
  BY DEF Crashed
<1>3. /\ n = [q \in Runners |-> n[q]]
      /\ \A q \in Runners : /\ GroupOK(n[q]) /\ Identity(n[q])
                            /\ SameButRunning(n[q], group[q])
                            /\ q[1] # c => n[q] = group[q]
  BY <1>1, NotRunningOK
<1>4. /\ runner' \in [Consumers -> Runners \cup {None}]
      /\ stopOf' \in [Consumers -> Runners \cup {None}]
      /\ timers' \subseteq timers
      /\ crash' \in [Runners -> {"no", "stopping", "deciding", "over"}]
      /\ \A d \in Consumers : runner'[d] # None => runner'[d][1] = d
      /\ \A d \in Consumers : stopOf'[d] # None => stopOf'[d][1] = d /\ runner'[d] # None
      /\ \A d \in Consumers : d # c => stopOf'[d] = stopOf[d]
      /\ stopOf[c] # None => stopOf'[c] = stopOf[c]
      /\ \A q \in Runners : q[1] # c => crash'[q] = crash[q]
      /\ stopOf'[c] # None => crash'[r] = "stopping"
      /\ \A q \in Runners : Live(q) /\ n[q].started /\ ~n[q].running => stopOf'[q[1]] = q
  BY <1>1, <1>2, StopBegins
<1> HIDE DEF n, c
<1>5. \A q \in Runners : group'[q] = IF q = r THEN Ended(g) ELSE n[q]
  BY <1>2, <1>3
<1>6. GroupsOK'
  <2>1. group' = [q \in Runners |-> group'[q]]
    BY <1>2, <1>3
  <2> QED BY <1>3, <1>5, <2>1, EndedOK DEF GroupsOK
<1>7. raced' \in [Consumers -> BOOLEAN] /\ \A d \in Consumers :
          IF d = c THEN raced'[d] <=> raced[d] \/ stopped[d] ELSE raced'[d] = raced[d]
  BY <1>1, <1>2 DEF FacadeOK, c
<1>8. FacadeOK'
  BY <1>4, <1>7 DEF FacadeOK, Budgets
<1>9. \A q \in Runners : q # r => SameButRunning(group'[q], group[q])
  BY <1>3, <1>5
<1>10. ToldToStop'
  BY <1>4, <1>5, <1>9, EndedOK DEF ToldToStop, Live, SameButRunning
<1>11. StopByCrash'
  <2> SUFFICES ASSUME NEW d \in Consumers, stopOf'[d] # None, ~stopped[d]
               PROVE  \E q \in Runners : q[1] = d /\ crash'[q] = "stopping"
    BY DEF StopByCrash
  <2>1. CASE d = c
    BY <1>4, <2>1 DEF c
  <2>2. CASE d # c
    BY <1>4, <2>2 DEF StopByCrash
  <2> QED BY <2>1, <2>2
<1>12. StopIsFinal'
  <2> SUFFICES ASSUME NEW d \in Consumers, stopped[d], ~raced'[d], NEW q \in Runners, q[1] = d
               PROVE  /\ q \notin timers' /\ crash'[q] \notin {"stopping", "deciding"}
                      /\ Live(q)' => q = stopOf'[d]
    BY DEF StopIsFinal
  <2>1. d # c /\ q # r /\ ~raced[d] /\ stopOf'[d] = stopOf[d]
    BY <1>4, <1>7 DEF c
  <2>2. Live(q)' = Live(q)
    BY <1>9, <2>1 DEF Live, SameButRunning
  <2> QED BY <1>4, <2>1, <2>2 DEF StopIsFinal
<1>13. NoGhostMember'
  <2> SUFFICES ASSUME NEW id \in DOMAIN members
               PROVE  Holder(id)' # {} \/ Leaving(id)' \/ id \in lost'
    BY DEF NoGhostMember
  <2>1. CASE \E q \in Runners : q \in Holder(id) /\ q # r
    <3>1. PICK q \in Runners : q \in Holder(id) /\ q # r
      BY <2>1
    <3>2. q \in Holder(id)'
      BY <1>9, <3>1 DEF Holder, Live, SameButRunning
    <3> QED BY <3>2
  <2>2. CASE id \in {g.memberId, g.asked}
    <3>1. CASE stopOf'[c] = r /\ id = g.memberId
      <4>1. group'[r].memberId = id
        BY <1>5, <3>1, EndedOK
      <4> QED BY <1>1, <3>1, <4>1 DEF Leaving, c
    <3>2. CASE ~(stopOf'[c] = r /\ id = g.memberId)
      BY <1>2, <2>2, <3>2
    <3> QED BY <3>1, <3>2
  <2>3. CASE Leaving(id)
    <3>1. PICK d \in Consumers : stopOf[d] # None /\ group[stopOf[d]].memberId = id
      BY <2>3 DEF Leaving
    <3>2. stopOf'[d] = stopOf[d] /\ stopOf[d] \in Runners
      BY <1>4, <3>1 DEF FacadeOK
    <3>3. group'[stopOf[d]].memberId = id
      BY <1>5, <1>9, <3>1, <3>2, EndedOK DEF SameButRunning
    <3> QED BY <3>1, <3>2, <3>3 DEF Leaving
  <2>4. CASE id \in lost
    BY <1>2, <2>4
  <2>5. Holder(id) \subseteq Runners /\ (r \in Holder(id) => id \in {g.memberId, g.asked})
    BY DEF Holder
  <2> QED BY <2>1, <2>2, <2>3, <2>4, <2>5 DEF NoGhostMember
<1>14. CoordOK'
  <2>1. Ended(g).generation = 0 /\ Ended(g).offsets.generation = 0
    BY EndedOK, NoManagerOK
  <2> QED BY <1>5, <1>9, <2>1 DEF CoordOK, SameButRunning
<1>15. OwnersOK'
  <2>1. Ended(g).phase = "off" /\ Ended(g).offsets.assigned = {}
    BY EndedOK, NoManagerOK
  <2> QED BY <1>5, <1>9, <2>1 DEF OwnersOK, SameButRunning
<1>16. WorkOK'
  <2>1. \A q \in Runners : work'[q] = IF q = r THEN None ELSE work[q]
    BY <1>2 DEF WorkOK
  <2>2. work' = [q \in Runners |-> work'[q]]
    BY <1>2 DEF WorkOK
  <2>3. Ended(g).offsets = NoManager
    BY EndedOK
  <2> QED BY <1>5, <1>9, <2>1, <2>2, <2>3, NoManagerOK DEF WorkOK, SameButRunning
<1> QED BY <1>6, <1>8, <1>10, <1>11, <1>12, <1>13, <1>14, <1>15, <1>16

\* The user calls stop().
LEMMA StopInv ==
    ASSUME GroupInv, NEW c \in Consumers, Stop(c)
    PROVE  GroupInv'
<1> DEFINE n == NotRunning(c, group)
<1> USE DEF GroupInv, kafka
<1>1. /\ ~stopped[c] /\ BeginStop(c, None) /\ group' = n
      /\ stopped' = [stopped EXCEPT ![c] = TRUE]
      /\ raced' = [raced EXCEPT ![c] = @ \/ InCrash(c) \/ Starting(c) \/ Forgotten(c)]
      /\ UNCHANGED <<restartTimeout, work, members, coord, lost, undrained>>
  BY DEF Stop
<1>2. budget' \in Budgets
  BY DEF Stop, FacadeOK, Budgets
<1>3. /\ n = [q \in Runners |-> n[q]]
      /\ \A q \in Runners : /\ GroupOK(n[q]) /\ Identity(n[q])
                            /\ SameButRunning(n[q], group[q])
  BY NotRunningOK
<1>4. /\ runner' \in [Consumers -> Runners \cup {None}]
      /\ stopOf' \in [Consumers -> Runners \cup {None}]
      /\ timers' \subseteq timers
      /\ crash' \in [Runners -> {"no", "stopping", "deciding", "over"}]
      /\ \A d \in Consumers : runner'[d] # None => runner'[d][1] = d
      /\ \A d \in Consumers : stopOf'[d] # None => stopOf'[d][1] = d /\ runner'[d] # None
      /\ \A d \in Consumers : d # c => stopOf'[d] = stopOf[d]
      /\ stopOf[c] # None => stopOf'[c] = stopOf[c]
      /\ \A q \in Runners : q[1] # c => crash'[q] = crash[q]
      /\ \A q \in Runners : Live(q) /\ n[q].started /\ ~n[q].running => stopOf'[q[1]] = q
  BY <1>1, StopBegins
<1> HIDE DEF n
<1>5. GroupsOK'
  BY <1>1, <1>3 DEF GroupsOK
<1>6. /\ raced' \in [Consumers -> BOOLEAN] /\ stopped' \in [Consumers -> BOOLEAN]
      /\ \A d \in Consumers : d # c => raced'[d] = raced[d] /\ stopped'[d] = stopped[d]
      /\ stopped'[c]
      /\ raced'[c] <=> raced[c] \/ InCrash(c) \/ Starting(c) \/ Forgotten(c)
  <2>1. raced[c] \in BOOLEAN
    BY DEF FacadeOK
  <2> DEFINE b == raced[c] \/ InCrash(c) \/ Starting(c) \/ Forgotten(c)
  <2>2. b \in BOOLEAN /\ raced' = [raced EXCEPT ![c] = b]
    BY <1>1
  <2> HIDE DEF b
  <2>3. /\ raced' \in [Consumers -> BOOLEAN] /\ raced'[c] = b
        /\ \A d \in Consumers : d # c => raced'[d] = raced[d]
    BY <2>2 DEF FacadeOK
  <2>4. /\ stopped' \in [Consumers -> BOOLEAN] /\ stopped'[c]
        /\ \A d \in Consumers : d # c => stopped'[d] = stopped[d]
    BY <1>1 DEF FacadeOK
  <2> QED BY <2>3, <2>4 DEF b
<1>7. FacadeOK'
  BY <1>1, <1>2, <1>4, <1>6 DEF FacadeOK, Budgets
<1>8. \A q \in Runners : SameButRunning(group'[q], group[q])
  BY <1>1, <1>3
<1>9. ToldToStop'
  BY <1>1, <1>4, <1>8 DEF ToldToStop, Live, SameButRunning
<1>10. StopByCrash'
  BY <1>4, <1>6 DEF StopByCrash
<1>11. \A q \in Runners : Live(q)' = Live(q)
  BY <1>8 DEF Live, SameButRunning
<1>12. StopIsFinal'
  <2> SUFFICES ASSUME NEW d \in Consumers, stopped'[d], ~raced'[d], NEW q \in Runners, q[1] = d
               PROVE  /\ q \notin timers' /\ crash'[q] \notin {"stopping", "deciding"}
                      /\ Live(q) => q = stopOf'[d]
    BY <1>11 DEF StopIsFinal
  <2>1. CASE d # c
    BY <1>4, <1>6, <2>1 DEF StopIsFinal
  <2>2. CASE d = c
    <3>1. ~InCrash(c) /\ ~Starting(c) /\ ~Forgotten(c)
      BY <1>6, <2>2
    <3>2. stopOf[c] = None /\ crash[q] \notin {"stopping", "deciding"} /\ q # None
      BY <1>1, <2>2, <3>1, GroupAssumption DEF StopByCrash, InCrash
    <3>3. /\ Live(q) => q = runner[c]
          /\ q \in timers => q = restartTimeout[c] /\ runner[c] = None
      BY <2>2, <3>1 DEF Forgotten
    <3>4. CASE runner[c] # None /\ group[runner[c]].running
      BY <1>1, <2>2, <3>2, <3>3, <3>4 DEF BeginStop, FacadeOK
    <3>5. CASE ~(runner[c] # None /\ group[runner[c]].running)
      <4>1. /\ timers' = timers \ {restartTimeout[c]}
            /\ crash' = [u \in Runners |->
                            IF u[1] = c /\ (crash[u] = "stopping" \/ u = None)
                            THEN "deciding" ELSE crash[u]]
        BY <1>1, <3>2, <3>5 DEF BeginStop, Settle, Cleared
      <4>2. ~Live(q)
        <5> SUFFICES ASSUME Live(q) PROVE FALSE
          OBVIOUS
        <5>1. q = runner[c] /\ group[q].started /\ ~group[q].running
          BY <3>1, <3>2, <3>3, <3>5 DEF Starting, GroupsOK, GroupOK
        <5> QED BY <2>2, <3>2, <5>1 DEF ToldToStop
      <4>3. crash'[q] = crash[q]
        BY <3>2, <4>1
      <4> QED BY <3>2, <3>3, <4>1, <4>2, <4>3
    <3> QED BY <3>4, <3>5
  <2> QED BY <2>1, <2>2
<1>13. NoGhostMember'
  <2> SUFFICES ASSUME NEW id \in DOMAIN members
               PROVE  Holder(id)' # {} \/ Leaving(id)' \/ id \in lost
    BY <1>1 DEF NoGhostMember
  <2>1. Holder(id)' = Holder(id)
    BY <1>8, <1>11 DEF Holder, SameButRunning
  <2>2. Leaving(id) => Leaving(id)'
    <3> SUFFICES ASSUME NEW d \in Consumers, stopOf[d] # None, group[stopOf[d]].memberId = id
                 PROVE  Leaving(id)'
      BY DEF Leaving
    <3>1. stopOf'[d] = stopOf[d] /\ stopOf[d] \in Runners
      BY <1>4 DEF FacadeOK
    <3>2. group'[stopOf[d]].memberId = id
      BY <1>8, <3>1 DEF SameButRunning
    <3> QED BY <3>1, <3>2 DEF Leaving
  <2> QED BY <2>1, <2>2 DEF NoGhostMember
<1>14. CoordOK'
  BY <1>1, <1>8 DEF CoordOK, SameButRunning
<1>15. OwnersOK'
  BY <1>1, <1>8 DEF OwnersOK, SameButRunning
<1>16. WorkOK'
  BY <1>1, <1>8 DEF WorkOK, SameButRunning
<1> QED BY <1>5, <1>7, <1>9, <1>10, <1>12, <1>13, <1>14, <1>15, <1>16

-----------------------------------------------------------------------------
(***************************************************************************)
(* The steps of a runner                                                   *)
(***************************************************************************)

\* What the invariant says of one runner, and of a coordinator that does nothing.
LEMMA RunnerFacts ==
    ASSUME GroupInv, NEW r \in Runners
    PROVE  /\ GroupOK(group[r]) /\ Identity(group[r])
           /\ HoldsItsOwn(group[r], coord, DOMAIN members)
           /\ Live(r) /\ group[r].started /\ ~group[r].running => stopOf[r[1]] = r
           /\ budget \in Budgets /\ r[1] \in Consumers /\ r # None
           /\ undrained \/
                /\ work[r] # None => /\ group[r].phase = "idle"
                                     /\ work[r].partition \in group[r].offsets.assigned
                /\ \A p \in Partitions : group[r].offsets.resolved[p] # NoOffset
                                         => p \in group[r].offsets.assigned
<1> USE DEF GroupInv
<1>1. GroupOK(group[r]) /\ Identity(group[r])
  BY DEF GroupsOK
<1>2. HoldsItsOwn(group[r], coord, DOMAIN members)
  BY DEF HoldsItsOwn, OwnersOK, CoordOK
<1>3. Live(r) /\ group[r].started /\ ~group[r].running => stopOf[r[1]] = r
  BY DEF ToldToStop
<1>4. budget \in Budgets /\ r[1] \in Consumers /\ r # None
  BY GroupAssumption DEF FacadeOK, Budgets, Runners
<1> QED BY <1>1, <1>2, <1>3, <1>4 DEF WorkOK

\* The coordinator keeps its books when it and the set of members stay the same.
LEMMA CoordSame ==
    ASSUME GroupInv, UNCHANGED coord, DOMAIN members' = DOMAIN members
    PROVE  CoordKept
BY DEF GroupInv, CoordOK, OwnersOK, CoordKept

\* One fault fewer.
LEMMA FaultBudget ==
    ASSUME budget \in Budgets, Fault
    PROVE  budget' \in Budgets
BY DEF Fault, Budgets

\* A stopped runner's fetchers and schedule end.
LEMMA DrainsInv ==
    ASSUME GroupInv, NEW r \in Runners, Drains(r)
    PROVE  GroupInv'
<1> DEFINE g == Ended(group[r])
<1> USE DEF facade, kafka, history
<1>1. /\ group[r].phase = "idle" /\ ~group[r].running /\ work[r] = None
      /\ group' = [group EXCEPT ![r] = g]
      /\ UNCHANGED <<runner, stopOf, crash, timers, restartTimeout, stopped, raced, budget,
                     lost, members, coord, work, undrained>>
  BY DEF Drains, Upd
<1>2. /\ GroupOK(g) /\ Identity(g) /\ g.phase = "off"
      /\ g.memberId = group[r].memberId /\ g.generation = 0 /\ g.offsets = NoManager
  BY RunnerFacts, EndedOK
<1> HIDE DEF g
<1>3. HoldsItsOwn(g, coord', DOMAIN members')
  BY <1>1, <1>2, NoManagerOK DEF GroupInv, CoordOK, HoldsItsOwn
<1>4. ConsumerKept(r, g)
  BY <1>1, <1>2, RunnerFacts DEF ConsumerKept
<1>5. IdsKept(r, g)
  <2>1. group[r].asked = 0 /\ 0 \notin DOMAIN members
    BY <1>1, RunnerFacts DEF GroupInv, CoordOK, Identity
  <2>2. Live(r) => stopOf[r[1]] = r
    BY <1>1, RunnerFacts DEF GroupInv, ToldToStop, Identity, GroupOK
  <2> QED BY <1>1, <1>2, <2>1, <2>2 DEF IdsKept
<1>6. WorkKept(r, g)
  BY <1>1, <1>2, NoManagerOK DEF WorkKept
<1>7. CoordKept
  BY <1>1, CoordSame
<1> QED BY <1>1, <1>2, <1>3, <1>4, <1>5, <1>6, <1>7, RunnerStepInv

\* joinAndSync() has failed: the runner crashes, goes on with what it had, or ends
\* because it was told to stop meanwhile.
LEMMA GivesUpInv ==
    ASSUME GroupInv, NEW r \in Runners, NEW final \in BOOLEAN, GivesUp(r, final),
           group[r].phase \in {"join", "joining", "sync", "aware"},
           DOMAIN members' = DOMAIN members, budget' \in Budgets,
           UNCHANGED <<restartTimeout, coord, undrained, stopped>>
    PROVE  GroupInv'
<1> DEFINE g == [group[r] EXCEPT !.tries = 0, !.plan = <<>>]
           h == IF g.running THEN [g EXCEPT !.phase = "idle", !.asked = 0] ELSE Ended(g)
<1>1. GroupOK(group[r]) /\ Identity(group[r])
  BY RunnerFacts
<1>2. g = [group[r] EXCEPT !.tries = 0, !.plan = <<>>]
  OBVIOUS
<1>3. \/ Crashed(r, g)
      \/ /\ g.started /\ group' = [group EXCEPT ![r] = h]
         /\ lost' = lost \cup ({g.asked} \ {g.memberId})
         /\ UNCHANGED <<runner, stopOf, crash, timers, work, raced>>
  BY Zenon DEF GivesUp, Upd
<1> HIDE DEF g
<1>4. /\ g.phase = group[r].phase /\ g.started = group[r].started
      /\ g.running = group[r].running /\ g.memberId = group[r].memberId
      /\ g.asked = group[r].asked /\ g.generation = group[r].generation
      /\ g.offsets = group[r].offsets
  BY <1>1, <1>2 DEF GroupOK
<1>5. GroupOK(g)
  BY <1>1, <1>2, <1>4 DEF GroupOK
<1>6. CASE Crashed(r, g)
  BY <1>4, <1>5, <1>6, CrashedInv
<1>7. CASE /\ g.started /\ group' = [group EXCEPT ![r] = h]
           /\ lost' = lost \cup ({g.asked} \ {g.memberId})
           /\ UNCHANGED <<runner, stopOf, crash, timers, work, raced>>
  <2>1. Live(r)
    BY DEF Live
  <2>2. /\ GroupOK(h) /\ Identity(h) /\ h.phase \in {"idle", "off"}
        /\ h.memberId = g.memberId
        /\ h.phase = "idle" => h.running /\ h.offsets = g.offsets
        /\ h.phase = "off" => ~g.running /\ h.offsets = NoManager
        /\ h.generation \in {0, g.generation}
    <3>1. CASE ~g.running
      BY <1>5, <3>1, EndedOK
    <3>2. CASE g.running
      <4>1. h = [g EXCEPT !.phase = "idle", !.asked = 0]
        BY <3>2
      <4> HIDE DEF h
      <4>2. /\ h.phase = "idle" /\ h.started = g.started /\ h.running = g.running
            /\ h.memberId = g.memberId /\ h.asked = 0 /\ h.generation = g.generation
            /\ h.offsets = g.offsets
        BY <1>5, <4>1 DEF GroupOK
      <4>3. GroupOK(h)
        BY <1>5, <4>1, <4>2 DEF GroupOK, Phases
      <4> QED BY <1>7, <3>2, <4>2, <4>3 DEF Identity
    <3> QED BY <3>1, <3>2
  <2> HIDE DEF h
  <2>3. HoldsItsOwn(h, coord', DOMAIN members')
    BY <1>4, <2>2, RunnerFacts, NoManagerOK DEF HoldsItsOwn, GroupInv, CoordOK
  <2>4. ConsumerKept(r, h)
    BY <1>7, <2>1, <2>2 DEF ConsumerKept
  <2>5. IdsKept(r, h)
    <3>1. h.phase = "off" => stopOf[r[1]] = r
      BY <1>4, <1>7, <2>1, <2>2, RunnerFacts
    <3> QED BY <1>4, <1>7, <2>2, <3>1 DEF IdsKept
  <2>6. WorkKept(r, h)
    BY <1>4, <1>7, <2>2, RunnerFacts, NoManagerOK DEF WorkKept
  <2> QED BY <1>7, <2>2, <2>3, <2>4, <2>5, <2>6, CoordSame, RunnerStepInv
<1> QED BY <1>3, <1>6, <1>7

\* A runner re-joins as the member it is, or as nobody when its id is unknown.
LEMMA RejoinInv ==
    ASSUME GroupInv, NEW r \in Runners, NEW g, GroupOK(g),
           group' = [group EXCEPT ![r] = Rejoining(g)], Live(r),
           g.started = group[r].started, g.running = group[r].running,
           g.generation = group[r].generation, g.offsets = group[r].offsets,
           UNCHANGED <<runner, stopOf, crash, timers, restartTimeout, stopped, raced>>,
           UNCHANGED <<budget, coord, members, work>>,
           \/ g.memberId = group[r].memberId
           \/ group[r].memberId \notin DOMAIN members
           \/ group[r].memberId \in lost',
           group[r].asked \in {0, group[r].memberId},
           lost \subseteq lost', undrained => undrained',
           undrained' \/ work[r] = None
    PROVE  GroupInv'
<1> DEFINE j == Rejoining(g)
<1>1. g.running => g.started
  BY RunnerFacts DEF Identity
<1>2. /\ GroupOK(j) /\ Identity(j) /\ j.phase = "join"
      /\ j.started = g.started /\ j.running = g.running
      /\ j.memberId = g.memberId /\ j.asked = g.memberId
      /\ j.generation = g.generation /\ j.offsets = g.offsets
  BY <1>1, RejoiningOK
<1>3. group' = [group EXCEPT ![r] = j]
  OBVIOUS
<1> HIDE DEF j
<1>4. HoldsItsOwn(j, coord', DOMAIN members')
  BY <1>2, RunnerFacts DEF HoldsItsOwn
<1>5. ConsumerKept(r, j)
  BY <1>2, RunnerFacts DEF ConsumerKept
<1>6. IdsKept(r, j)
  BY <1>2 DEF IdsKept, GroupInv, CoordOK
<1>7. WorkKept(r, j)
  BY <1>2, RunnerFacts DEF WorkKept
<1> QED BY <1>2, <1>3, <1>4, <1>5, <1>6, <1>7, CoordSame, RunnerStepInv

\* A JoinGroup or SyncGroup is refused: joinAndSync() starts over or gives up.
LEMMA RefusedInv ==
    ASSUME GroupInv, NEW r \in Runners, NEW said, Refused(r, said),
           group[r].phase \in {"join", "joining", "sync", "aware"},
           group[r].asked = group[r].memberId,
           said = "UNKNOWN_MEMBER_ID" => group[r].memberId \notin DOMAIN members,
           UNCHANGED <<members, restartTimeout, coord, undrained, stopped, budget>>
    PROVE  GroupInv'
<1> DEFINE g == [group[r] EXCEPT !.tries = @ + 1,
                                 !.memberId = IF said = "UNKNOWN_MEMBER_ID" THEN 0 ELSE @]
<1>1. GroupOK(group[r]) /\ Identity(group[r]) /\ budget \in Budgets
  BY RunnerFacts
<1>2. g = [group[r] EXCEPT !.tries = @ + 1,
                           !.memberId = IF said = "UNKNOWN_MEMBER_ID" THEN 0 ELSE @]
  OBVIOUS
<1>3. \/ GivesUp(r, TRUE)
      \/ /\ group' = [group EXCEPT ![r] = Rejoining(g)]
         /\ UNCHANGED <<runner, stopOf, crash, timers, work, lost, raced>>
  BY Zenon DEF Refused, Upd
<1> HIDE DEF g
<1>4. CASE GivesUp(r, TRUE)
  BY <1>1, <1>4, GivesUpInv
<1>5. CASE /\ group' = [group EXCEPT ![r] = Rejoining(g)]
           /\ UNCHANGED <<runner, stopOf, crash, timers, work, lost, raced>>
  <2>1. /\ g.phase = group[r].phase /\ g.started = group[r].started
        /\ g.running = group[r].running /\ g.asked = group[r].asked
        /\ g.generation = group[r].generation /\ g.offsets = group[r].offsets
        /\ g.memberId = IF said = "UNKNOWN_MEMBER_ID" THEN 0 ELSE group[r].memberId
    BY <1>1, <1>2 DEF GroupOK
  <2>2. GroupOK(g)
    BY <1>1, <1>2, <2>1 DEF GroupOK
  <2>3. undrained \/ work[r] = None
    BY RunnerFacts
  <2>4. Live(r)
    BY DEF Live
  <2> QED BY <1>5, <2>1, <2>2, <2>3, <2>4, RejoinInv
<1> QED BY <1>3, <1>4, <1>5

\* A heartbeat or a commit is refused: the runner re-joins.
LEMMA ExpelledInv ==
    ASSUME GroupInv, NEW r \in Runners, NEW said, Expelled(r, said),
           group[r].phase = "idle", work[r] = None,
           UNCHANGED <<facade, stopped, raced, budget, coord, members, work, undrained>>
    PROVE  GroupInv'
<1> DEFINE g == [group[r] EXCEPT !.memberId = IF said = "UNKNOWN_MEMBER_ID" THEN 0 ELSE @]
<1>1. GroupOK(group[r]) /\ Identity(group[r])
  BY RunnerFacts
<1>2. g = [group[r] EXCEPT !.memberId = IF said = "UNKNOWN_MEMBER_ID" THEN 0 ELSE @]
  OBVIOUS
<1>3. /\ group' = [group EXCEPT ![r] = Rejoining(g)]
      /\ lost' = IF said = "UNKNOWN_MEMBER_ID" THEN lost \cup {group[r].memberId} ELSE lost
  BY Zenon DEF Expelled, Upd
<1> HIDE DEF g
<1>4. /\ g.phase = group[r].phase /\ g.started = group[r].started
      /\ g.running = group[r].running /\ g.asked = group[r].asked
      /\ g.generation = group[r].generation /\ g.offsets = group[r].offsets
      /\ g.memberId = IF said = "UNKNOWN_MEMBER_ID" THEN 0 ELSE group[r].memberId
  BY <1>1, <1>2 DEF GroupOK
<1>5. GroupOK(g)
  BY <1>1, <1>2, <1>4 DEF GroupOK
<1>6. Live(r) /\ group[r].asked = 0
  BY <1>1 DEF Live, Identity
<1> QED BY <1>3, <1>4, <1>5, <1>6, RejoinInv DEF facade

\* A heartbeat that tells the member it was expelled keeps the invariant.
LEMMA HeartbeatInv ==
    ASSUME GroupInv, NEW r \in Runners, Heartbeat(r)
    PROVE  GroupInv'
BY ExpelledInv DEF Heartbeat, kafka

\* What the invariant is about.
LEMMA SameInv ==
    ASSUME GroupInv, UNCHANGED <<facade, group, work, members, coord, stopped, raced, lost,
                                 undrained, budget>>
    PROVE  GroupInv'
<1> USE DEF GroupInv, facade
<1>1. GroupsOK' /\ FacadeOK' /\ CoordOK'
  BY DEF GroupsOK, FacadeOK, CoordOK
<1>2. ToldToStop' /\ StopByCrash' /\ StopIsFinal'
  BY DEF ToldToStop, StopByCrash, StopIsFinal, Live
<1>3. NoGhostMember'
  BY DEF NoGhostMember, Holder, Leaving, Live
<1>4. OwnersOK' /\ WorkOK'
  BY DEF OwnersOK, WorkOK
<1> QED BY <1>1, <1>2, <1>3, <1>4

\* An offset is committed, or the commit is refused.
LEMMA CommitInv ==
    ASSUME GroupInv, NEW r \in Runners, Commit(r)
    PROVE  GroupInv'
<1>1. UNCHANGED <<facade, work, members, coord, stopped, raced, undrained, budget>>
  BY DEF Commit
<1>2. \/ UNCHANGED <<group, lost>>
      \/ \E said : group[r].phase = "idle" /\ work[r] = None /\ Expelled(r, said)
  BY Zenon DEF Commit
<1> QED BY <1>1, <1>2, SameInv, ExpelledInv

\* A fetch that notices new partitions re-joins.
LEMMA StaleInv ==
    ASSUME GroupInv, NEW r \in Runners, CheckForStaleAssignment(r)
    PROVE  GroupInv'
<1>1. /\ group[r].phase = "idle" /\ group' = [group EXCEPT ![r] = Rejoining(group[r])]
      /\ undrained' = (undrained \/ work[r] # None)
      /\ UNCHANGED <<facade, work, members, coord, stopped, raced, lost, budget>>
  BY DEF CheckForStaleAssignment, Upd, kafka
<1>2. GroupOK(group[r]) /\ Live(r) /\ group[r].asked = 0
  BY <1>1, RunnerFacts DEF Live, Identity
<1> QED BY <1>1, <1>2, RejoinInv DEF facade

\* A handler takes a message of a partition of its offset manager.
LEMMA HandleInv ==
    ASSUME GroupInv, NEW r \in Runners, NEW p \in Partitions, Handle(r, p)
    PROVE  GroupInv'
<1>1. PICK w : /\ w.partition = p /\ work' = [work EXCEPT ![r] = w]
               /\ group[r].phase = "idle" /\ p \in group[r].offsets.assigned
               /\ UNCHANGED <<facade, group, members, coord, stopped, raced, lost, undrained,
                              budget>>
  <2> DEFINE next == IF group[r].offsets.resolved[p] = NoOffset THEN committed[p]
                     ELSE group[r].offsets.resolved[p]
             v == [partition |-> p, offset |-> next]
  <2>1. /\ work' = [work EXCEPT ![r] = v]
        /\ group[r].phase = "idle" /\ p \in group[r].offsets.assigned
        /\ UNCHANGED <<facade, group, members, coord, stopped, raced, lost, undrained, budget>>
    BY DEF Handle, kafka, history
  <2>2. v.partition = p
    OBVIOUS
  <2> HIDE DEF v
  <2> QED BY <2>1, <2>2
<1> USE DEF GroupInv, facade
<1>2. GroupsOK' /\ FacadeOK' /\ CoordOK'
  BY <1>1 DEF GroupsOK, FacadeOK, CoordOK
<1>3. ToldToStop' /\ StopByCrash' /\ StopIsFinal'
  BY <1>1 DEF ToldToStop, StopByCrash, StopIsFinal, Live
<1>4. NoGhostMember'
  BY <1>1 DEF NoGhostMember, Holder, Leaving, Live
<1>5. OwnersOK'
  BY <1>1 DEF OwnersOK
<1>6. WorkOK'
  <2>1. \A q \in Runners : work'[q] = IF q = r THEN w ELSE work[q]
    BY <1>1 DEF WorkOK
  <2>2. work' = [q \in Runners |-> work'[q]]
    BY <1>1 DEF WorkOK
  <2> QED BY <1>1, <2>1, <2>2 DEF WorkOK
<1> QED BY <1>2, <1>3, <1>4, <1>5, <1>6

\* A handler is done: its offset is resolved in the offset manager there is.
LEMMA HandlerEndsInv ==
    ASSUME GroupInv, NEW r \in Runners, HandlerEnds(r)
    PROVE  GroupInv'
<1> DEFINE p == work[r].partition
           o == work[r].offset + 1
           g == [group[r] EXCEPT !.offsets.resolved[p] = o]
<1>1. /\ work[r] # None
      /\ UNCHANGED <<restartTimeout, members, coord, stopped, undrained, budget>>
      /\ \/ /\ group[r].offsets.assigned # {}
            /\ group' = [group EXCEPT ![r] = g]
            /\ work' = [work EXCEPT ![r] = None]
            /\ UNCHANGED <<runner, stopOf, crash, timers, lost, raced>>
         \/ Crashed(r, group[r])
  BY DEF HandlerEnds, Upd, kafka
<1>2. GroupOK(group[r]) /\ Identity(group[r]) /\ budget \in Budgets
  BY RunnerFacts
<1>3. CASE Crashed(r, group[r])
  BY <1>1, <1>2, <1>3, CrashedInv
<1>4. CASE /\ group' = [group EXCEPT ![r] = g] /\ work' = [work EXCEPT ![r] = None]
           /\ UNCHANGED <<runner, stopOf, crash, timers, lost, raced>>
  <2> DEFINE m == [group[r].offsets EXCEPT !.resolved[p] = o]
  <2>1. g = [group[r] EXCEPT !.offsets = m]
    BY <1>2 DEF GroupOK
  <2>2. /\ m.member = group[r].offsets.member /\ m.generation = group[r].offsets.generation
        /\ m.assigned = group[r].offsets.assigned
        /\ m.resolved = [group[r].offsets.resolved EXCEPT ![p] = o]
    BY <1>2 DEF GroupOK, ManagerOK
  <2>3. ManagerOK(m)
    BY <1>2, <2>2 DEF GroupOK, ManagerOK
  <2> HIDE DEF m, g
  <2>4. /\ g.phase = group[r].phase /\ g.started = group[r].started
        /\ g.running = group[r].running /\ g.memberId = group[r].memberId
        /\ g.asked = group[r].asked /\ g.generation = group[r].generation
        /\ g.plan = group[r].plan /\ g.offsets = m
    BY <1>2, <2>1 DEF GroupOK
  <2>5. GroupOK(g) /\ Identity(g)
    BY <1>2, <2>1, <2>3, <2>4 DEF GroupOK, Identity
  <2>6. HoldsItsOwn(g, coord', DOMAIN members')
    BY <1>1, <2>2, <2>4, RunnerFacts DEF HoldsItsOwn
  <2>7. ConsumerKept(r, g)
    BY <1>1, <1>2, <1>4, <2>4 DEF ConsumerKept, Live
  <2>8. IdsKept(r, g)
    BY <1>1, <1>4, <2>4 DEF IdsKept, Live
  <2>9. WorkKept(r, g)
    <3>1. work'[r] = None
      BY <1>4 DEF GroupInv, WorkOK
    <3>2. \A q \in Partitions : m.resolved[q] = IF q = p THEN o ELSE group[r].offsets.resolved[q]
      BY <1>2, <2>2 DEF GroupOK, ManagerOK
    <3> HIDE DEF p, o
    <3> QED BY <1>1, <1>4, <2>2, <2>4, <3>1, <3>2, RunnerFacts DEF WorkKept, p
  <2>10. CoordKept
    BY <1>1, CoordSame
  <2> QED BY <1>1, <1>4, <2>5, <2>6, <2>7, <2>8, <2>9, <2>10, RunnerStepInv
<1> QED BY <1>1, <1>3, <1>4

\* A handler fails: the runner crashes or tries again.
LEMMA HandlerFailsInv ==
    ASSUME GroupInv, NEW r \in Runners, HandlerFails(r)
    PROVE  GroupInv'
<1>1. /\ Fault
      /\ UNCHANGED <<restartTimeout, members, coord, stopped, undrained>>
      /\ \/ Crashed(r, group[r])
         \/ /\ work' = [work EXCEPT ![r] = None]
            /\ UNCHANGED <<runner, stopOf, crash, timers, group, lost, raced>>
  BY DEF HandlerFails, kafka
<1>2. GroupOK(group[r]) /\ Identity(group[r]) /\ budget' \in Budgets
  BY <1>1, RunnerFacts, FaultBudget
<1>3. CASE Crashed(r, group[r])
  BY <1>1, <1>2, <1>3, CrashedInv
<1>4. CASE /\ work' = [work EXCEPT ![r] = None]
           /\ UNCHANGED <<runner, stopOf, crash, timers, group, lost, raced>>
  <2>1. group' = [group EXCEPT ![r] = group[r]]
    BY <1>4 DEF GroupInv, GroupsOK
  <2>2. ConsumerKept(r, group[r])
    BY <1>1, <1>2, <1>4 DEF ConsumerKept, Live
  <2>3. IdsKept(r, group[r])
    BY <1>1, <1>4 DEF IdsKept, Live
  <2>4. WorkKept(r, group[r])
    BY <1>1, <1>4, RunnerFacts DEF WorkKept, GroupInv, WorkOK
  <2>5. HoldsItsOwn(group[r], coord', DOMAIN members')
    BY <1>1, RunnerFacts
  <2>6. CoordKept
    BY <1>1, CoordSame
  <2> QED BY <1>2, <2>1, <2>2, <2>3, <2>4, <2>5, <2>6, RunnerStepInv
<1> QED BY <1>1, <1>3, <1>4

-----------------------------------------------------------------------------
(***************************************************************************)
(* JoinGroup and SyncGroup                                                 *)
(***************************************************************************)

\* A request of joinAndSync() is lost.
LEMMA JoinFailsInv ==
    ASSUME GroupInv, NEW r \in Runners, JoinFails(r)
    PROVE  GroupInv'
<1>1. /\ group[r].phase \in {"join", "joining", "sync", "aware"} /\ Fault /\ GivesUp(r, FALSE)
      /\ members' = [id \in DOMAIN members |-> IF members[id] = r THEN None ELSE members[id]]
      /\ UNCHANGED <<restartTimeout, coord, undrained, stopped>>
  BY DEF JoinFails
<1>2. DOMAIN members' = DOMAIN members
  BY <1>1
<1>3. budget' \in Budgets
  BY <1>1, RunnerFacts, FaultBudget
<1> QED BY <1>1, <1>2, <1>3, GivesUpInv

\* The coordinator refuses, answers or keeps waiting a JoinGroup.
LEMMA JoinArrivesInv ==
    ASSUME GroupInv, NEW r \in Runners, JoinArrives(r)
    PROVE  GroupInv'
<1> DEFINE id == group[r].asked
           given == id # group[r].memberId
           atRest == id \in DOMAIN members /\ coord.state # "preparing" /\ id # coord.leader
           a == [group[r] EXCEPT !.asked = coord.lastId + 1]
           w == [group[r] EXCEPT !.phase = "joining"]
           Same == UNCHANGED <<runner, stopOf, crash, timers, work, lost, raced>>
<1>1. /\ group[r].phase = "join"
      /\ UNCHANGED <<restartTimeout, stopped, undrained, budget>>
      /\ \/ /\ id = 0 /\ coord' = [coord EXCEPT !.lastId = @ + 1]
            /\ group' = [group EXCEPT ![r] = a] /\ UNCHANGED members /\ Same
         \/ /\ id # 0 /\ atRest
            /\ group' = [group EXCEPT ![r] = Joined(r, coord.generation, {}, coord.leader)]
            /\ UNCHANGED <<members, coord>> /\ Same
         \/ /\ id # 0
            /\ members' = [i \in DOMAIN members \cup {id} |->
                             IF i = id THEN r
                             ELSE IF coord.state = "preparing" THEN members[i] ELSE None]
            /\ coord' = [coord EXCEPT !.state = "preparing"]
            /\ group' = [group EXCEPT ![r] = w] /\ Same
         \/ /\ ~given /\ id \notin DOMAIN members /\ Refused(r, "UNKNOWN_MEMBER_ID")
            /\ UNCHANGED <<members, coord>>
  BY DEF JoinArrives, Upd
<1>2. /\ GroupOK(group[r]) /\ Identity(group[r]) /\ budget \in Budgets
      /\ HoldsItsOwn(group[r], coord, DOMAIN members)
      /\ undrained \/
           /\ work[r] = None
           /\ \A p \in Partitions : group[r].offsets.resolved[p] # NoOffset
                                    => p \in group[r].offsets.assigned
  BY <1>1, RunnerFacts
<1>3. Live(r) /\ group[r].memberId \in {0, id}
  BY <1>1, <1>2 DEF Live, Identity
<1>4. CoordOK /\ OwnersOK
  BY DEF GroupInv
<1>5. CASE /\ id = 0 /\ coord' = [coord EXCEPT !.lastId = @ + 1]
           /\ group' = [group EXCEPT ![r] = a] /\ UNCHANGED members /\ Same
  <2>1. a = [group[r] EXCEPT !.asked = coord.lastId + 1]
    OBVIOUS
  <2> HIDE DEF a
  <2>2. /\ a.phase = group[r].phase /\ a.started = group[r].started
        /\ a.running = group[r].running /\ a.memberId = group[r].memberId
        /\ a.asked = coord.lastId + 1 /\ a.generation = group[r].generation
        /\ a.plan = group[r].plan /\ a.offsets = group[r].offsets
    BY <1>2, <2>1 DEF GroupOK
  <2>3. coord.lastId + 1 \in Nat
    BY <1>4 DEF CoordOK
  <2>4. GroupOK(a) /\ Identity(a)
    BY <1>1, <1>2, <1>3, <1>5, <2>1, <2>2, <2>3 DEF GroupOK, Identity
  <2>5. /\ coord'.state = coord.state /\ coord'.generation = coord.generation
        /\ coord'.leader = coord.leader /\ coord'.assignment = coord.assignment
        /\ coord'.synced = coord.synced /\ coord'.lastId = coord.lastId + 1
        /\ coord' = [state |-> coord.state, generation |-> coord.generation,
                     leader |-> coord.leader, assignment |-> coord.assignment,
                     synced |-> coord.synced, lastId |-> coord.lastId + 1]
    BY <1>4, <1>5 DEF CoordOK
  <2>6. CoordKept
    BY <1>4, <1>5, <2>3, <2>5 DEF CoordKept, CoordOK, OwnersOK, Given
  <2>7. HoldsItsOwn(a, coord', DOMAIN members')
    BY <1>1, <1>2, <1>5, <2>2, <2>5 DEF HoldsItsOwn, Given
  <2>8. ConsumerKept(r, a) /\ IdsKept(r, a)
    BY <1>1, <1>2, <1>3, <1>4, <1>5, <2>2 DEF ConsumerKept, IdsKept, CoordOK
  <2>9. WorkKept(r, a)
    BY <1>1, <1>2, <1>5, <2>2 DEF WorkKept
  <2> QED BY <1>5, <2>4, <2>6, <2>7, <2>8, <2>9, RunnerStepInv
<1>6. CASE /\ id # 0 /\ atRest
           /\ group' = [group EXCEPT ![r] = Joined(r, coord.generation, {}, coord.leader)]
           /\ UNCHANGED <<members, coord>> /\ Same
  <2> DEFINE g == Joined(r, coord.generation, {}, coord.leader)
  <2>1. /\ GroupOK(g) /\ Identity(g) /\ g.phase = "sync"
        /\ g.started = group[r].started /\ g.running = group[r].running
        /\ g.memberId = id /\ g.asked = id
        /\ g.generation = coord.generation /\ g.offsets = group[r].offsets
    BY <1>2, <1>4, JoinedOK DEF Identity, CoordOK
  <2>2. group' = [group EXCEPT ![r] = g]
    BY <1>6
  <2> HIDE DEF g
  <2>3. HoldsItsOwn(g, coord', DOMAIN members')
    BY <1>2, <1>4, <1>6, <2>1 DEF HoldsItsOwn, CoordOK
  <2>4. ConsumerKept(r, g) /\ IdsKept(r, g)
    BY <1>1, <1>2, <1>3, <1>4, <1>6, <2>1 DEF ConsumerKept, IdsKept, CoordOK
  <2>5. WorkKept(r, g)
    BY <1>1, <1>2, <1>6, <2>1 DEF WorkKept
  <2>6. CoordKept
    BY <1>6, CoordSame
  <2> QED BY <2>1, <2>2, <2>3, <2>4, <2>5, <2>6, RunnerStepInv
<1>7. CASE /\ id # 0
           /\ members' = [i \in DOMAIN members \cup {id} |->
                            IF i = id THEN r
                            ELSE IF coord.state = "preparing" THEN members[i] ELSE None]
           /\ coord' = [coord EXCEPT !.state = "preparing"]
           /\ group' = [group EXCEPT ![r] = w] /\ Same
  <2>1. w = [group[r] EXCEPT !.phase = "joining"] /\ DOMAIN members' = DOMAIN members \cup {id}
    BY <1>7
  <2> HIDE DEF w
  <2>2. /\ w.phase = "joining" /\ w.started = group[r].started
        /\ w.running = group[r].running /\ w.memberId = group[r].memberId
        /\ w.asked = group[r].asked /\ w.generation = group[r].generation
        /\ w.plan = group[r].plan /\ w.offsets = group[r].offsets
    BY <1>2, <2>1 DEF GroupOK
  <2>4. GroupOK(w) /\ Identity(w)
    BY <1>2, <1>3, <2>1, <2>2 DEF GroupOK, Identity, Phases
  <2>5. /\ coord'.state = "preparing" /\ coord'.generation = coord.generation
        /\ coord'.leader = coord.leader /\ coord'.assignment = coord.assignment
        /\ coord'.synced = coord.synced /\ coord'.lastId = coord.lastId
        /\ coord' = [state |-> "preparing", generation |-> coord.generation,
                     leader |-> coord.leader, assignment |-> coord.assignment,
                     synced |-> coord.synced, lastId |-> coord.lastId]
    BY <1>4, <1>7 DEF CoordOK
  <2>6. CoordKept
    BY <1>4, <1>7, <2>1, <2>5 DEF CoordKept, CoordOK, Given
  <2>7. HoldsItsOwn(w, coord', DOMAIN members')
    BY <1>2, <2>2, <2>5 DEF HoldsItsOwn, Given
  <2>8. ConsumerKept(r, w) /\ IdsKept(r, w)
    BY <1>1, <1>2, <1>3, <1>7, <2>1, <2>2 DEF ConsumerKept, IdsKept
  <2>9. WorkKept(r, w)
    BY <1>1, <1>2, <1>7, <2>2 DEF WorkKept
  <2> QED BY <1>7, <2>4, <2>6, <2>7, <2>8, <2>9, RunnerStepInv
<1>8. CASE /\ ~given /\ id \notin DOMAIN members /\ Refused(r, "UNKNOWN_MEMBER_ID")
           /\ UNCHANGED <<members, coord>>
  BY <1>1, <1>8, RefusedInv
<1> QED BY <1>1, <1>5, <1>6, <1>7, <1>8

\* joinAndSync() is done, with what the coordinator has given the member.
LEMMA AdoptInv ==
    ASSUME GroupInv, NEW r \in Runners, NEW assigned, NEW known,
           group' = [group EXCEPT ![r] = Adopted(group[r], assigned, known)],
           group[r].phase \in {"sync", "aware"},
           UNCHANGED <<facade, stopped, raced, lost, budget, members, work, undrained>>, CoordKept,
           group[r].generation = coord.generation =>
               \A p \in assigned : Given(coord', group[r].memberId, p)
    PROVE  GroupInv'
<1> DEFINE g == Adopted(group[r], assigned, known)
<1>1. /\ GroupOK(group[r]) /\ Identity(group[r]) /\ budget \in Budgets /\ Live(r)
      /\ HoldsItsOwn(group[r], coord, DOMAIN members)
      /\ undrained \/ work[r] = None
  BY RunnerFacts DEF Live
<1>2. coord'.generation = coord.generation /\ coord.generation \in Nat
  BY DEF CoordKept, GroupInv, CoordOK
<1>3. /\ GroupOK(g) /\ Identity(g)
      /\ \/ /\ group[r].started /\ ~group[r].running
            /\ g.phase = "off" /\ g.memberId = group[r].memberId /\ g.generation = 0
            /\ g.offsets = NoManager
         \/ /\ g.phase = "idle" /\ g.running
            /\ g.memberId = group[r].memberId /\ g.generation = group[r].generation
            /\ g.offsets = Manager(group[r], assigned)
  BY <1>1, AdoptedOK, EndedOK
<1>4. LET m == Manager(group[r], assigned) IN
        /\ m.member = group[r].memberId /\ m.generation = group[r].generation
        /\ m.assigned = assigned /\ \A p \in Partitions : m.resolved[p] = NoOffset
  BY DEF Manager, NoOffsets
<1>5. group' = [group EXCEPT ![r] = g]
  OBVIOUS
<1> HIDE DEF g
<1>6. HoldsItsOwn(g, coord', DOMAIN members')
  BY <1>1, <1>2, <1>3, <1>4, NoManagerOK DEF HoldsItsOwn
<1>7. ConsumerKept(r, g)
  BY <1>1, <1>3 DEF ConsumerKept, facade
<1>8. IdsKept(r, g)
  <2>1. group[r].asked = group[r].memberId
    BY <1>1 DEF Identity
  <2>2. group[r].started /\ ~group[r].running => stopOf[r[1]] = r
    BY <1>1, RunnerFacts
  <2> QED BY <1>3, <2>1, <2>2 DEF IdsKept
<1>9. WorkKept(r, g)
  BY <1>1, <1>3, <1>4, NoManagerOK DEF WorkKept
<1> QED BY <1>3, <1>5, <1>6, <1>7, <1>8, <1>9, RunnerStepInv

\* A member that adopts the assignment it was told keeps the invariant.
LEMMA AwareInv ==
    ASSUME GroupInv, NEW r \in Runners, Aware(r)
    PROVE  GroupInv'
<1>1. /\ group[r].phase = "aware"
      /\ group' = [group EXCEPT ![r] =
                     Adopted(group[r], group[r].plan[group[r].memberId], parts)]
      /\ UNCHANGED <<facade, stopped, raced, lost, budget, members, coord, work, undrained>>
  BY DEF Aware, Upd, kafka, history
<1>2. CoordKept
  BY <1>1, CoordSame
<1>3. group[r].generation = coord.generation =>
        \A p \in group[r].plan[group[r].memberId] : Given(coord', group[r].memberId, p)
  BY <1>1, RunnerFacts DEF HoldsItsOwn
<1> QED BY <1>1, <1>2, <1>3, AdoptInv

\* The coordinator answers a SyncGroup, the leader's with what it proposes.
LEMMA SyncArrivesInv ==
    ASSUME GroupInv, NEW r \in Runners, SyncArrives(r)
    PROVE  GroupInv'
<1> DEFINE g == group[r]
           said == Judge(g.memberId, g.generation)
           agreed == IF coord.state = "completing" THEN g.plan ELSE coord.assignment
           assigned == agreed[g.memberId]
           a == [g EXCEPT !.phase = "aware", !.plan = [id \in {g.memberId} |-> assigned]]
<1>1. /\ g.phase = "sync"
      /\ UNCHANGED <<restartTimeout, members, stopped, undrained, budget>>
      /\ \/ said # "ok" /\ Refused(r, said) /\ UNCHANGED coord
         \/ /\ said = "ok" /\ (g.memberId = coord.leader \/ coord.state = "stable")
            /\ coord' = [coord EXCEPT !.state = "stable", !.synced = @ \cup {g.memberId},
                                      !.assignment = IF coord.state = "completing" THEN g.plan ELSE @]
            /\ group' = [group EXCEPT ![r] =
                           IF assigned \subseteq g.known THEN Adopted(g, assigned, g.known) ELSE a]
            /\ UNCHANGED <<runner, stopOf, crash, timers, work, lost, raced>>
  BY DEF SyncArrives, Upd
<1>2. /\ GroupOK(g) /\ Identity(g) /\ budget \in Budgets /\ Live(r)
      /\ HoldsItsOwn(g, coord, DOMAIN members)
      /\ undrained \/
           /\ work[r] = None
           /\ \A p \in Partitions : g.offsets.resolved[p] # NoOffset => p \in g.offsets.assigned
  BY <1>1, RunnerFacts DEF Live
<1>3. /\ g.asked = g.memberId
      /\ said = "UNKNOWN_MEMBER_ID" => g.memberId \notin DOMAIN members
      /\ said = "ok" => /\ g.memberId \in DOMAIN members /\ g.generation = coord.generation
                        /\ coord.state # "preparing"
  BY <1>1, <1>2 DEF Identity, Judge
<1>4. CoordOK /\ OwnersOK
  BY DEF GroupInv
<1>5. CASE said # "ok" /\ Refused(r, said) /\ UNCHANGED coord
  <2> HIDE DEF said
  <2> QED BY <1>1, <1>3, <1>5, RefusedInv
<1>6. CASE /\ said = "ok" /\ (g.memberId = coord.leader \/ coord.state = "stable")
           /\ coord' = [coord EXCEPT !.state = "stable", !.synced = @ \cup {g.memberId},
                                     !.assignment = IF coord.state = "completing" THEN g.plan ELSE @]
           /\ group' = [group EXCEPT ![r] =
                          IF assigned \subseteq g.known THEN Adopted(g, assigned, g.known) ELSE a]
           /\ UNCHANGED <<runner, stopOf, crash, timers, work, lost, raced>>
  <2>1. /\ coord'.state = "stable" /\ coord'.generation = coord.generation
        /\ coord'.leader = coord.leader /\ coord'.lastId = coord.lastId
        /\ coord'.assignment = agreed
        /\ coord' = [state |-> coord'.state, generation |-> coord'.generation,
                     leader |-> coord'.leader, assignment |-> coord'.assignment,
                     synced |-> coord'.synced, lastId |-> coord'.lastId]
    BY <1>4, <1>6 DEF CoordOK
  <2>2. DOMAIN members \subseteq DOMAIN agreed
    BY <1>1, <1>2, <1>3, <1>4, <1>6 DEF HoldsItsOwn, OwnersOK, CoordOK
  <2>3. CoordKept
    BY <1>1, <1>4, <2>1, <2>2 DEF CoordKept, CoordOK, Given
  <2>4. \A p \in assigned : Given(coord', g.memberId, p)
    BY <1>3, <1>6, <2>1, <2>2 DEF Given
  <2>5. CASE assigned \subseteq g.known
    <3>1. group' = [group EXCEPT ![r] = Adopted(g, assigned, g.known)]
      BY <1>6, <2>5
    <3> HIDE DEF assigned
    <3> QED BY <1>1, <1>6, <2>3, <2>4, <3>1, AdoptInv DEF facade
  <2>6. CASE ~(assigned \subseteq g.known)
    <3> DEFINE plan == [id \in {g.memberId} |-> assigned]
    <3>1. group' = [group EXCEPT ![r] = a] /\ plan[g.memberId] = assigned
      BY <1>6, <2>6
    <3>2. a = [g EXCEPT !.phase = "aware", !.plan = plan]
      OBVIOUS
    <3> HIDE DEF plan, a, assigned
    <3>3. /\ a.phase = "aware" /\ a.started = g.started /\ a.running = g.running
          /\ a.memberId = g.memberId /\ a.asked = g.asked /\ a.generation = g.generation
          /\ a.plan = plan /\ a.offsets = g.offsets
      BY <1>2, <3>2 DEF GroupOK
    <3>4. GroupOK(a) /\ Identity(a)
      BY <1>2, <1>3, <3>2, <3>3 DEF GroupOK, Identity, Phases
    <3>5. HoldsItsOwn(a, coord', DOMAIN members')
      BY <1>2, <2>1, <2>3, <2>4, <3>1, <3>3 DEF HoldsItsOwn, CoordKept
    <3>6. ConsumerKept(r, a) /\ IdsKept(r, a)
      BY <1>1, <1>2, <1>6, <3>3 DEF ConsumerKept, IdsKept
    <3>7. WorkKept(r, a)
      BY <1>1, <1>2, <1>6, <3>3 DEF WorkKept
    <3> QED BY <2>3, <3>1, <3>4, <3>5, <3>6, <3>7, RunnerStepInv
  <2> QED BY <2>5, <2>6
<1> QED BY <1>1, <1>5, <1>6

\* Every member has joined: a new generation, in which nobody holds anything yet.
LEMMA JoinCompletesInv ==
    ASSUME GroupInv, JoinCompletes
    PROVE  GroupInv'
<1> DEFINE ids == DOMAIN members
           lead == IF coord.leader \in ids THEN coord.leader ELSE Min(ids)
           n == coord.generation + 1
           Waits(r) == group[r].phase = "joining"
<1> USE DEF GroupInv
<1>1. /\ coord' = [coord EXCEPT !.state = "completing", !.generation = @ + 1, !.leader = lead,
                                !.synced = {}]
      /\ group' = [r \in Runners |-> IF Waits(r) THEN Joined(r, n, ids, lead) ELSE group[r]]
      /\ members' = [id \in ids |-> None]
      /\ UNCHANGED <<facade, work, stopped, raced, lost, undrained, budget>>
  BY DEF JoinCompletes, history
<1> HIDE DEF lead
<1>2. /\ coord'.state = "completing" /\ coord'.generation = n /\ coord'.leader = lead
      /\ coord'.lastId = coord.lastId /\ coord.generation \in Nat /\ n \in Nat
      /\ coord' = [state |-> coord'.state, generation |-> coord'.generation,
                   leader |-> coord'.leader, assignment |-> coord'.assignment,
                   synced |-> coord'.synced, lastId |-> coord'.lastId]
  <2>1. coord.generation \in Nat /\ n \in Nat
    BY DEF CoordOK
  <2>2. coord' = [coord EXCEPT !.state = "completing", !.generation = n, !.leader = lead,
                               !.synced = {}]
    BY <1>1
  <2> HIDE DEF n
  <2> QED BY <2>1, <2>2 DEF CoordOK
<1>3. ASSUME NEW r \in Runners, Waits(r)
      PROVE  /\ GroupOK(group'[r]) /\ Identity(group'[r])
             /\ group'[r].phase = "sync"
             /\ group'[r].started = group[r].started /\ group'[r].running = group[r].running
             /\ group'[r].memberId = group[r].asked /\ group'[r].asked = group[r].asked
             /\ group'[r].generation = n /\ group'[r].offsets = group[r].offsets
             /\ group'[r].memberId = lead => DOMAIN group'[r].plan = ids
             /\ group[r].memberId \in {0, group[r].asked}
  <2>1. GroupOK(group[r]) /\ Identity(group[r])
    BY RunnerFacts
  <2>2. group'[r] = Joined(r, n, ids, lead)
    BY <1>1, <1>3
  <2> QED BY <1>2, <1>3, <2>1, <2>2, JoinedOK DEF Identity
<1>4. \A r \in Runners : ~Waits(r) => group'[r] = group[r]
  BY <1>1
<1> HIDE DEF n
<1>5. GroupsOK'
  <2>1. group' = [r \in Runners |-> group'[r]]
    BY <1>1
  <2> QED BY <1>3, <1>4, <2>1 DEF GroupsOK
<1>6. FacadeOK' /\ StopByCrash'
  BY <1>1 DEF FacadeOK, StopByCrash, facade
<1>7. \A r \in Runners : /\ Live(r)' = Live(r) /\ group'[r].started = group[r].started
                         /\ group'[r].running = group[r].running
  BY <1>3, <1>4 DEF Live
<1>8. ToldToStop' /\ StopIsFinal'
  BY <1>1, <1>7 DEF ToldToStop, StopIsFinal, facade
<1>9. 0 \notin DOMAIN members' /\ DOMAIN members' = ids
  BY <1>1 DEF CoordOK
<1>10. NoGhostMember'
  <2> SUFFICES ASSUME NEW id \in ids
               PROVE  Holder(id)' # {} \/ Leaving(id)' \/ id \in lost'
    BY <1>9 DEF NoGhostMember
  <2>1. CASE Holder(id) # {}
    <3>1. PICK r \in Runners : Live(r) /\ id \in {group[r].memberId, group[r].asked}
      BY <2>1 DEF Holder
    <3>2. id \in {group'[r].memberId, group'[r].asked}
      BY <1>3, <1>4, <1>9, <3>1
    <3>3. r \in Holder(id)'
      BY <1>7, <3>1, <3>2 DEF Holder
    <3> QED BY <3>3
  <2>2. CASE Leaving(id)
    <3>1. PICK c \in Consumers : stopOf[c] # None /\ group[stopOf[c]].memberId = id
      BY <2>2 DEF Leaving
    <3>2. stopOf[c] \in Runners /\ stopOf'[c] = stopOf[c]
      BY <1>1, <3>1 DEF FacadeOK, facade
    <3>3. group'[stopOf[c]].memberId = id
      BY <1>3, <1>4, <1>9, <3>1, <3>2
    <3> QED BY <3>1, <3>2, <3>3 DEF Leaving
  <2> QED BY <1>1, <2>1, <2>2 DEF NoGhostMember
<1>11. \A r \in Runners :
         /\ group'[r].offsets = group[r].offsets
         /\ group'[r].generation <= n
         /\ group[r].offsets.generation <= n /\ group[r].offsets.generation # n
         /\ group'[r].generation = n => Waits(r)
  <2> TAKE r \in Runners
  <2>1. /\ group[r].generation <= coord.generation /\ group[r].generation \in Nat
        /\ group[r].offsets.generation <= coord.generation /\ group[r].offsets.generation \in Nat
    BY RunnerFacts DEF HoldsItsOwn, GroupOK, ManagerOK
  <2> QED BY <1>2, <1>3, <1>4, <2>1 DEF n
<1>12. CoordOK'
  BY <1>2, <1>9, <1>11 DEF CoordOK
<1>13. OwnersOK'
  BY <1>2, <1>3, <1>9, <1>11 DEF OwnersOK
<1>14. WorkOK'
  BY <1>1, <1>3, <1>4 DEF WorkOK
<1> QED BY <1>5, <1>6, <1>8, <1>10, <1>12, <1>13, <1>14

-----------------------------------------------------------------------------
(***************************************************************************)
(* The coordinator drops a member                                          *)
(***************************************************************************)

\* What is said of owners holds if the coordinator keeps what it has given, and
\* runners keep what they hold.
LEMMA OwnersKept ==
    ASSUME GroupInv, CoordKept,
           \A r \in Runners :
               /\ group'[r].phase = group[r].phase /\ group'[r].generation = group[r].generation
               /\ group'[r].plan = group[r].plan /\ group'[r].offsets = group[r].offsets
               /\ group'[r].memberId = group[r].memberId \/ group[r].phase = "off"
    PROVE  CoordOK' /\ OwnersOK'
<1>1. CoordOK'
  BY DEF GroupInv, CoordOK, CoordKept
<1>2. OwnersOK'
  BY DEF GroupInv, OwnersOK, CoordKept
<1> QED BY <1>1, <1>2

\* The members without one that leaves.
LEMMA LeaveKept ==
    ASSUME GroupInv, NEW id, Leave(id)
    PROVE  CoordKept /\ DOMAIN members' = DOMAIN members \ {id}
<1> DEFINE st == IF id \notin DOMAIN members THEN coord.state
                 ELSE IF DOMAIN members = {id} THEN "stable" ELSE "preparing"
<1>1. coord' = [coord EXCEPT !.state = st] /\ DOMAIN members' = DOMAIN members \ {id}
  BY DEF Leave, Without
<1>2. CoordOK /\ OwnersOK
  BY DEF GroupInv
<1>3. st \in {"stable", "preparing", "completing"}
  BY <1>2 DEF CoordOK
<1>4. /\ st = "completing" => coord.state = "completing" /\ id \notin DOMAIN members
      /\ st = "stable" => \/ coord.state = "stable" /\ id \notin DOMAIN members
                         \/ DOMAIN members = {id}
  BY <1>2 DEF CoordOK
<1> HIDE DEF st
<1>5. /\ coord'.state = st /\ coord'.generation = coord.generation
      /\ coord'.leader = coord.leader /\ coord'.assignment = coord.assignment
      /\ coord'.synced = coord.synced /\ coord'.lastId = coord.lastId
      /\ coord' = [state |-> st, generation |-> coord.generation,
                   leader |-> coord.leader, assignment |-> coord.assignment,
                   synced |-> coord.synced, lastId |-> coord.lastId]
  BY <1>1, <1>2 DEF CoordOK
<1>6. \A i, p : Given(coord, i, p) => Given(coord', i, p)
  BY <1>4, <1>5 DEF Given
<1> QED BY <1>1, <1>2, <1>3, <1>4, <1>5, <1>6 DEF CoordKept, CoordOK, OwnersOK

\* A member's session expires.
LEMMA SessionExpiresInv ==
    ASSUME GroupInv, NEW id \in DOMAIN members, SessionExpires(id)
    PROVE  GroupInv'
<1> USE DEF GroupInv, facade
<1>1. /\ Leave(id) /\ (UNCHANGED budget \/ Fault)
      /\ UNCHANGED <<facade, group, work, stopped, raced, lost, undrained>>
  BY DEF SessionExpires, client, history
<1>2. CoordKept /\ DOMAIN members' = DOMAIN members \ {id}
  BY <1>1, LeaveKept
<1>3. budget' \in Budgets
  BY <1>1, FaultBudget DEF FacadeOK, Budgets
<1>4. GroupsOK' /\ FacadeOK'
  BY <1>1, <1>3 DEF GroupsOK, FacadeOK, Budgets
<1>5. ToldToStop' /\ StopByCrash' /\ StopIsFinal'
  BY <1>1 DEF ToldToStop, StopByCrash, StopIsFinal, Live
<1>6. NoGhostMember'
  BY <1>1, <1>2 DEF NoGhostMember, Holder, Leaving, Live
<1>7. CoordOK' /\ OwnersOK'
  BY <1>1, <1>2, OwnersKept
<1>8. WorkOK'
  BY <1>1 DEF WorkOK
<1> QED BY <1>4, <1>5, <1>6, <1>7, <1>8

-----------------------------------------------------------------------------
(***************************************************************************)
(* run(), the restart timer, the end of stop()                             *)
(***************************************************************************)

\* A set of natural numbers has a least element.
LEMMA MinOfNat ==
    ASSUME NEW S, S \subseteq Nat, S # {}
    PROVE  Min(S) \in S
<1> DEFINE R == {ss \in Nat \X Nat : ss[1] < ss[2]}
<1>1. IsWellFoundedOn(R, Nat)
  BY NatLessThanWellFounded DEF OpToRel
<1> HIDE DEF R
<1>2. PICK x \in S : \A y \in S : ~(<<y, x>> \in R)
  BY <1>1, WFMin
<1>3. \A y \in S : x <= y
  <2> TAKE y \in S
  <2>1. x \in Nat /\ y \in Nat
    OBVIOUS
  <2>2. y < x => <<y, x>> \in R
    BY <2>1 DEF R
  <2> QED BY <1>2, <2>1, <2>2
<1> QED BY <1>3 DEF Min

\* A runner that starts joins as nobody, with nothing.
LEMMA StartInv ==
    ASSUME GroupInv, NEW c \in Consumers, Start(c),
           UNCHANGED <<stopOf, members, coord, work, lost, undrained>>
    PROVE  /\ GroupsOK' /\ NoGhostMember' /\ CoordOK' /\ OwnersOK' /\ WorkOK'
           /\ \E r \in Runners : /\ r[1] = c /\ runner' = [runner EXCEPT ![c] = r]
                                 /\ ~Live(r) /\ ~group'[r].started
                                 /\ \A q \in Runners : q # r => group'[q] = group[q]
<1> DEFINE i == Min(Fresh(c))
           r == <<c, i>>
           g == [NewGroup EXCEPT !.phase = "join"]
<1> USE DEF GroupInv
<1>1. i \in 1 .. MaxRunners /\ group[r].phase = "new"
  <2>1. /\ budget.runners[c] \in 0 .. MaxRunners /\ MaxRunners \in Nat
    BY GroupAssumption DEF FacadeOK
  <2>2. Fresh(c) \subseteq Nat /\ Fresh(c) # {}
    BY <2>1 DEF Fresh, Start
  <2>3. i \in Fresh(c)
    BY <2>2, MinOfNat
  <2> HIDE DEF i
  <2>4. i \in 1 .. budget.runners[c] /\ group[r].phase = "new"
    BY <2>3 DEF Fresh
  <2> QED BY <2>1, <2>4
<1>2. runner' = [runner EXCEPT ![c] = r] /\ group' = [group EXCEPT ![r] = g]
  BY DEF Start, Upd
<1> HIDE DEF i
<1>3. r \in Runners /\ r[1] = c
  BY <1>1 DEF Runners
<1>a. g = [NewGroup EXCEPT !.phase = "join"]
  OBVIOUS
<1> HIDE DEF g
<1>4. /\ g.phase = "join" /\ g.started = FALSE /\ g.running = FALSE /\ g.memberId = 0
      /\ g.asked = 0 /\ g.generation = 0 /\ g.offsets = NoManager
  BY <1>a DEF NewGroup
<1>5. g = [phase |-> g.phase, started |-> g.started, running |-> g.running,
           memberId |-> g.memberId, asked |-> g.asked, generation |-> g.generation,
           plan |-> g.plan, known |-> g.known, tries |-> g.tries, offsets |-> g.offsets]
  BY <1>a DEF NewGroup
<1> HIDE DEF r
<1>6. GroupOK(g)
  <2>1. g.phase \in Phases /\ g.started \in BOOLEAN /\ g.running \in BOOLEAN
    BY <1>4, Zenon DEF Phases
  <2>2. g.memberId \in Nat /\ g.asked \in Nat /\ g.generation \in Nat
    BY <1>4
  <2> QED BY <1>4, <1>5, <2>1, <2>2, NoManagerOK, Zenon DEF GroupOK
<1>7. Identity(g)
  BY <1>4 DEF Identity
<1>8. \A q \in Runners : group'[q] = IF q = r THEN g ELSE group[q]
  BY <1>2, <1>3 DEF GroupsOK
<1>9. GroupsOK'
  <2>1. group' = [q \in Runners |-> group'[q]]
    BY <1>2 DEF GroupsOK
  <2> QED BY <1>6, <1>7, <1>8, <2>1 DEF GroupsOK
<1>10. ~Live(r) /\ group[r].memberId = 0 /\ (undrained \/ work[r] = None)
  BY <1>1, <1>3, RunnerFacts DEF Live, Identity, r
<1>11. NoGhostMember'
  <2> SUFFICES ASSUME NEW id \in DOMAIN members
               PROVE  Holder(id)' # {} \/ Leaving(id)' \/ id \in lost
    BY DEF NoGhostMember
  <2>1. CASE Holder(id) # {}
    <3>1. PICK q \in Runners : Live(q) /\ id \in {group[q].memberId, group[q].asked}
      BY <2>1 DEF Holder
    <3>2. q \in Holder(id)'
      BY <1>8, <1>10, <3>1 DEF Holder, Live
    <3> QED BY <3>2
  <2>2. CASE Leaving(id)
    <3>1. PICK d \in Consumers : stopOf[d] # None /\ group[stopOf[d]].memberId = id
      BY <2>2 DEF Leaving
    <3>2. stopOf[d] \in Runners /\ stopOf[d] # r
      BY <1>10, <3>1 DEF FacadeOK, CoordOK
    <3> QED BY <1>8, <3>1, <3>2 DEF Leaving
  <2> QED BY <2>1, <2>2 DEF NoGhostMember
<1>12. CoordOK'
  BY <1>4, <1>8, NoManagerOK DEF CoordOK
<1>13. OwnersOK'
  BY <1>4, <1>8, NoManagerOK DEF OwnersOK
<1>14. WorkOK'
  BY <1>4, <1>8, <1>10, NoManagerOK DEF WorkOK
<1> QED BY <1>2, <1>3, <1>4, <1>8, <1>9, <1>10, <1>11, <1>12, <1>13, <1>14

\* run() is called.
LEMMA RunInv ==
    ASSUME GroupInv, NEW c \in Consumers, Run(c)
    PROVE  GroupInv'
<1> USE DEF GroupInv, kafka
<1>1. /\ runner[c] = None /\ Start(c)
      /\ stopped' = [stopped EXCEPT ![c] = FALSE] /\ raced' = [raced EXCEPT ![c] = FALSE]
      /\ UNCHANGED <<stopOf, crash, timers, restartTimeout, work, members, coord, lost, undrained,
                     budget>>
  BY DEF Run
<1>2. GroupsOK' /\ NoGhostMember' /\ CoordOK' /\ OwnersOK' /\ WorkOK'
  BY <1>1, StartInv
<1>3. PICK r \in Runners : /\ r[1] = c /\ runner' = [runner EXCEPT ![c] = r]
                           /\ ~Live(r) /\ ~group'[r].started
                           /\ \A q \in Runners : q # r => group'[q] = group[q]
  BY <1>1, StartInv
<1>4. FacadeOK'
  BY <1>1, <1>3 DEF FacadeOK
<1>5. ToldToStop'
  BY <1>1, <1>3 DEF ToldToStop, Live
<1>6. stopOf[c] = None
  BY <1>1 DEF FacadeOK
<1>7. StopByCrash'
  BY <1>1, <1>6 DEF StopByCrash, FacadeOK
<1>8. StopIsFinal'
  BY <1>1, <1>3 DEF StopIsFinal, FacadeOK, Live
<1> QED BY <1>2, <1>4, <1>5, <1>7, <1>8

\* The restart timer fires.
LEMMA TimerFiresInv ==
    ASSUME GroupInv, NEW t \in Runners, TimerFires(t)
    PROVE  GroupInv'
<1> DEFINE c == t[1]
<1> USE DEF GroupInv, kafka, history
<1>1. /\ t \in timers /\ Start(c) /\ timers' = timers \ {t} /\ c \in Consumers
      /\ UNCHANGED <<stopOf, crash, restartTimeout, work, members, coord, lost, undrained,
                     stopped, raced, budget>>
  BY DEF TimerFires, Runners
<1> HIDE DEF c
<1>2. GroupsOK' /\ NoGhostMember' /\ CoordOK' /\ OwnersOK' /\ WorkOK'
  BY <1>1, StartInv
<1>3. PICK r \in Runners : /\ r[1] = c /\ runner' = [runner EXCEPT ![c] = r]
                           /\ ~Live(r) /\ ~group'[r].started
                           /\ \A q \in Runners : q # r => group'[q] = group[q]
  BY <1>1, StartInv
<1>4. FacadeOK'
  BY <1>1, <1>3, GroupAssumption DEF FacadeOK
<1>5. ToldToStop'
  BY <1>1, <1>3 DEF ToldToStop, Live
<1>6. StopByCrash'
  BY <1>1 DEF StopByCrash
<1>7. StopIsFinal'
  <2>1. ~(stopped[c] /\ ~raced[c])
    BY <1>1 DEF StopIsFinal, c
  <2> QED BY <1>1, <1>3, <2>1 DEF StopIsFinal, Live
<1> QED BY <1>2, <1>4, <1>5, <1>6, <1>7

\* A crash handler decides whether to restart.
LEMMA DecideInv ==
    ASSUME GroupInv, NEW r \in Runners, Decide(r)
    PROVE  GroupInv'
<1> USE DEF GroupInv, kafka, history, client
<1>1. /\ crash[r] = "deciding" /\ crash' = [crash EXCEPT ![r] = "over"]
      /\ \/ /\ timers' = timers \cup {r}
            /\ restartTimeout' = [restartTimeout EXCEPT ![r[1]] = r]
         \/ UNCHANGED <<timers, restartTimeout>>
      /\ UNCHANGED <<runner, stopOf, group, work, members, coord, stopped, raced, lost,
                     undrained, budget>>
  BY DEF Decide
<1>2. r[1] \in Consumers
  BY RunnerFacts
<1>3. GroupsOK' /\ CoordOK' /\ OwnersOK' /\ WorkOK' /\ ToldToStop'
  BY <1>1 DEF GroupsOK, CoordOK, OwnersOK, WorkOK, ToldToStop, Live
<1>4. NoGhostMember'
  BY <1>1 DEF NoGhostMember, Holder, Leaving, Live
<1>5. FacadeOK'
  BY <1>1, <1>2 DEF FacadeOK
<1>6. \A q \in Runners : crash'[q] = IF q = r THEN "over" ELSE crash[q]
  BY <1>1 DEF FacadeOK
<1>7. StopByCrash'
  BY <1>1, <1>6 DEF StopByCrash
<1>8. StopIsFinal'
  <2>1. ~(stopped[r[1]] /\ ~raced[r[1]])
    BY <1>1, <1>2 DEF StopIsFinal
  <2> QED BY <1>1, <1>6, <2>1 DEF StopIsFinal, Live
<1> QED BY <1>3, <1>4, <1>5, <1>7, <1>8

\* runner.stop() is over: the member has left, unless leave() failed.
LEMMA StoppedInv ==
    ASSUME GroupInv, NEW c \in Consumers, Stopped(c)
    PROVE  GroupInv'
<1> DEFINE k == stopOf[c]
           g == [group[k] EXCEPT !.memberId = 0]
<1> USE DEF GroupInv
<1>1. /\ k # None /\ group[k].phase = "off" /\ LeaveGroup(k)
      /\ runner' = [runner EXCEPT ![c] = None] /\ stopOf' = [stopOf EXCEPT ![c] = None]
      /\ timers' \subseteq timers
      /\ crash' = [r \in Runners |-> IF r[1] = c /\ (crash[r] = "stopping" \/ r = None)
                                     THEN "deciding" ELSE crash[r]]
      /\ UNCHANGED <<restartTimeout, work, stopped, raced, undrained>>
  BY DEF Stopped, Settle, Cleared
<1>2. k \in Runners /\ k[1] = c /\ GroupOK(group[k]) /\ Identity(group[k])
  <2>1. k \in Runners /\ k[1] = c
    BY <1>1 DEF FacadeOK
  <2> QED BY <2>1, RunnerFacts
<1>3. \/ /\ group[k].memberId # 0 /\ Leave(group[k].memberId)
         /\ group' = [group EXCEPT ![k] = g] /\ UNCHANGED <<lost, budget>>
      \/ /\ Fault /\ lost' = lost \cup {group[k].memberId} /\ UNCHANGED <<members, coord, group>>
      \/ group[k].memberId = 0 /\ UNCHANGED <<members, coord, group, lost, budget>>
  BY <1>1 DEF LeaveGroup, Upd
<1>4. g = [group[k] EXCEPT !.memberId = 0]
  OBVIOUS
<1> HIDE DEF g
<1>5. /\ g.phase = "off" /\ g.started = group[k].started
      /\ g.running = group[k].running /\ g.memberId = 0 /\ g.asked = group[k].asked
      /\ g.generation = group[k].generation /\ g.plan = group[k].plan
      /\ g.offsets = group[k].offsets
  BY <1>1, <1>2, <1>4 DEF GroupOK
<1>6. GroupOK(g) /\ Identity(g)
  BY <1>1, <1>2, <1>4, <1>5 DEF GroupOK, Identity
<1>7. \A q \in Runners : group'[q] = group[q] \/ (q = k /\ group'[q] = g)
  BY <1>3 DEF GroupsOK
<1>8. GroupsOK'
  <2>1. group' = [q \in Runners |-> group'[q]]
    BY <1>3 DEF GroupsOK
  <2> QED BY <1>6, <1>7, <2>1 DEF GroupsOK
<1>9. budget' \in Budgets
  BY <1>3, FaultBudget DEF FacadeOK, Budgets
<1>10. \A q \in Runners : /\ q # None /\ q[1] \in Consumers
                          /\ q[1] # c => crash'[q] = crash[q]
                          /\ crash'[q] = crash[q] \/ crash[q] = "stopping"
                          /\ crash'[q] \in {"no", "stopping", "deciding", "over"}
  BY <1>1, RunnerFacts DEF FacadeOK
<1>11. \A d \in Consumers : /\ runner'[d] = IF d = c THEN None ELSE runner[d]
                            /\ stopOf'[d] = IF d = c THEN None ELSE stopOf[d]
  BY <1>1 DEF FacadeOK
<1>12. FacadeOK'
  <2>1. crash' \in [Runners -> {"no", "stopping", "deciding", "over"}]
    BY <1>1, <1>10
  <2> HIDE DEF k
  <2> QED BY <1>1, <1>9, <1>11, <2>1 DEF FacadeOK, Budgets
<1>13. \A q \in Runners : /\ Live(q)' = Live(q) /\ group'[q].started = group[q].started
                          /\ group'[q].running = group[q].running
  BY <1>1, <1>5, <1>7 DEF Live
<1>14. ~Live(k)
  BY <1>1 DEF Live
<1>15. ToldToStop'
  BY <1>10, <1>11, <1>13, <1>14 DEF ToldToStop
<1>16. StopByCrash'
  <2> HIDE DEF k
  <2> QED BY <1>1, <1>10, <1>11 DEF StopByCrash
<1>17. StopIsFinal'
  BY <1>1, <1>2, <1>10, <1>11, <1>13, <1>14 DEF StopIsFinal
<1>18. /\ CoordKept /\ DOMAIN members' \subseteq DOMAIN members /\ lost \subseteq lost'
       /\ group[k].memberId \in DOMAIN members' => group[k].memberId \in lost'
  <2>1. CASE Leave(group[k].memberId) /\ UNCHANGED lost
    BY <2>1, LeaveKept
  <2>2. CASE /\ UNCHANGED <<members, coord>> /\ lost \subseteq lost'
             /\ group[k].memberId = 0 \/ group[k].memberId \in lost'
    BY <2>2, CoordSame DEF CoordOK
  <2> QED BY <1>3, <2>1, <2>2
<1>19. NoGhostMember'
  <2> SUFFICES ASSUME NEW id \in DOMAIN members'
               PROVE  Holder(id)' # {} \/ Leaving(id)' \/ id \in lost'
    BY DEF NoGhostMember
  <2>1. CASE Holder(id) # {}
    <3>1. PICK q \in Runners : Live(q) /\ id \in {group[q].memberId, group[q].asked}
      BY <2>1 DEF Holder
    <3>2. q \in Holder(id)'
      BY <1>7, <1>13, <1>14, <3>1 DEF Holder
    <3> QED BY <3>2
  <2>2. CASE Leaving(id)
    <3>1. PICK d \in Consumers : stopOf[d] # None /\ group[stopOf[d]].memberId = id
      BY <2>2 DEF Leaving
    <3>2. CASE d = c
      BY <1>18, <3>1, <3>2
    <3>3. CASE d # c
      <4>1. stopOf[d] \in Runners /\ stopOf[d] # k /\ stopOf'[d] = stopOf[d]
        BY <1>2, <1>11, <3>1, <3>3 DEF FacadeOK
      <4>2. group'[stopOf[d]].memberId = id
        BY <1>7, <3>1, <4>1
      <4> QED BY <3>1, <4>1, <4>2 DEF Leaving
    <3> QED BY <3>2, <3>3
  <2> QED BY <1>18, <2>1, <2>2 DEF NoGhostMember
<1>20. CoordOK' /\ OwnersOK'
  BY <1>1, <1>5, <1>7, <1>18, OwnersKept
<1>21. WorkOK'
  BY <1>1, <1>5, <1>7 DEF WorkOK
<1> QED BY <1>8, <1>12, <1>15, <1>16, <1>17, <1>19, <1>20, <1>21

-----------------------------------------------------------------------------
(***************************************************************************)
(* The invariant and what follows from it                                  *)
(***************************************************************************)

\* Nobody runs, nobody has joined.
LEMMA GroupInitInv ==
    Init => GroupInv
<1> SUFFICES ASSUME Init PROVE GroupInv
  OBVIOUS
<1> USE DEF Init
<1> DEFINE n == NewGroup
<1>1. /\ n.phase = "new" /\ n.started = FALSE /\ n.running = FALSE /\ n.memberId = 0
      /\ n.asked = 0 /\ n.generation = 0 /\ n.offsets = NoManager
  BY DEF NewGroup
<1>2. n = [phase |-> n.phase, started |-> n.started, running |-> n.running,
           memberId |-> n.memberId, asked |-> n.asked, generation |-> n.generation,
           plan |-> n.plan, known |-> n.known, tries |-> n.tries, offsets |-> n.offsets]
  BY DEF NewGroup
<1>3. group = [r \in Runners |-> n] /\ \A r \in Runners : group[r] = n
  OBVIOUS
<1> HIDE DEF n
<1>4. GroupOK(n)
  <2>1. n.phase \in Phases /\ n.started \in BOOLEAN /\ n.running \in BOOLEAN
    BY <1>1, Zenon DEF Phases
  <2>2. n.memberId \in Nat /\ n.asked \in Nat /\ n.generation \in Nat
    BY <1>1
  <2> QED BY <1>1, <1>2, <2>1, <2>2, NoManagerOK, Zenon DEF GroupOK
<1>5. GroupsOK
  BY <1>1, <1>3, <1>4 DEF GroupsOK, Identity
<1>6. FacadeOK
  BY GroupAssumption DEF FacadeOK
<1>7. members = <<>> /\ DOMAIN members = {}
  OBVIOUS
<1>8. /\ coord.state = "stable" /\ coord.generation = 0 /\ coord.lastId = 0
      /\ coord = [state |-> coord.state, generation |-> coord.generation,
                  leader |-> coord.leader, assignment |-> coord.assignment,
                  synced |-> coord.synced, lastId |-> coord.lastId]
  OBVIOUS
<1>9. CoordOK
  BY <1>1, <1>3, <1>7, <1>8, NoManagerOK DEF CoordOK
<1>10. \A r \in Runners : ~Live(r)
  BY <1>1, <1>3 DEF Live
<1>11. ToldToStop /\ StopByCrash /\ StopIsFinal
  BY <1>10 DEF ToldToStop, StopByCrash, StopIsFinal
<1>12. NoGhostMember
  BY <1>7 DEF NoGhostMember
<1>13. OwnersOK
  BY <1>1, <1>3, <1>7, <1>8, NoManagerOK DEF OwnersOK
<1>14. WorkOK
  BY <1>1, <1>3, NoManagerOK DEF WorkOK
<1> QED BY <1>5, <1>6, <1>9, <1>11, <1>12, <1>13, <1>14 DEF GroupInv

\* Every step keeps the invariant.
LEMMA GroupNextInv ==
    GroupInv /\ [Next]_vars => GroupInv'
<1> SUFFICES ASSUME GroupInv, [Next]_vars PROVE GroupInv'
  OBVIOUS
<1>1. ASSUME NEW c \in Consumers, Run(c) PROVE GroupInv'
  BY <1>1, RunInv
<1>2. ASSUME NEW c \in Consumers, Stop(c) PROVE GroupInv'
  BY <1>2, StopInv
<1>3. ASSUME NEW c \in Consumers, Stopped(c) PROVE GroupInv'
  BY <1>3, StoppedInv
<1>4. ASSUME NEW r \in Runners, TimerFires(r) \/ Decide(r) \/ JoinFails(r) \/ HandlerFails(r)
      PROVE  GroupInv'
  BY <1>4, TimerFiresInv, DecideInv, JoinFailsInv, HandlerFailsInv
<1>5. ASSUME NEW r \in Runners, RunnerSteps(r) PROVE GroupInv'
  BY <1>5, JoinArrivesInv, SyncArrivesInv, AwareInv, HandlerEndsInv, CommitInv, HeartbeatInv,
     StaleInv, DrainsInv DEF RunnerSteps
<1>6. ASSUME NEW r \in Runners, NEW p \in Partitions, Handle(r, p) PROVE GroupInv'
  BY <1>6, HandleInv
<1>7. ASSUME JoinCompletes PROVE GroupInv'
  BY <1>7, JoinCompletesInv
<1>8. ASSUME PartitionsAdded PROVE GroupInv'
  BY <1>8, SameInv DEF PartitionsAdded, client, history
<1>9. ASSUME NEW id \in DOMAIN members, SessionExpires(id) PROVE GroupInv'
  BY <1>9, SessionExpiresInv
<1>10. ASSUME UNCHANGED vars PROVE GroupInv'
  BY <1>10, SameInv DEF vars, client, kafka, history
<1> QED BY <1>1, <1>2, <1>3, <1>4, <1>5, <1>6, <1>7, <1>8, <1>9, <1>10 DEF Next

\* The group keeps its invariant, whatever consumers, coordinator and network do.
THEOREM GroupInvariant == Spec => []GroupInv
BY GroupInitInv, GroupNextInv, PTL DEF Spec

\* After stop() has resolved no runner of the consumer is alive and no restart is
\* due, unless stop() met a start or a crash half way (consumer/index.js stop).
THEOREM StopIsHeld == Spec => []StopHolds
<1>1. GroupInv => StopHolds
  <2> SUFFICES ASSUME GroupInv, NEW c \in Consumers, stopped[c], stopOf[c] = None, ~raced[c],
                      NEW r \in Runners, r[1] = c
               PROVE  ~Live(r) /\ r \notin timers
    BY DEF StopHolds
  <2>1. r # None
    BY RunnerFacts
  <2> QED BY <2>1 DEF GroupInv, StopIsFinal
<1> QED BY <1>1, GroupInvariant, PTL

\* A member the coordinator waits for is alive or about to leave, unless its
\* leave() or its start was lost (runner.js stop, consumer/index.js onCrash).
THEOREM MembersAreAccountedFor == Spec => []NoGhostMember
<1>1. GroupInv => NoGhostMember
  BY DEF GroupInv
<1> QED BY <1>1, GroupInvariant, PTL

\* The committed offset of a partition changes at the hand of the member it was
\* given to, unless a runner re-joined under a working handler (offsetManager
\* commitOffsets, consumerGroup.js SYNC).
THEOREM OwnersCommit == Spec => CommitsByOwner
<1> DEFINE Owned == \A p \in Partitions : committed'[p] # committed[p] =>
              \/ undrained
              \/ \E r \in Runners : LET m == group[r].offsets IN
                    /\ m.resolved[p] = committed'[p]
                    /\ m.member \in DOMAIN coord.assignment /\ p \in coord.assignment[m.member]
<1>1. GroupInv /\ [Next]_vars => [Owned]_vars
  <2> SUFFICES ASSUME GroupInv, [Next]_vars, NEW p \in Partitions,
                      committed'[p] # committed[p], ~undrained
               PROVE  \E r \in Runners :
                         /\ group[r].offsets.resolved[p] = committed'[p]
                         /\ group[r].offsets.member \in DOMAIN coord.assignment
                         /\ p \in coord.assignment[group[r].offsets.member]
    BY Zenon
  <2>1. PICK r \in Runners : Commit(r)
    <3>1. UNCHANGED committed \/ \E r \in Runners : Commit(r)
      BY DEF Next, vars, RunnerSteps, Run, Stop, Stopped, TimerFires, Decide, JoinFails,
         HandlerFails, JoinArrives, SyncArrives, Aware, HandlerEnds, Heartbeat,
         CheckForStaleAssignment, Drains, Handle, JoinCompletes, PartitionsAdded,
         SessionExpires, kafka
    <3> QED BY <3>1
  <2> DEFINE m == group[r].offsets
             said == JudgeCommit(m.member, m.generation)
             changed == {q \in Partitions : /\ m.resolved[q] # NoOffset
                                            /\ m.resolved[q] # committed[q]}
  <2>2. /\ said = "ok"
        /\ committed' = [q \in Partitions |-> IF q \in changed THEN m.resolved[q]
                                              ELSE committed[q]]
    BY <2>1 DEF Commit, Committer
  <2>3. p \in changed /\ committed'[p] = m.resolved[p]
    BY <2>2
  <2>4. m.generation = coord.generation /\ coord.state # "completing"
    <3> DEFINE j == Judge(m.member, m.generation)
    <3>1. /\ j \in {"REBALANCE_IN_PROGRESS", "ok"} => m.generation = coord.generation
          /\ j = "REBALANCE_IN_PROGRESS" => coord.state = "preparing"
      BY DEF Judge
    <3>2. j = "REBALANCE_IN_PROGRESS" \/ (j = "ok" /\ coord.state # "completing")
      <4> HIDE DEF j, m
      <4> QED BY <2>2 DEF JudgeCommit, j
    <3> QED BY <3>1, <3>2
  <2>5. p \in m.assigned
    BY <2>3, RunnerFacts
  <2>6. Given(coord, m.member, p)
    BY <2>4, <2>5, RunnerFacts DEF HoldsItsOwn
  <2> QED BY <2>3, <2>6 DEF Given
<1> QED BY <1>1, GroupInvariant, PTL DEF Spec, CommitsByOwner
=============================================================================

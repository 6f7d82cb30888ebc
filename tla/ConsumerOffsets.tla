--------------------------- MODULE ConsumerOffsets ---------------------------
(***************************************************************************)
(* The offsets of a consumer group member: OffsetManager                   *)
(* (src/src/consumer/offsetManager/), the pending seeks (seekOffsets.js),  *)
(* pause and resume (subscriptionState.js), the fetch of consumerGroup.js  *)
(* and the handling of a batch by runner.js with an eachMessage handler.   *)
(*                                                                         *)
(* Each partition has a broker, and so a fetch loop, of its own.  Its loop *)
(* goes on after the batch it fetched has been handled; the loops share    *)
(* the offset manager, whose commits cover the partitions of all.          *)
(*                                                                         *)
(* External: the brokers with the logs, the group coordinator, which       *)
(* handles and answers the requests of the member in order, another member *)
(* that consumes what the coordinator takes from this one, and the         *)
(* application, which handles messages, seeks, pauses and resumes.         *)
(***************************************************************************)
EXTENDS Integers, Sequences, FiniteSets, Functions, FiniteSetsExt

CONSTANTS
    Partitions,
    Control,         \* <<p, o>> such that record o of p is a control record
    LogLen,          \* number of records in each partition
    MaxBatch,        \* number of records a fetch returns
    Steered,         \* partitions the application seeks in, pauses and resumes
    SeekTargets,     \* offsets it seeks to
    Assignments,     \* what the coordinator may assign to this member
    Runner,          \* the actor that joins the group for the runner
    None,
    MaxDisturbances  \* bound on failures of handlers, requests and membership,
                     \* deletions, seeks and pauses, taken together

ASSUME ConsumerOffsetsAssumption ==
    /\ LogLen \in Nat /\ MaxBatch \in Nat \ {0}
    /\ Control \subseteq Partitions \X (0..(LogLen - 1))
    /\ Steered \subseteq Partitions
    /\ SeekTargets \subseteq 0..(LogLen - 1)
    /\ Assignments \subseteq SUBSET Partitions
    /\ Partitions \in Assignments /\ {} \notin Assignments
    /\ Runner \notin Partitions
    /\ None \notin Int
    /\ MaxDisturbances \in Nat

VARIABLES
    autoCommit,         \* options of consumer.run()
    autoCommitInterval, \* set: commitOffsetsIfNecessary() may find it passed
    stage,       \* where each fetch loop is, and the runner's joinAndSync()
    after,       \* where a loop goes on when its commit is done
    fetchOffset, \* of the fetch request of each loop, and of its batch until a
                 \* worker takes it
    batch,       \* messages of the batch that are still to be handled
    message,     \* the offset the handler of each partition works on
    stopping,    \* the fetch manager stops its fetchers after an error
    error,       \* the error it was, "none" if there was none
    assigned,    \* assignment of the subscription state
    paused,
    seekOffset,  \* pending seek of each partition
    generation,  \* generation of the offset manager
    resolvedOffsets, committedOffsets,
    requests, replies,         \* to and from the coordinator
    groupGeneration,           \* the coordinator's
    owned,                     \* partitions it has given to this member
    groupOffset,               \* committed offsets of the group
    logStart,                  \* first record retention has left
    handled,     \* messages a handler of some member has completed
    skippable,   \* messages below this offset were skipped by a seek
    sought,      \* the last seek, until a message is delivered or a fault
    sincePause,  \* messages delivered since a partition was paused
    failed,      \* something has failed
    disturbances

config == <<autoCommit, autoCommitInterval>>
loopVars == <<stage, after, fetchOffset, batch, message, stopping, error>>
groupVars == <<assigned, generation>>
appVars == <<paused, seekOffset>>
offsetVars == <<resolvedOffsets, committedOffsets>>
netVars == <<requests, replies>>
coordVars == <<groupGeneration, owned, groupOffset>>
ghostVars == <<handled, skippable, sought, sincePause>>
bounds == <<failed, disturbances>>
vars == <<config, loopVars, groupVars, appVars, offsetVars, netVars, coordVars,
          logStart, ghostVars, bounds>>

Offsets == 0..LogLen

\* The special offset setDefaultOffset() commits ("earliest").
Default == -2

\* isInvalidOffset()
IsInvalidOffset(o) == o = None \/ o = Default

Stage == {"top", "seeking", "resetting", "resolving", "fetching", "queued",
          "next", "handler", "committing", "joining", "syncing", "rejoining", "ended",
          "watching"}

Init ==
    /\ autoCommit \in BOOLEAN
    /\ autoCommitInterval \in (IF autoCommit THEN BOOLEAN ELSE {FALSE})
    /\ stage = [a \in Partitions \cup {Runner} |->
                   IF a = Runner THEN "watching" ELSE "top"]
    /\ after = [p \in Partitions |-> None]
    /\ fetchOffset = [p \in Partitions |-> None]
    /\ batch = [p \in Partitions |-> {}]
    /\ message = [p \in Partitions |-> None]
    /\ stopping = FALSE
    /\ error = "none"
    /\ assigned = Partitions
    /\ paused = [p \in Partitions |-> FALSE]
    /\ seekOffset = [p \in Partitions |-> None]
    /\ generation = 1
    /\ resolvedOffsets = [p \in Partitions |-> None]
    /\ committedOffsets = [p \in Partitions |-> None]
    /\ requests = <<>>
    /\ replies = <<>>
    /\ groupGeneration = 1
    /\ owned = Partitions
    /\ groupOffset = [p \in Partitions |-> None]
    /\ logStart = [p \in Partitions |-> 0]
    /\ handled = [p \in Partitions |-> {}]
    /\ skippable = [p \in Partitions |-> 0]
    /\ sought = [p \in Partitions |-> None]
    /\ sincePause = [p \in Partitions |-> 0]
    /\ failed = FALSE
    /\ disturbances = 0

-----------------------------------------------------------------------------
(***************************************************************************)
(* Helpers                                                                 *)
(***************************************************************************)

Moves(a, s) == stage' = [stage EXCEPT ![a] = s]

\* A request of actor a to the coordinator.  offs are the offsets it commits.
Sends(a, op, offs, gen) ==
    requests' = Append(requests, [who |-> a, op |-> op, offs |-> offs,
                                  gen |-> gen, heard |-> TRUE])

\* The offsets offs, where new has none.
Overridden(offs, new) ==
    [p \in DOMAIN offs |-> IF p \in DOMAIN new THEN new[p] ELSE offs[p]]

\* The response to a is the oldest one.
Answered(a) == replies # <<>> /\ Head(replies).who = a
Takes == replies' = Tail(replies)

\* The responses without that to p, of which there is at most one.
Unanswered(p) ==
    LET mine == {i \in DOMAIN replies : replies[i].who = p}
        i == CHOOSE k \in mine : TRUE
    IN IF mine = {} THEN replies
       ELSE SubSeq(replies, 1, i - 1) \o SubSeq(replies, i + 1, Len(replies))

Disturbs ==
    /\ disturbances < MaxDisturbances
    /\ disturbances' = disturbances + 1

\* A failure: the properties of a seek do not cover it.
Faulty ==
    /\ Disturbs
    /\ failed' = TRUE
    /\ sought' = [p \in Partitions |-> None]

\* The loop of p ends with an error.  The fetch manager stops the others and
\* throws the first error.
LoopFails(p, e) ==
    /\ Moves(p, "ended")
    /\ stopping' = TRUE
    /\ error' = IF error = "none" THEN e ELSE error

\* The loop of p goes back to its start.
Iterates(p) == Moves(p, "top")

\* uncommittedOffsets()
UncommittedOffsets(resolved, committed) ==
    Restrict(resolved, {p \in Partitions : /\ resolved[p] # None
                                           /\ resolved[p] # committed[p]})

\* The loop of p goes on at stage next, or fails if next is an error.
GoesOn(p, next) ==
    CASE next = "top" -> Iterates(p) /\ UNCHANGED <<stopping, error>>
      [] next = "next" -> Moves(p, "next") /\ UNCHANGED <<stopping, error>>
      [] OTHER -> LoopFails(p, next)

\* autoCommitOffsets(): commitOffsets() without arguments, unless there is
\* nothing to commit.  The loop of p goes on when it is answered.
AutoCommitOffsets(p, resolved, next) ==
    LET offs == UncommittedOffsets(resolved, committedOffsets)
    IN IF autoCommit /\ DOMAIN offs # {}
       THEN /\ Sends(p, "commit", offs, generation)
            /\ Moves(p, "committing")
            /\ after' = [after EXCEPT ![p] = next]
            /\ UNCHANGED <<stopping, error>>
       ELSE /\ GoesOn(p, next)
            /\ UNCHANGED <<after, requests>>

\* nextOffset()
NextOffset(p, resolved, committed) ==
    IF resolved[p] = None THEN committed[p] ELSE resolved[p]

\* The fetch request for p, with the offsets resolveOffsets() has left: none
\* is sent for a partition without offsets, paused, or taken away meanwhile.
RequestsFetch(p, resolved, committed) ==
    IF committed[p] # None /\ p \in assigned /\ ~paused[p]
    THEN /\ fetchOffset' = [fetchOffset EXCEPT ![p] = NextOffset(p, resolved, committed)]
         /\ resolvedOffsets' = [resolved EXCEPT ![p] = NextOffset(p, resolved, committed)]
         /\ Moves(p, "fetching")
    ELSE /\ resolvedOffsets' = resolved
         /\ Iterates(p)
         /\ UNCHANGED fetchOffset

\* resolveOffsets(), then the request: the offsets that are not known are
\* asked from the coordinator first.
ResolveOffsets(p, resolved, committed) ==
    LET pending == {x \in assigned : IsInvalidOffset(committed[x])}
    IN /\ committedOffsets' = committed
       /\ IF pending = {}
          THEN RequestsFetch(p, resolved, committed) /\ UNCHANGED requests
          ELSE /\ resolvedOffsets' = resolved
               /\ Sends(p, "fetch", [x \in pending |-> None], generation)
               /\ Moves(p, "resolving")
               /\ UNCHANGED fetchOffset

\* clearOffsets()
Cleared(offs, p) == [offs EXCEPT ![p] = None]

-----------------------------------------------------------------------------
(***************************************************************************)
(* The fetch loop                                                          *)
(***************************************************************************)

\* fetch() up to its first request.  A pending seek in a partition the member
\* has is taken; with autoCommit its offset is committed, otherwise resolved.
FetchBegins(p) ==
    LET seek == IF p \in assigned THEN seekOffset[p] ELSE None
    IN /\ stage[p] = "top"
       /\ ~stopping
       /\ seekOffset' = IF seek = None THEN seekOffset ELSE Cleared(seekOffset, p)
       /\ \/ /\ seek = None
             /\ ResolveOffsets(p, resolvedOffsets, committedOffsets)
          \/ /\ seek # None /\ ~autoCommit
             /\ ResolveOffsets(p, [resolvedOffsets EXCEPT ![p] = seek],
                               committedOffsets)
          \/ /\ seek # None /\ autoCommit
             /\ Sends(p, "commit", [x \in {p} |-> seek], generation)
             /\ Moves(p, "seeking")
             /\ UNCHANGED <<fetchOffset, offsetVars>>
       /\ UNCHANGED <<config, after, batch, message, stopping, error, groupVars,
                      paused, replies, coordVars, logStart, ghostVars, bounds>>

\* The loop sees that it is to stop.
LoopStops(p) ==
    /\ stage[p] = "top"
    /\ stopping
    /\ Moves(p, "ended")
    /\ UNCHANGED <<config, after, fetchOffset, batch, message, stopping, error,
                   groupVars, appVars, offsetVars, netVars, coordVars, logStart,
                   ghostVars, bounds>>

\* The offset of a seek, or the default offset, is committed: what was known
\* of p is forgotten.  A reset ends the fetch.
SeekReply(p) ==
    /\ stage[p] \in {"seeking", "resetting"}
    /\ Answered(p) /\ Takes
    /\ \/ /\ Head(replies).ok /\ stage[p] = "seeking"
          /\ ResolveOffsets(p, Cleared(resolvedOffsets, p), Cleared(committedOffsets, p))
          /\ UNCHANGED <<stopping, error>>
       \/ /\ Head(replies).ok /\ stage[p] = "resetting"
          /\ resolvedOffsets' = Cleared(resolvedOffsets, p)
          /\ committedOffsets' = Cleared(committedOffsets, p)
          /\ Iterates(p)
          /\ UNCHANGED <<fetchOffset, requests, stopping, error>>
       \/ /\ ~Head(replies).ok
          /\ LoopFails(p, Head(replies).error)
          /\ UNCHANGED <<fetchOffset, offsetVars, requests>>
    /\ UNCHANGED <<config, after, batch, message, groupVars, appVars, coordVars,
                   logStart, ghostVars, bounds>>

\* The committed offsets of the pending partitions arrive.  They are of no use
\* if there is another offset manager by now.
ResolveReply(p) ==
    /\ stage[p] = "resolving"
    /\ Answered(p) /\ Takes
    /\ IF Head(replies).ok
       THEN LET committed == IF Head(replies).gen = generation
                             THEN Overridden(committedOffsets, Head(replies).offs)
                             ELSE committedOffsets
            IN /\ committedOffsets' = committed
               /\ RequestsFetch(p, resolvedOffsets, committed)
               /\ UNCHANGED <<stopping, error>>
       ELSE /\ LoopFails(p, Head(replies).error)
            /\ UNCHANGED <<fetchOffset, offsetVars>>
    /\ UNCHANGED <<config, after, batch, message, groupVars, appVars, requests,
                   coordVars, logStart, ghostVars, bounds>>

\* The records a fetch at offset o returns.
Records(o) == o..(IF o + MaxBatch <= LogLen THEN o + MaxBatch - 1 ELSE LogLen - 1)

\* Those that are messages for the application.
Messages(p, o) == {x \in Records(o) : <<p, x>> \notin Control}

\* The response to the fetch.  It is dropped if there is a seek or a pause by
\* now, or if the loop is to stop.
FetchReply(p) ==
    LET o == fetchOffset[p]
    IN /\ stage[p] = "fetching"
       /\ o >= logStart[p]
       /\ IF seekOffset[p] # None \/ paused[p] \/ stopping \/ Records(o) = {}
          THEN /\ Iterates(p)
               /\ fetchOffset' = Cleared(fetchOffset, p)
               /\ UNCHANGED batch
          ELSE /\ Moves(p, "queued")
               /\ batch' = [batch EXCEPT ![p] = Messages(p, o)]
               /\ UNCHANGED fetchOffset
       /\ UNCHANGED <<config, after, message, stopping, error,
                      groupVars, appVars, offsetVars, netVars, coordVars,
                      logStart, ghostVars, bounds>>

\* recoverFromOffsetOutOfRange(): the default offset is committed.
OffsetOutOfRange(p) ==
    /\ stage[p] = "fetching"
    /\ fetchOffset[p] < logStart[p]
    /\ Sends(p, "commit", [x \in {p} |-> Default], generation)
    /\ Moves(p, "resetting")
    /\ fetchOffset' = Cleared(fetchOffset, p)
    /\ UNCHANGED <<config, after, batch, message, stopping, error,
                   groupVars, appVars, offsetVars, replies, coordVars, logStart,
                   ghostVars, bounds>>

\* recoverFromFetch(): the metadata is stale, the loop joins the group again
\* while the others go on.
StaleMetadata(p) ==
    /\ stage[p] = "fetching"
    /\ Faulty
    /\ Sends(p, "join", <<>>, None)
    /\ Moves(p, "joining")
    /\ fetchOffset' = Cleared(fetchOffset, p)
    /\ UNCHANGED <<config, after, batch, message, stopping, error,
                   groupVars, appVars, offsetVars, replies, coordVars, logStart,
                   handled, skippable, sincePause>>

(***************************************************************************)
(* processEachMessage()                                                    *)
(***************************************************************************)

\* Mutant: no look at the pending seeks.
NeverStale(p) == TRUE

\* The batch is not given up for a seek: hasSeekOffset().
NotStale(p) == seekOffset[p] = None

\* The next message goes to the handler, or the batch ends with a commit.
Delivers(p) ==
    IF batch[p] # {} /\ NotStale(p)
    THEN /\ Moves(p, "handler")
         /\ message' = [message EXCEPT ![p] = Min(batch[p])]
         /\ batch' = [batch EXCEPT ![p] = @ \ {Min(@)}]
         /\ sought' = [sought EXCEPT ![p] = None]
         /\ sincePause' = [sincePause EXCEPT ![p] = IF paused[p] THEN @ + 1 ELSE @]
         /\ UNCHANGED <<after, stopping, error, requests>>
    ELSE /\ AutoCommitOffsets(p, resolvedOffsets, "top")
         /\ batch' = [batch EXCEPT ![p] = {}]
         /\ UNCHANGED <<message, sought, sincePause>>

\* A worker takes a batch of control records only.  They are resolved, and
\* committed if the interval of autoCommit has passed.
FilteredBatch(p) ==
    LET resolved == [resolvedOffsets EXCEPT ![p] = Max(Records(fetchOffset[p])) + 1]
    IN /\ stage[p] = "queued"
       /\ batch[p] = {}
       /\ resolvedOffsets' = resolved
       /\ \/ /\ autoCommitInterval
             /\ AutoCommitOffsets(p, resolved, "top")
          \/ /\ GoesOn(p, "top")
             /\ UNCHANGED <<after, requests>>
       /\ fetchOffset' = Cleared(fetchOffset, p)
       /\ UNCHANGED <<config, batch, message, groupVars, appVars,
                      committedOffsets, replies, coordVars, logStart, ghostVars,
                      bounds>>

\* A worker takes a batch with messages.
FirstMessage(p) ==
    /\ stage[p] = "queued"
    /\ batch[p] # {}
    /\ Delivers(p)
    /\ fetchOffset' = Cleared(fetchOffset, p)
    /\ UNCHANGED <<config, groupVars, appVars, offsetVars, replies,
                   coordVars, logStart, handled, skippable, bounds>>

\* Mutant: the pause waits for the end of the batch.
NextMessageUnpaused(p) ==
    /\ stage[p] = "next"
    /\ Delivers(p)
    /\ UNCHANGED <<config, fetchOffset, groupVars, appVars, offsetVars, replies,
                   coordVars, logStart, handled, skippable, bounds>>

\* After a message the loop is left if the partition is paused.
NextMessage(p) ==
    /\ stage[p] = "next"
    /\ IF paused[p]
       THEN /\ AutoCommitOffsets(p, resolvedOffsets, "top")
            /\ batch' = [batch EXCEPT ![p] = {}]
            /\ UNCHANGED <<message, sought, sincePause>>
       ELSE Delivers(p)
    /\ UNCHANGED <<config, fetchOffset, groupVars, appVars, offsetVars, replies,
                   coordVars, logStart, handled, skippable, bounds>>

\* resolveOffset() of the message p's handler has completed, with the offset
\* manager there is by now.
ResolveOffset(p) == [resolvedOffsets EXCEPT ![p] = message[p] + 1]

\* The handler resolves: the message is resolved and, if the interval of
\* autoCommit has passed, committed.
HandlerResolves(p) ==
    /\ stage[p] = "handler"
    /\ handled' = [handled EXCEPT ![p] = @ \cup {message[p]}]
    /\ message' = [message EXCEPT ![p] = None]
    /\ resolvedOffsets' = ResolveOffset(p)
    /\ \/ /\ autoCommitInterval
          /\ AutoCommitOffsets(p, ResolveOffset(p), "next")
       \/ /\ Moves(p, "next")
          /\ UNCHANGED <<after, stopping, error, requests>>
    /\ UNCHANGED <<config, fetchOffset, batch, groupVars, appVars,
                   committedOffsets, replies, coordVars, logStart, skippable,
                   sought, sincePause, bounds>>

\* It resolves, but the heartbeat says that the group rebalances: what is
\* resolved is committed and the batch given up.
HandlerResolvesInRebalance(p) ==
    /\ stage[p] = "handler"
    /\ IF generation = groupGeneration THEN Faulty ELSE UNCHANGED <<bounds, sought>>
    /\ handled' = [handled EXCEPT ![p] = @ \cup {message[p]}]
    /\ message' = [message EXCEPT ![p] = None]
    /\ batch' = [batch EXCEPT ![p] = {}]
    /\ resolvedOffsets' = ResolveOffset(p)
    /\ AutoCommitOffsets(p, ResolveOffset(p), "rebalance")
    /\ UNCHANGED <<config, fetchOffset, groupVars, appVars, committedOffsets,
                   replies, coordVars, logStart, skippable, sincePause>>

\* Mutant: the message that failed is resolved too.
HandlerRejectsResolved(p) ==
    /\ stage[p] = "handler"
    /\ Faulty
    /\ message' = [message EXCEPT ![p] = None]
    /\ batch' = [batch EXCEPT ![p] = {}]
    /\ resolvedOffsets' = ResolveOffset(p)
    /\ AutoCommitOffsets(p, ResolveOffset(p), "retry")
    /\ UNCHANGED <<config, fetchOffset, groupVars, appVars, committedOffsets,
                   replies, coordVars, logStart, handled, skippable, sincePause>>

\* The handler rejects: what was resolved before is committed.
HandlerRejects(p) ==
    /\ stage[p] = "handler"
    /\ Faulty
    /\ message' = [message EXCEPT ![p] = None]
    /\ batch' = [batch EXCEPT ![p] = {}]
    /\ AutoCommitOffsets(p, resolvedOffsets, "retry")
    /\ UNCHANGED <<config, fetchOffset, groupVars, appVars, offsetVars, replies,
                   coordVars, logStart, handled, skippable, sincePause>>

\* The heartbeat at the end of an iteration says that the group rebalances.
HeartbeatFails(p) ==
    /\ stage[p] = "top"
    /\ IF generation = groupGeneration THEN Faulty ELSE UNCHANGED <<bounds, sought>>
    /\ AutoCommitOffsets(p, resolvedOffsets, "rebalance")
    /\ UNCHANGED <<config, fetchOffset, batch, message, groupVars, appVars,
                   offsetVars, replies, coordVars, logStart, handled, skippable,
                   sincePause>>

\* A commit is answered: the offsets are remembered as committed.
CommitReply(p) ==
    /\ stage[p] = "committing"
    /\ Answered(p) /\ Takes
    /\ IF Head(replies).ok
       THEN /\ committedOffsets' = Overridden(committedOffsets, Head(replies).offs)
            /\ GoesOn(p, after[p])
            /\ UNCHANGED batch
       ELSE /\ LoopFails(p, Head(replies).error)
            /\ batch' = [batch EXCEPT ![p] = {}]
            /\ UNCHANGED committedOffsets
    /\ after' = [after EXCEPT ![p] = None]
    /\ UNCHANGED <<config, fetchOffset, message, groupVars, appVars,
                   resolvedOffsets, requests, coordVars, logStart, ghostVars,
                   bounds>>

\* A request for offsets fails in the client.  The coordinator may handle it.
RequestFails(p) ==
    /\ stage[p] \in {"seeking", "resetting", "resolving", "committing"}
    /\ Faulty
    /\ requests' = [i \in DOMAIN requests |->
                       IF requests[i].who = p THEN [requests[i] EXCEPT !.heard = FALSE]
                                              ELSE requests[i]]
    /\ replies' = Unanswered(p)
    /\ LoopFails(p, "retry")
    /\ batch' = [batch EXCEPT ![p] = {}]
    /\ after' = [after EXCEPT ![p] = None]
    /\ UNCHANGED <<config, fetchOffset, message, groupVars, appVars, offsetVars,
                   coordVars, logStart, handled, skippable, sincePause>>

(***************************************************************************)
(* The runner, and joining the group                                       *)
(***************************************************************************)

AllEnded == \A p \in Partitions : stage[p] = "ended"

\* Mutant: the fetchers that were stopped are started again.
RestartStopped ==
    /\ stopping /\ AllEnded
    /\ stage[Runner] = "watching"
    /\ \/ /\ error = "retry"
          /\ stage' = [a \in DOMAIN stage |-> IF a = Runner THEN "watching" ELSE "top"]
          /\ UNCHANGED requests
       \/ /\ error = "rebalance"
          /\ Sends(Runner, "join", <<>>, None)
          /\ Moves(Runner, "joining")
    /\ UNCHANGED <<config, after, fetchOffset, batch, message, stopping, error,
                   groupVars, appVars, offsetVars, replies, coordVars, logStart,
                   ghostVars, bounds>>

\* scheduleFetchManager() starts the fetchers again, at once or after having
\* joined the group.
Restart ==
    /\ stopping /\ AllEnded
    /\ stage[Runner] = "watching"
    /\ \/ /\ error = "retry"
          /\ stage' = [a \in DOMAIN stage |-> IF a = Runner THEN "watching" ELSE "top"]
          /\ stopping' = FALSE
          /\ error' = "none"
          /\ UNCHANGED requests
       \/ /\ error = "rebalance"
          /\ Sends(Runner, "join", <<>>, None)
          /\ Moves(Runner, "joining")
          /\ UNCHANGED <<stopping, error>>
    /\ UNCHANGED <<config, after, fetchOffset, batch, message, groupVars, appVars,
                   offsetVars, replies, coordVars, logStart, ghostVars, bounds>>

\* JOIN is answered, SYNC follows.
JoinReply(a) ==
    /\ stage[a] = "joining"
    /\ Answered(a) /\ Takes
    /\ Sends(a, "sync", <<>>, Head(replies).gen)
    /\ Moves(a, "syncing")
    /\ UNCHANGED <<config, after, fetchOffset, batch, message, stopping, error,
                   groupVars, appVars, offsetVars, coordVars, logStart, ghostVars,
                   bounds>>

\* SYNC is answered: there is a new offset manager, which knows no offsets.
\* Otherwise the group has been joined since, and the member joins again.
SyncReply(a) ==
    /\ stage[a] = "syncing"
    /\ Answered(a) /\ Takes
    /\ IF Head(replies).ok
       THEN /\ assigned' = DOMAIN Head(replies).offs
            /\ generation' = Head(replies).gen
            /\ resolvedOffsets' = [p \in Partitions |-> None]
            /\ committedOffsets' = [p \in Partitions |-> None]
            /\ IF a = Runner
               THEN /\ stage' = [x \in DOMAIN stage |-> IF x = Runner THEN "watching" ELSE "top"]
                    /\ stopping' = FALSE
                    /\ error' = "none"
               ELSE Iterates(a) /\ UNCHANGED <<stopping, error>>
       ELSE /\ Moves(a, "rejoining")
            /\ UNCHANGED <<groupVars, offsetVars, stopping, error>>
    /\ UNCHANGED <<config, after, fetchOffset, batch, message, appVars, requests,
                   coordVars, logStart, ghostVars, bounds>>

\* The retrier of joinAndSync() tries again, when the join that came between
\* is over: two of them do not chase each other.
Rejoin(a) ==
    /\ stage[a] = "rejoining"
    /\ \A b \in DOMAIN stage : stage[b] \notin {"joining", "syncing"}
    /\ Sends(a, "join", <<>>, None)
    /\ Moves(a, "joining")
    /\ UNCHANGED <<config, after, fetchOffset, batch, message, stopping, error,
                   groupVars, appVars, offsetVars, replies, coordVars, logStart,
                   ghostVars, bounds>>

(***************************************************************************)
(* The application (external): seek(), pause(), resume()                   *)
(***************************************************************************)

Seek(p, o) ==
    /\ Disturbs
    /\ seekOffset' = [seekOffset EXCEPT ![p] = o]
    /\ sought' = IF ~failed THEN [sought EXCEPT ![p] = o] ELSE sought
    /\ skippable' = [skippable EXCEPT ![p] = IF o > @ THEN o ELSE @]
    /\ UNCHANGED <<config, loopVars, groupVars, paused, offsetVars, netVars,
                   coordVars, logStart, handled, sincePause, failed>>

Pause(p) ==
    /\ Disturbs
    /\ ~paused[p]
    /\ paused' = [paused EXCEPT ![p] = TRUE]
    /\ UNCHANGED <<config, loopVars, groupVars, seekOffset, offsetVars, netVars,
                   coordVars, logStart, ghostVars, failed>>

Resume(p) ==
    /\ paused[p]
    /\ paused' = [paused EXCEPT ![p] = FALSE]
    /\ sincePause' = [sincePause EXCEPT ![p] = 0]
    /\ UNCHANGED <<config, loopVars, groupVars, seekOffset, offsetVars, netVars,
                   coordVars, logStart, handled, skippable, sought, bounds>>

(***************************************************************************)
(* The brokers and the other member (external)                             *)
(***************************************************************************)

\* Where the group goes on in p.
GroupPosition(p) ==
    IF IsInvalidOffset(groupOffset[p]) THEN logStart[p] ELSE groupOffset[p]

\* The coordinator handles the oldest request: it may refuse one for offsets,
\* and refuses those of an old generation.
CoordinatorHandles(refuse) ==
    LET req == Head(requests)
        current == req.op \in {"join", "fetch"} \/ req.gen = groupGeneration
        ok == current /\ ~refuse
    IN /\ requests # <<>>
       /\ refuse => req.op \in {"commit", "fetch"} /\ current
       /\ IF refuse THEN Faulty ELSE UNCHANGED <<bounds, sought>>
       /\ requests' = Tail(requests)
       /\ groupGeneration' = IF req.op = "join" THEN groupGeneration + 1 ELSE groupGeneration
       /\ groupOffset' = IF req.op = "commit" /\ ok THEN Overridden(groupOffset, req.offs) ELSE groupOffset
       /\ owned' \in IF req.op = "sync" /\ ok THEN Assignments ELSE {owned}
       /\ replies' = IF ~req.heard THEN replies
             ELSE Append(replies,
                    [who |-> req.who, ok |-> ok,
                     error |-> IF refuse THEN "retry" ELSE "rebalance",
                     gen |-> IF req.op = "join" THEN groupGeneration' ELSE req.gen,
                     offs |-> CASE req.op = "fetch" -> [p \in DOMAIN req.offs |-> GroupPosition(p)]
                                [] req.op = "sync" -> [p \in owned' |-> None]
                                [] OTHER -> req.offs])
       /\ UNCHANGED <<config, loopVars, groupVars, appVars, offsetVars, logStart,
                      handled, skippable, sincePause>>

\* The coordinator takes this member for dead; the other one gets everything.
Evict ==
    /\ Faulty
    /\ owned # {}
    /\ owned' = {}
    /\ groupGeneration' = groupGeneration + 1
    /\ UNCHANGED <<config, loopVars, groupVars, appVars, offsetVars, netVars,
                   groupOffset, logStart, handled, skippable, sincePause>>

\* The other member handles a record of a partition it has, and commits.
OtherMember(p) ==
    LET o == Max({GroupPosition(p), logStart[p]})
    IN /\ p \notin owned
       /\ o < LogLen
       /\ handled' = IF <<p, o>> \in Control THEN handled
                     ELSE [handled EXCEPT ![p] = @ \cup {o}]
       /\ groupOffset' = [groupOffset EXCEPT ![p] = o + 1]
       /\ UNCHANGED <<config, loopVars, groupVars, appVars, offsetVars, netVars,
                      groupGeneration, owned, logStart, skippable, sought,
                      sincePause, bounds>>

\* Retention deletes the first record of p.
Retention(p) ==
    /\ Faulty
    /\ logStart[p] < LogLen
    /\ logStart' = [logStart EXCEPT ![p] = @ + 1]
    /\ UNCHANGED <<config, loopVars, groupVars, appVars, offsetVars, netVars,
                   coordVars, handled, skippable, sincePause>>

-----------------------------------------------------------------------------
LoopStep(p) ==
    \/ FetchBegins(p) \/ LoopStops(p)
    \/ SeekReply(p) \/ ResolveReply(p)
    \/ FetchReply(p) \/ OffsetOutOfRange(p)
    \/ FilteredBatch(p) \/ FirstMessage(p) \/ NextMessage(p)
    \/ HandlerResolves(p) \/ CommitReply(p)

JoinStep(a) == JoinReply(a) \/ SyncReply(a) \/ Rejoin(a)

Fault ==
    \/ \E p \in Partitions :
          \/ StaleMetadata(p)
          \/ HandlerResolvesInRebalance(p) \/ HandlerRejects(p)
          \/ HeartbeatFails(p) \/ RequestFails(p) \/ Retention(p)
    \/ CoordinatorHandles(TRUE)
    \/ Evict

Application ==
    \E p \in Steered : \/ \E o \in SeekTargets : Seek(p, o)
                       \/ Pause(p) \/ Resume(p)

Next ==
    \/ \E p \in Partitions : LoopStep(p) \/ OtherMember(p)
    \/ \E a \in Partitions \cup {Runner} : JoinStep(a)
    \/ Restart
    \/ CoordinatorHandles(FALSE)
    \/ Application
    \/ Fault

Spec == Init /\ [][Next]_vars

\* The event loop runs what is ready, requests are answered, handlers return,
\* the application resumes what it has paused.
Fairness ==
    /\ \A p \in Partitions : WF_vars(LoopStep(p)) /\ WF_vars(OtherMember(p))
    /\ \A p \in Steered : WF_vars(Resume(p))
    /\ \A a \in Partitions \cup {Runner} : WF_vars(JoinStep(a))
    /\ WF_vars(Restart)
    /\ WF_vars(CoordinatorHandles(FALSE))

FairSpec == Spec /\ Fairness

-----------------------------------------------------------------------------
(***************************************************************************)
(* Properties                                                              *)
(***************************************************************************)

\* Type invariant.
TypeOK ==
    /\ autoCommit \in BOOLEAN /\ autoCommitInterval \in BOOLEAN
    /\ stage \in [Partitions \cup {Runner} -> Stage]
    /\ after \in [Partitions -> {None, "top", "next", "retry", "rebalance"}]
    /\ fetchOffset \in [Partitions -> Offsets \cup {None}]
    /\ batch \in [Partitions -> SUBSET (0..(LogLen - 1))]
    /\ message \in [Partitions -> Offsets \cup {None}]
    /\ \A p \in Partitions : message[p] # None <=> stage[p] = "handler"
    /\ stopping \in BOOLEAN
    /\ error \in {"none", "retry", "rebalance"}
    /\ assigned \in SUBSET Partitions /\ owned \in SUBSET Partitions
    /\ paused \in [Partitions -> BOOLEAN]
    /\ seekOffset \in [Partitions -> Offsets \cup {None}]
    /\ generation \in 1..groupGeneration
    /\ resolvedOffsets \in [Partitions -> Offsets \cup {None}]
    /\ committedOffsets \in [Partitions -> Offsets \cup {None}]
    /\ groupOffset \in [Partitions -> Offsets \cup {None, Default}]
    /\ logStart \in [Partitions -> Offsets]
    /\ disturbances \in 0..MaxDisturbances

\* At least once.  The group's offset in a partition never passes a message no
\* handler has completed, unless a seek or retention skipped it: not when
\* handlers fail in the middle of a batch, the group is joined again under a
\* handler at work, commits are lost, refused or cover partitions of another
\* loop, or a partition goes to another member and comes back.
HandledBeforeCommitted ==
    \A p \in Partitions : ~IsInvalidOffset(groupOffset[p]) =>
        \A o \in 0..(groupOffset[p] - 1) :
            \/ o \in handled[p]
            \/ <<p, o>> \in Control
            \/ o < skippable[p]
            \/ o < logStart[p]

\* seek(), "making sure the next message read for the partition is from the
\* offset sought to": if nothing fails, the first message a handler gets after
\* a seek is the one sought, although batches are in the queue and other loops
\* commit meanwhile.
SeekTakesEffect ==
    [][\A p \in Partitions :
          /\ stage[p] # "handler" /\ stage'[p] = "handler"
          /\ sought[p] # None
          => message'[p] = sought[p]]_vars

\* pause(): "subsequent messages within the current batch won't be passed" to
\* the handler.  At most one message, of a batch that is in the queue already,
\* is delivered in a paused partition.
PausedIsQuiet == \A p \in Partitions : sincePause[p] <= 1

\* Every message is handled by some member, unless skipped by a seek or deleted:
\* no loop is left without offsets, a partition without a loop, and a resumed
\* partition is fetched again from where it was left.
EveryMessageHandled ==
    <>(\A p \in Partitions : \A o \in 0..(LogLen - 1) :
           \/ o \in handled[p]
           \/ <<p, o>> \in Control
           \/ o < skippable[p]
           \/ o < logStart[p])
=============================================================================

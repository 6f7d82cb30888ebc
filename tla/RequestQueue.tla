---------------------------- MODULE RequestQueue ----------------------------
(***************************************************************************)
(* The per-connection request queue of kafkajs:                            *)
(* src/src/network/requestQueue/index.js and socketRequest.js.             *)
(*                                                                         *)
(* Every JavaScript callback runs to completion, so each action is one     *)
(* whole callback.  Nothing is assumed about the environment: responses,   *)
(* timer ticks, throttling, rejections and destroy() come in any order.    *)
(* A request is identified with its correlation id.                        *)
(***************************************************************************)
EXTENDS Naturals, Sequences, FiniteSets

CONSTANTS
    Requests,        \* requests (correlation ids) that may be pushed
    OneWay,          \* those with expectResponse = false (produce, acks = 0)
    MaxInFlight,     \* options.maxInFlightRequests, a number or NoLimit
    NoLimit,         \* maxInFlightRequests = null
    EnforceTimeout,  \* options.enforceRequestTimeout
    Waiters          \* callers of waitForPendingRequests()

ASSUME RequestQueueAssumption ==
    /\ OneWay \subseteq Requests
    /\ MaxInFlight \in Nat \cup {NoLimit}
    /\ NoLimit \notin Nat
    /\ EnforceTimeout \in BOOLEAN

VARIABLES
    state,         \* REQUEST_STATE of each request, "new" before push()
    inflight,      \* keys of this.inflight
    pending,       \* this.pending
    throttled,     \* throttledUntil > Date.now()
    checkTimer,    \* throttleCheckTimeoutId is armed
    timeoutTimer,  \* requestTimeoutIntervalId is armed
    wire,          \* written to the socket, response not yet read
    waiters        \* listeners registered with once(REQUEST_QUEUE_EMPTY)

queueVars == <<state, inflight, pending, throttled, checkTimer, timeoutTimer,
               wire, waiters>>

RequestState == {"new", "PENDING", "SENT", "COMPLETED", "REJECTED"}

Settled == {"COMPLETED", "REJECTED"}

RequestQueueInit ==
    /\ state = [r \in Requests |-> "new"]
    /\ inflight = {}
    /\ pending = <<>>
    /\ throttled = FALSE
    /\ checkTimer = FALSE
    /\ timeoutTimer = FALSE
    /\ wire = {}
    /\ waiters = {}

-----------------------------------------------------------------------------
(***************************************************************************)
(* Helpers                                                                 *)
(***************************************************************************)

\* canSendSocketRequestImmediately() when this.inflight holds the set S.
CanSend(S) ==
    /\ MaxInFlight = NoLimit \/ Cardinality(S) < MaxInFlight
    /\ ~throttled

QueueEmpty == pending = <<>> /\ inflight = {}

\* EMIT_REQUEST_QUEUE_EMPTY after the rest of the callback.
EmitQueueEmpty == waiters' = IF QueueEmpty' THEN {} ELSE waiters

Prefix(n) == {pending[i] : i \in 1..n}

\* this.inflight once the first n pending requests have been sent: a request
\* without a response leaves it again inside sendSocketRequest().
InFlightAfter(base, n) == base \cup (Prefix(n) \ OneWay)

\* The while loop of checkPendingRequests() runs exactly n times.
Drains(base, n) ==
    /\ \A k \in 0..(n - 1) : CanSend(InFlightAfter(base, k))
    /\ n < Len(pending) => ~CanSend(InFlightAfter(base, n))

\* The SocketRequest states once the requests in S were handed to
\* sendSocketRequest(); st holds the states of the others.
StateAfterSend(st, S) ==
    [q \in Requests |-> IF q \in S
                        THEN IF q \in OneWay THEN "COMPLETED" ELSE "SENT"
                        ELSE st[q]]

\* The loop consumes this.pending with pop() instead of shift().
SendPendingLifo(base, st, w) ==
    \E n \in 0..Len(pending) :
        LET Sent == {pending[i] : i \in (Len(pending) - n + 1)..Len(pending)}
        IN /\ Drains(base, n)
           /\ inflight' = base \cup (Sent \ OneWay)
           /\ pending' = SubSeq(pending, 1, Len(pending) - n)
           /\ wire' = w \cup (Sent \ OneWay)
           /\ state' = StateAfterSend(st, Sent)

\* The while loop of checkPendingRequests() when this.inflight is base; st and
\* w are the request states and the wire as the caller leaves them.
SendPending(base, st, w) ==
    \E n \in 0..Len(pending) :
        /\ Drains(base, n)
        /\ inflight' = InFlightAfter(base, n)
        /\ pending' = SubSeq(pending, n + 1, Len(pending))
        /\ wire' = w \cup (Prefix(n) \ OneWay)
        /\ state' = StateAfterSend(st, Prefix(n))

\* checkPendingRequests(): the loop, then scheduleCheckPendingRequests(), which
\* leaves the check timer armed whether or not something is pending.
CheckPendingRequests(base, st, w) ==
    /\ SendPending(base, st, w)
    /\ checkTimer' = TRUE

-----------------------------------------------------------------------------
(***************************************************************************)
(* Operations                                                              *)
(***************************************************************************)

\* push() of a request that may be sent at once.
PushSend(r) ==
    /\ state[r] = "new"
    /\ CanSend(inflight)
    /\ state' = StateAfterSend(state, {r})
    /\ inflight' = inflight \cup ({r} \ OneWay)
    /\ wire' = wire \cup ({r} \ OneWay)
    /\ UNCHANGED <<pending, throttled, checkTimer, timeoutTimer, waiters>>

\* push() of a request that has to queue.
PushEnqueue(r) ==
    /\ state[r] = "new"
    /\ ~CanSend(inflight)
    /\ state' = [state EXCEPT ![r] = "PENDING"]
    /\ pending' = Append(pending, r)
    /\ checkTimer' = TRUE
    /\ UNCHANGED <<inflight, throttled, timeoutTimer, wire, waiters>>

\* fulfillRequest() completing the request without looking it up in inflight.
FulfillRequestUnchecked(r) ==
    /\ r \in wire
    /\ CheckPendingRequests(inflight \ {r}, [state EXCEPT ![r] = "COMPLETED"],
                            wire \ {r})
    /\ EmitQueueEmpty
    /\ UNCHANGED <<throttled, timeoutTimer>>

\* fulfillRequest(): the response of r is read from the socket.  If r has
\* timed out or was rejected meanwhile this is a "Response without match".
FulfillRequest(r) ==
    /\ r \in wire
    /\ CheckPendingRequests(
           inflight \ {r},
           IF r \in inflight THEN [state EXCEPT ![r] = "COMPLETED"] ELSE state,
           wire \ {r})
    /\ EmitQueueEmpty
    /\ UNCHANGED <<throttled, timeoutTimer>>

\* A timeout that does not emit REQUEST_QUEUE_EMPTY.
TimeoutTickSilent(S, isConnected) ==
    /\ timeoutTimer
    /\ S \subseteq inflight
    /\ SendPending(inflight \ S,
                   [q \in Requests |-> IF q \in S THEN "REJECTED"
                                                  ELSE state[q]],
                   wire)
    /\ checkTimer' = (isConnected /\ (checkTimer \/ S # {}))
    /\ timeoutTimer' = isConnected
    /\ UNCHANGED <<throttled, waiters>>

\* The interval of scheduleRequestTimeoutCheck() fires and the requests in S
\* have been in flight for too long: for each of them timeoutRequest() frees
\* its slot, sends what is pending, emits the empty event and rejects it.  (One
\* slot at a time or all at once leaves the same queue.)  isConnected is what
\* the callback of that name answers; without a connection the timers go.
TimeoutTick(S, isConnected) ==
    /\ timeoutTimer
    /\ S \subseteq inflight
    /\ IF S = {}
       THEN UNCHANGED <<state, inflight, pending, wire, waiters>>
       ELSE /\ SendPending(inflight \ S,
                           [q \in Requests |-> IF q \in S THEN "REJECTED"
                                                          ELSE state[q]],
                           wire)
            /\ EmitQueueEmpty
    /\ checkTimer' = (isConnected /\ (checkTimer \/ S # {}))
    /\ timeoutTimer' = isConnected
    /\ UNCHANGED throttled

\* The timer of scheduleCheckPendingRequests() fires.  Only the loop emits
\* REQUEST_QUEUE_EMPTY, so there must have been something to send.
CheckTimerFires ==
    /\ checkTimer
    /\ CheckPendingRequests(inflight, state, wire)
    /\ waiters' = IF pending # <<>> /\ QueueEmpty' THEN {} ELSE waiters
    /\ UNCHANGED <<throttled, timeoutTimer>>

\* maybeThrottle() with a positive throttle time.
MaybeThrottle ==
    /\ throttled' = TRUE
    /\ UNCHANGED <<state, inflight, pending, checkTimer, timeoutTimer, wire,
                   waiters>>

\* The clock passes throttledUntil.
ThrottleExpires ==
    /\ throttled
    /\ throttled' = FALSE
    /\ UNCHANGED <<state, inflight, pending, checkTimer, timeoutTimer, wire,
                   waiters>>

\* rejectAll(): the connection failed.
RejectAll ==
    /\ state' = [q \in Requests |-> IF q \in inflight \cup Prefix(Len(pending))
                                    THEN "REJECTED" ELSE state[q]]
    /\ inflight' = {}
    /\ pending' = <<>>
    /\ waiters' = {}
    /\ UNCHANGED <<throttled, checkTimer, timeoutTimer, wire>>

\* waitForPendingRequests(): resolves at once on an empty queue, otherwise
\* registers for the next REQUEST_QUEUE_EMPTY.
WaitForPendingRequests(w) ==
    /\ w \notin waiters
    /\ ~QueueEmpty
    /\ waiters' = waiters \cup {w}
    /\ UNCHANGED <<state, inflight, pending, throttled, checkTimer,
                   timeoutTimer, wire>>

\* destroy()
Destroy ==
    /\ timeoutTimer' = FALSE
    /\ checkTimer' = FALSE
    /\ UNCHANGED <<state, inflight, pending, throttled, wire, waiters>>

\* scheduleRequestTimeoutCheck(): destroy(), then a new interval.
ScheduleRequestTimeoutCheck ==
    /\ EnforceTimeout
    /\ timeoutTimer' = TRUE
    /\ checkTimer' = FALSE
    /\ UNCHANGED <<state, inflight, pending, throttled, wire, waiters>>

RequestQueueNext ==
    \/ \E r \in Requests : PushSend(r) \/ PushEnqueue(r) \/ FulfillRequest(r)
    \/ \E S \in SUBSET inflight, c \in BOOLEAN : TimeoutTick(S, c)
    \/ CheckTimerFires
    \/ MaybeThrottle
    \/ ThrottleExpires
    \/ RejectAll
    \/ \E w \in Waiters : WaitForPendingRequests(w)
    \/ Destroy
    \/ ScheduleRequestTimeoutCheck

RequestQueueSpec == RequestQueueInit /\ [][RequestQueueNext]_queueVars

-----------------------------------------------------------------------------
(***************************************************************************)
(* Properties                                                              *)
(***************************************************************************)

\* Type invariant.  A request that expects no response is neither in flight
\* nor awaited on the wire between two callbacks.
QueueTypeOK ==
    /\ state \in [Requests -> RequestState]
    /\ inflight \subseteq Requests \ OneWay
    /\ pending \in Seq(Requests)
    /\ throttled \in BOOLEAN
    /\ checkTimer \in BOOLEAN
    /\ timeoutTimer \in BOOLEAN
    /\ wire \subseteq Requests \ OneWay
    /\ waiters \subseteq Waiters

\* this.inflight holds the SENT requests and this.pending the PENDING ones,
\* each once, whatever order responses, timeouts and rejections came in: so
\* throwIfInvalidState() never throws out of send(), completed() or
\* rejected(), and "Correlation id already exists" is never thrown.
Accounting ==
    /\ inflight = {r \in Requests : state[r] = "SENT"}
    /\ Prefix(Len(pending)) = {r \in Requests : state[r] = "PENDING"}
    /\ \A i, j \in 1..Len(pending) : i # j => pending[i] # pending[j]

\* There are never more requests in flight than maxInFlightRequests allows,
\* although push(), responses, timeouts and the check timer all send.
InFlightBound == MaxInFlight # NoLimit => Cardinality(inflight) <= MaxInFlight

\* A caller of waitForPendingRequests() that is still waiting has something to
\* wait for: no callback empties the queue without emitting
\* REQUEST_QUEUE_EMPTY ("Otherwise, waitForPendingRequests may stuck forever").
NoLostWakeup == waiters # {} => ~QueueEmpty

\* A request is resolved or rejected once: a response that arrives after the
\* timeout or the rejection of its request changes nothing.
SettledOnce ==
    [][\A r \in Requests : state[r] \in Settled => state'[r] = state[r]]_queueVars

\* Pending requests are sent "first in first out": when a callback sends one,
\* none of those queued before it stays behind.
FirstInFirstOut ==
    [][\A i, j \in 1..Len(pending) :
          i < j /\ state'[pending[j]] \in {"SENT", "COMPLETED"}
          => state'[pending[i]] # "PENDING"]_queueVars
=============================================================================

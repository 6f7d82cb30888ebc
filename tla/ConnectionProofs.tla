-------------------------- MODULE ConnectionProofs --------------------------
(***************************************************************************)
(* Proofs about the request queue, for every set of requests, every        *)
(* in-flight limit and every order of its callbacks, and about the         *)
(* connection that uses it, for every number of calls, sockets,            *)
(* authentications and disconnect() calls: it uses its queue only as       *)
(* RequestQueue allows, drains it before it closes, hands no response to   *)
(* the wrong reader and writes no request to an unauthenticated socket.    *)
(***************************************************************************)
EXTENDS Connection, FiniteSetTheorems, TLAPS

-----------------------------------------------------------------------------
(***************************************************************************)
(* The request queue                                                       *)
(***************************************************************************)

\* The inductive invariant: this.inflight is finite, so that its size means
\* something, and the four invariants the runs check.
QueueInv ==
    /\ QueueTypeOK
    /\ Accounting
    /\ IsFiniteSet(inflight)
    /\ InFlightBound
    /\ NoLostWakeup

-----------------------------------------------------------------------------
\* Adding an element makes a finite set at most one larger.
LEMMA AddOne ==
    ASSUME NEW S, IsFiniteSet(S), NEW x
    PROVE  /\ Cardinality(S \cup {x}) \in Nat
           /\ Cardinality(S \cup {x}) <= Cardinality(S) + 1
<1>1. Cardinality(S) \in Nat
  BY FS_CardinalityType
<1>2. Cardinality(S \cup {x}) =
         IF x \in S THEN Cardinality(S) ELSE Cardinality(S) + 1
  BY FS_AddElement
<1> QED BY <1>1, <1>2

\* The first n pending requests are finitely many requests; one more
\* iteration of the loop adds exactly the next one.
LEMMA PrefixFacts ==
    ASSUME pending \in Seq(Requests), NEW n \in 0..Len(pending)
    PROVE  /\ Prefix(n) \subseteq Requests
           /\ IsFiniteSet(Prefix(n))
           /\ Prefix(0) = {}
           /\ n > 0 => Prefix(n) = Prefix(n - 1) \cup {pending[n]}
<1>1. Prefix(n) \subseteq Requests
  BY DEF Prefix
<1>2. IsFiniteSet(1..n)
  BY FS_Interval
<1>3. IsFiniteSet(Prefix(n))
  <2> DEFINE f == [i \in 1..n |-> pending[i]]
  <2>1. f \in Surjection(1..n, Prefix(n))
    BY DEF Prefix, Surjection
  <2> HIDE DEF f
  <2> QED BY <1>2, <2>1, FS_Surjection
<1>4. Prefix(0) = {}
  BY DEF Prefix
<1>5. n > 0 => Prefix(n) = Prefix(n - 1) \cup {pending[n]}
  BY DEF Prefix
<1> QED BY <1>1, <1>3, <1>4, <1>5

\* After the loop of checkPendingRequests() the limit is respected, if it was
\* when the loop started: the last request was sent because there was room.
LEMMA DrainBound ==
    ASSUME pending \in Seq(Requests),
           NEW base, IsFiniteSet(base),
           NEW n \in 0..Len(pending), Drains(base, n),
           MaxInFlight # NoLimit => Cardinality(base) <= MaxInFlight
    PROVE  /\ IsFiniteSet(InFlightAfter(base, n))
           /\ MaxInFlight # NoLimit
              => Cardinality(InFlightAfter(base, n)) <= MaxInFlight
<1>1. \A k \in 0..n : IsFiniteSet(InFlightAfter(base, k))
  <2> SUFFICES ASSUME NEW k \in 0..n PROVE IsFiniteSet(InFlightAfter(base, k))
    OBVIOUS
  <2>1. k \in 0..Len(pending)
    OBVIOUS
  <2>2. IsFiniteSet(Prefix(k) \ OneWay)
    BY <2>1, PrefixFacts, FS_Subset
  <2> QED BY <2>2, FS_Union DEF InFlightAfter
<1>2. CASE n = 0
  BY <1>1, <1>2, PrefixFacts DEF InFlightAfter
<1>3. CASE n > 0
  <2> DEFINE before == InFlightAfter(base, n - 1)
  <2>1. n - 1 \in 0..(n - 1) /\ n - 1 \in 0..n
    BY <1>3
  <2>2. MaxInFlight # NoLimit => Cardinality(before) < MaxInFlight
    BY <2>1 DEF Drains, CanSend
  <2>3. IsFiniteSet(before) /\ Cardinality(before) \in Nat
    BY <1>1, <2>1, FS_CardinalityType
  <2>4. \/ InFlightAfter(base, n) = before
        \/ InFlightAfter(base, n) = before \cup {pending[n]}
    BY <1>3, PrefixFacts DEF InFlightAfter
  <2> HIDE DEF before
  <2>5. /\ Cardinality(before \cup {pending[n]}) \in Nat
        /\ Cardinality(before \cup {pending[n]}) <= Cardinality(before) + 1
    BY <2>3, AddOne
  <2>7. MaxInFlight # NoLimit => MaxInFlight \in Nat
    BY RequestQueueAssumption
  <2>8. MaxInFlight # NoLimit
        => Cardinality(InFlightAfter(base, n)) <= MaxInFlight
    <3>1. CASE InFlightAfter(base, n) = before
      BY <3>1, <2>2, <2>3, <2>7
    <3>2. CASE InFlightAfter(base, n) = before \cup {pending[n]}
      BY <3>2, <2>2, <2>3, <2>5, <2>7
    <3> QED BY <2>4, <3>1, <3>2
  <2> QED BY <1>1, <2>8
<1> QED BY <1>2, <1>3

\* The loop of checkPendingRequests() keeps the books: if the caller leaves
\* the requests of base SENT and this.pending PENDING, then so does the loop.
LEMMA SendPendingKeepsBooks ==
    ASSUME pending \in Seq(Requests),
           \A i, j \in 1..Len(pending) : i # j => pending[i] # pending[j],
           NEW base, base \subseteq Requests \ OneWay, IsFiniteSet(base),
           MaxInFlight # NoLimit => Cardinality(base) <= MaxInFlight,
           NEW st, st \in [Requests -> RequestState],
           NEW w, w \subseteq Requests \ OneWay,
           base = {r \in Requests : st[r] = "SENT"},
           Prefix(Len(pending)) = {r \in Requests : st[r] = "PENDING"},
           SendPending(base, st, w)
    PROVE  /\ state' \in [Requests -> RequestState]
           /\ inflight' \subseteq Requests \ OneWay
           /\ pending' \in Seq(Requests)
           /\ wire' \subseteq Requests \ OneWay
           /\ Accounting'
           /\ IsFiniteSet(inflight')
           /\ InFlightBound'
<1>1. PICK n \in 0..Len(pending) :
        /\ Drains(base, n)
        /\ inflight' = InFlightAfter(base, n)
        /\ pending' = SubSeq(pending, n + 1, Len(pending))
        /\ wire' = w \cup (Prefix(n) \ OneWay)
        /\ state' = StateAfterSend(st, Prefix(n))
  BY DEF SendPending
<1>2. Prefix(n) \subseteq Requests /\ Prefix(n) \subseteq Prefix(Len(pending))
  BY DEF Prefix
<1>3. /\ pending' \in Seq(Requests)
      /\ Len(pending') = Len(pending) - n
      /\ \A i \in 1..Len(pending') : pending'[i] = pending[i + n]
  BY <1>1
<1>4. \A q \in Requests :
        state'[q] = IF q \in Prefix(n)
                    THEN IF q \in OneWay THEN "COMPLETED" ELSE "SENT"
                    ELSE st[q]
  BY <1>1 DEF StateAfterSend
<1>5. state' \in [Requests -> RequestState]
  BY <1>1 DEF StateAfterSend, RequestState
<1>6. inflight' \subseteq Requests \ OneWay /\ wire' \subseteq Requests \ OneWay
  BY <1>1, <1>2 DEF InFlightAfter
<1>7. inflight' = {r \in Requests : state'[r] = "SENT"}
  BY <1>1, <1>2, <1>4 DEF InFlightAfter
<1>8. Prefix(Len(pending))' = Prefix(Len(pending)) \ Prefix(n)
  <2>1. \A i \in 1..Len(pending') : /\ i + n \in 1..Len(pending)
                                    /\ pending[i + n] \notin Prefix(n)
    BY <1>3 DEF Prefix
  <2>2. \A j \in 1..Len(pending) :
           pending[j] \notin Prefix(n)
           => j - n \in 1..Len(pending') /\ pending'[j - n] = pending[j]
    BY <1>3 DEF Prefix
  <2>3. Prefix(Len(pending))' = {pending'[i] : i \in 1..Len(pending')}
    BY DEF Prefix
  <2>4. ASSUME NEW x \in Prefix(Len(pending))'
        PROVE  x \in Prefix(Len(pending)) \ Prefix(n)
    <3>1. PICK i \in 1..Len(pending') : x = pending'[i]
      BY <2>3, <2>4
    <3>2. x = pending[i + n]
      BY <1>3, <3>1
    <3> QED BY <2>1, <3>1, <3>2 DEF Prefix
  <2>5. ASSUME NEW x \in Prefix(Len(pending)) \ Prefix(n)
        PROVE  x \in Prefix(Len(pending))'
    <3>1. PICK j \in 1..Len(pending) : x = pending[j]
      BY <2>5 DEF Prefix
    <3>2. j - n \in 1..Len(pending') /\ pending'[j - n] = x
      BY <2>2, <2>5, <3>1
    <3> QED BY <2>3, <3>2
  <2> QED BY <2>4, <2>5
<1>9. Prefix(Len(pending))' = {r \in Requests : state'[r] = "PENDING"}
  BY <1>2, <1>4, <1>8
<1>10. \A i, j \in 1..Len(pending') : i # j => pending'[i] # pending'[j]
  BY <1>3
<1>11. IsFiniteSet(inflight') /\ InFlightBound'
  BY <1>1, DrainBound DEF InFlightBound
<1> QED BY <1>3, <1>5, <1>6, <1>7, <1>9, <1>10, <1>11 DEF Accounting

-----------------------------------------------------------------------------
\* The queue a new connection starts with satisfies the invariant.
LEMMA InitEstablishesInv == RequestQueueInit => QueueInv
<1> SUFFICES ASSUME RequestQueueInit PROVE QueueInv
  OBVIOUS
<1> USE DEF RequestQueueInit
<1>1. QueueTypeOK
  <2>1. state \in [Requests -> RequestState]
    BY DEF RequestState
  <2>2. pending \in Seq(Requests)
    OBVIOUS
  <2> QED BY <2>1, <2>2, Zenon DEF QueueTypeOK
<1>2. Accounting
  BY DEF Accounting, Prefix
<1>3. IsFiniteSet(inflight) /\ Cardinality(inflight) = 0
  BY FS_EmptySet
<1>4. InFlightBound
  BY <1>3, RequestQueueAssumption DEF InFlightBound
<1>5. NoLostWakeup
  BY DEF NoLostWakeup
<1> QED BY <1>1, <1>2, <1>3, <1>4, <1>5 DEF QueueInv

\* A smaller set of requests in flight is still finite and within the limit.
LEMMA FreeingSlots ==
    ASSUME IsFiniteSet(inflight), InFlightBound, NEW S
    PROVE  /\ IsFiniteSet(inflight \ S)
           /\ MaxInFlight # NoLimit => Cardinality(inflight \ S) <= MaxInFlight
<1>1. /\ IsFiniteSet(inflight \ S)
      /\ Cardinality(inflight \ S) <= Cardinality(inflight)
  BY FS_Subset
<1>2. Cardinality(inflight) \in Nat /\ Cardinality(inflight \ S) \in Nat
  BY <1>1, FS_CardinalityType
<1> QED BY <1>1, <1>2, RequestQueueAssumption DEF InFlightBound

\* push() sends only when there is room.
LEMMA PushSendInv ==
    ASSUME QueueInv, NEW r \in Requests, PushSend(r)
    PROVE  QueueInv'
<1> USE DEF QueueInv, PushSend
<1>1. /\ state' \in [Requests -> RequestState]
      /\ \A q \in Requests :
            state'[q] = IF q = r THEN IF q \in OneWay THEN "COMPLETED" ELSE "SENT"
                        ELSE state[q]
  BY DEF StateAfterSend, QueueTypeOK, RequestState
<1>2. QueueTypeOK'
  BY <1>1 DEF QueueTypeOK
<1>3. inflight' = {q \in Requests : state'[q] = "SENT"}
  BY <1>1 DEF Accounting
<1>4. Prefix(Len(pending))' = {q \in Requests : state'[q] = "PENDING"}
  BY <1>1 DEF Accounting, Prefix
<1>5. Accounting'
  BY <1>3, <1>4 DEF Accounting
<1>6. inflight' = inflight \/ inflight' = inflight \cup {r}
  OBVIOUS
<1>7. IsFiniteSet(inflight')
  BY <1>6, FS_AddElement
<1>8. InFlightBound'
  <2> SUFFICES ASSUME MaxInFlight # NoLimit
               PROVE  Cardinality(inflight') <= MaxInFlight
    BY DEF InFlightBound
  <2>1. MaxInFlight \in Nat /\ Cardinality(inflight) < MaxInFlight
    BY RequestQueueAssumption DEF CanSend
  <2>2. Cardinality(inflight) \in Nat
    BY FS_CardinalityType
  <2>3. /\ Cardinality(inflight \cup {r}) \in Nat
        /\ Cardinality(inflight \cup {r}) <= Cardinality(inflight) + 1
    BY AddOne
  <2>4. CASE inflight' = inflight
    <3>1. Cardinality(inflight') = Cardinality(inflight)
      BY <2>4, Zenon
    <3> QED BY <3>1, <2>1, <2>2
  <2>5. CASE inflight' = inflight \cup {r}
    <3>1. Cardinality(inflight') = Cardinality(inflight \cup {r})
      BY <2>5, Zenon
    <3> QED BY <3>1, <2>1, <2>2, <2>3
  <2> QED BY <1>6, <2>4, <2>5
<1>9. NoLostWakeup'
  BY DEF NoLostWakeup, QueueEmpty
<1> QED BY <1>2, <1>5, <1>7, <1>8, <1>9

\* push() enqueues a request the queue has not seen before.
LEMMA PushEnqueueInv ==
    ASSUME QueueInv, NEW r \in Requests, PushEnqueue(r)
    PROVE  QueueInv'
<1> USE DEF QueueInv, PushEnqueue
<1>1. QueueTypeOK'
  BY DEF QueueTypeOK, RequestState
<1>2. /\ Len(pending') = Len(pending) + 1
      /\ pending'[Len(pending) + 1] = r
      /\ \A i \in 1..Len(pending) : pending'[i] = pending[i]
  BY DEF QueueTypeOK
<1>3. \A q \in Requests :
        state'[q] = IF q = r THEN "PENDING" ELSE state[q]
  BY DEF QueueTypeOK
<1>4. r \notin Prefix(Len(pending)) /\ r \notin inflight
  BY DEF Accounting
<1>5. Prefix(Len(pending))' = Prefix(Len(pending)) \cup {r}
  <2>1. Len(pending) \in Nat
    BY DEF QueueTypeOK
  <2> QED BY <1>2, <2>1 DEF Prefix
<1>6. Accounting'
  <2>1. inflight' = {q \in Requests : state'[q] = "SENT"}
    BY <1>3, <1>4 DEF Accounting
  <2>2. Prefix(Len(pending))' = {q \in Requests : state'[q] = "PENDING"}
    BY <1>3, <1>5 DEF Accounting
  <2>3. \A i, j \in 1..Len(pending') : i # j => pending'[i] # pending'[j]
    BY <1>2, <1>4 DEF Accounting, Prefix, QueueTypeOK
  <2> QED BY <2>1, <2>2, <2>3 DEF Accounting
<1>7. IsFiniteSet(inflight') /\ InFlightBound'
  BY DEF InFlightBound
<1>8. NoLostWakeup'
  BY <1>2 DEF NoLostWakeup, QueueEmpty, QueueTypeOK
<1> QED BY <1>1, <1>6, <1>7, <1>8

\* A response frees its slot, late or not, and the loop fills it.
LEMMA FulfillRequestInv ==
    ASSUME QueueInv, NEW r \in Requests, FulfillRequest(r)
    PROVE  QueueInv'
<1> DEFINE base == inflight \ {r}
           st == IF r \in inflight THEN [state EXCEPT ![r] = "COMPLETED"]
                                   ELSE state
<1>1. /\ r \in wire
      /\ SendPending(base, st, wire \ {r})
      /\ checkTimer' = TRUE
      /\ EmitQueueEmpty
      /\ UNCHANGED <<throttled, timeoutTimer>>
  BY DEF FulfillRequest, CheckPendingRequests
<1>2. /\ st \in [Requests -> RequestState]
      /\ base \subseteq Requests \ OneWay
      /\ base = {q \in Requests : st[q] = "SENT"}
      /\ Prefix(Len(pending)) = {q \in Requests : st[q] = "PENDING"}
  BY DEF QueueInv, QueueTypeOK, Accounting, RequestState
<1>3. /\ IsFiniteSet(base)
      /\ MaxInFlight # NoLimit => Cardinality(base) <= MaxInFlight
  BY FreeingSlots DEF QueueInv
<1> HIDE DEF base, st
<1>4. /\ state' \in [Requests -> RequestState]
      /\ inflight' \subseteq Requests \ OneWay
      /\ pending' \in Seq(Requests)
      /\ wire' \subseteq Requests \ OneWay
      /\ Accounting' /\ IsFiniteSet(inflight') /\ InFlightBound'
  BY <1>1, <1>2, <1>3, SendPendingKeepsBooks DEF QueueInv, QueueTypeOK, Accounting
<1>5. waiters' \subseteq Waiters /\ NoLostWakeup'
  BY <1>1 DEF QueueInv, QueueTypeOK, EmitQueueEmpty, NoLostWakeup
<1>6. /\ throttled' \in BOOLEAN
      /\ checkTimer' \in BOOLEAN
      /\ timeoutTimer' \in BOOLEAN
  BY <1>1, Zenon DEF QueueInv, QueueTypeOK
<1> QED BY <1>4, <1>5, <1>6, Zenon DEF QueueInv, QueueTypeOK

\* A tick of the timeout interval frees any number of slots.
LEMMA TimeoutTickInv ==
    ASSUME QueueInv, NEW S \in SUBSET inflight, NEW c \in BOOLEAN,
           TimeoutTick(S, c)
    PROVE  QueueInv'
<1>1. /\ throttled' \in BOOLEAN
      /\ checkTimer' \in BOOLEAN
      /\ timeoutTimer' \in BOOLEAN
  BY Zenon DEF QueueInv, QueueTypeOK, TimeoutTick
<1>2. CASE S = {}
  <2>1. UNCHANGED <<state, inflight, pending, wire, waiters>>
    BY <1>2 DEF TimeoutTick
  <2> QED BY <1>1, <2>1 DEF QueueInv, QueueTypeOK, Accounting, Prefix,
                            InFlightBound, NoLostWakeup, QueueEmpty
<1>3. CASE S # {}
  <2> DEFINE base == inflight \ S
             st == [q \in Requests |-> IF q \in S THEN "REJECTED" ELSE state[q]]
  <2>1. SendPending(base, st, wire) /\ EmitQueueEmpty
    BY <1>3 DEF TimeoutTick
  <2>2. /\ st \in [Requests -> RequestState]
        /\ base \subseteq Requests \ OneWay
        /\ base = {q \in Requests : st[q] = "SENT"}
        /\ Prefix(Len(pending)) = {q \in Requests : st[q] = "PENDING"}
    BY DEF QueueInv, QueueTypeOK, Accounting, RequestState
  <2>3. /\ IsFiniteSet(base)
        /\ MaxInFlight # NoLimit => Cardinality(base) <= MaxInFlight
    BY FreeingSlots DEF QueueInv
  <2> HIDE DEF base, st
  <2>4. /\ state' \in [Requests -> RequestState]
        /\ inflight' \subseteq Requests \ OneWay
        /\ pending' \in Seq(Requests)
        /\ wire' \subseteq Requests \ OneWay
        /\ Accounting' /\ IsFiniteSet(inflight') /\ InFlightBound'
    BY <2>1, <2>2, <2>3, SendPendingKeepsBooks
       DEF QueueInv, QueueTypeOK, Accounting
  <2>5. waiters' \subseteq Waiters /\ NoLostWakeup'
    BY <2>1 DEF QueueInv, QueueTypeOK, EmitQueueEmpty, NoLostWakeup
  <2> QED BY <1>1, <2>4, <2>5, Zenon DEF QueueInv, QueueTypeOK
<1> QED BY <1>2, <1>3

\* The check timer sends what fits and leaves the rest alone.
LEMMA CheckTimerFiresInv ==
    ASSUME QueueInv, CheckTimerFires
    PROVE  QueueInv'
<1>1. /\ SendPending(inflight, state, wire)
      /\ checkTimer' = TRUE
      /\ waiters' = IF pending # <<>> /\ QueueEmpty' THEN {} ELSE waiters
      /\ UNCHANGED <<throttled, timeoutTimer>>
  BY DEF CheckTimerFires, CheckPendingRequests
<1>2. /\ state' \in [Requests -> RequestState]
      /\ inflight' \subseteq Requests \ OneWay
      /\ pending' \in Seq(Requests)
      /\ wire' \subseteq Requests \ OneWay
      /\ Accounting' /\ IsFiniteSet(inflight') /\ InFlightBound'
  BY <1>1, SendPendingKeepsBooks
     DEF QueueInv, QueueTypeOK, Accounting, InFlightBound
<1>3. inflight \subseteq inflight'
  BY <1>1 DEF SendPending, InFlightAfter
<1>4. waiters' \subseteq Waiters /\ NoLostWakeup'
  BY <1>1, <1>3 DEF QueueInv, QueueTypeOK, NoLostWakeup, QueueEmpty
<1>5. /\ throttled' \in BOOLEAN
      /\ checkTimer' \in BOOLEAN
      /\ timeoutTimer' \in BOOLEAN
  BY <1>1, Zenon DEF QueueInv, QueueTypeOK
<1> QED BY <1>2, <1>4, <1>5, Zenon DEF QueueInv, QueueTypeOK

\* rejectAll() empties the queue and wakes every waiter.
LEMMA RejectAllInv ==
    ASSUME QueueInv, RejectAll
    PROVE  QueueInv'
<1> USE DEF RejectAll
<1>1. \A q \in Requests :
        state'[q] = IF q \in inflight \cup Prefix(Len(pending))
                    THEN "REJECTED" ELSE state[q]
  OBVIOUS
<1>2. QueueTypeOK'
  BY DEF QueueInv, QueueTypeOK, RequestState
<1>3. Accounting'
  <2>1. Prefix(Len(pending))' = {}
    BY DEF Prefix
  <2>2. \A q \in Requests : state'[q] # "SENT" /\ state'[q] # "PENDING"
    BY <1>1 DEF QueueInv, Accounting
  <2> QED BY <2>1, <2>2 DEF Accounting
<1>4. IsFiniteSet(inflight') /\ Cardinality(inflight') = 0
  BY FS_EmptySet
<1>5. InFlightBound'
  BY <1>4, RequestQueueAssumption DEF InFlightBound
<1>6. NoLostWakeup'
  BY DEF NoLostWakeup
<1> QED BY <1>2, <1>3, <1>4, <1>5, <1>6 DEF QueueInv

\* The callbacks that only touch timers, the throttle or the waiters.
LEMMA OtherStepsInv ==
    ASSUME QueueInv,
           \/ MaybeThrottle \/ ThrottleExpires \/ Destroy
           \/ ScheduleRequestTimeoutCheck
           \/ \E w \in Waiters : WaitForPendingRequests(w)
           \/ UNCHANGED queueVars
    PROVE  QueueInv'
<1>1. UNCHANGED <<state, inflight, pending, wire>>
  BY DEF MaybeThrottle, ThrottleExpires, Destroy, ScheduleRequestTimeoutCheck,
         WaitForPendingRequests, queueVars
<1>2. /\ throttled' \in BOOLEAN
      /\ checkTimer' \in BOOLEAN
      /\ timeoutTimer' \in BOOLEAN
  BY Zenon DEF QueueInv, QueueTypeOK, MaybeThrottle, ThrottleExpires, Destroy,
     ScheduleRequestTimeoutCheck, WaitForPendingRequests, queueVars
<1>3. /\ waiters' \subseteq Waiters
      /\ waiters' # {} => waiters # {} \/ ~QueueEmpty
  BY DEF QueueInv, QueueTypeOK, MaybeThrottle, ThrottleExpires, Destroy,
         ScheduleRequestTimeoutCheck, WaitForPendingRequests, queueVars
<1>4. Accounting' /\ InFlightBound' /\ IsFiniteSet(inflight')
  BY <1>1 DEF QueueInv, Accounting, Prefix, InFlightBound
<1>5. NoLostWakeup'
  BY <1>1, <1>3 DEF QueueInv, NoLostWakeup, QueueEmpty
<1>6. QueueTypeOK'
  BY <1>1, <1>2, <1>3 DEF QueueInv, QueueTypeOK
<1> QED BY <1>4, <1>5, <1>6 DEF QueueInv

-----------------------------------------------------------------------------
\* Every operation of the queue keeps the invariant.
LEMMA QueueNextInv ==
    ASSUME QueueInv, [RequestQueueNext]_queueVars
    PROVE  QueueInv'
<1>1. ASSUME NEW r \in Requests, PushSend(r) PROVE QueueInv'
  BY <1>1, PushSendInv
<1>2. ASSUME NEW r \in Requests, PushEnqueue(r) PROVE QueueInv'
  BY <1>2, PushEnqueueInv
<1>3. ASSUME NEW r \in Requests, FulfillRequest(r) PROVE QueueInv'
  BY <1>3, FulfillRequestInv
<1>4. ASSUME NEW S \in SUBSET inflight, NEW c \in BOOLEAN, TimeoutTick(S, c)
      PROVE  QueueInv'
  BY <1>4, TimeoutTickInv
<1>5. CASE CheckTimerFires
  BY <1>5, CheckTimerFiresInv
<1>6. CASE RejectAll
  BY <1>6, RejectAllInv
<1>7. CASE \/ MaybeThrottle \/ ThrottleExpires \/ Destroy
           \/ ScheduleRequestTimeoutCheck
           \/ \E w \in Waiters : WaitForPendingRequests(w)
           \/ UNCHANGED queueVars
  BY <1>7, OtherStepsInv
<1> QED
  BY <1>1, <1>2, <1>3, <1>4, <1>5, <1>6, <1>7 DEF RequestQueueNext

\* Whatever order its callbacks run in, for every set of requests and every
\* limit, the request queue keeps its books, its limit and its waiters.
THEOREM QueueInvariant == RequestQueueSpec => []QueueInv
<1>1. RequestQueueInit => QueueInv
  BY InitEstablishesInv
<1>2. QueueInv /\ [RequestQueueNext]_queueVars => QueueInv'
  BY QueueNextInv
<1> QED BY <1>1, <1>2, PTL DEF RequestQueueSpec

\* The SENT requests are the ones in flight and the PENDING ones those queued,
\* whatever order responses, timeouts and rejections come in.
THEOREM QueueAccounting == RequestQueueSpec => [](QueueTypeOK /\ Accounting)
<1>1. QueueInv => QueueTypeOK /\ Accounting
  BY DEF QueueInv
<1> QED BY <1>1, QueueInvariant, PTL

\* push(), responses, timeouts and the check timer never send beyond
\* maxInFlightRequests.
THEOREM QueueInFlightBound == RequestQueueSpec => []InFlightBound
<1>1. QueueInv => InFlightBound
  BY DEF QueueInv
<1> QED BY <1>1, QueueInvariant, PTL

\* A waiter of waitForPendingRequests() is never left behind on an empty queue.
THEOREM QueueWakesWaiters == RequestQueueSpec => []NoLostWakeup
<1>1. QueueInv => NoLostWakeup
  BY DEF QueueInv
<1> QED BY <1>1, QueueInvariant, PTL

-----------------------------------------------------------------------------
\* What one iteration or many of the loop do to the request states: exactly a
\* prefix of this.pending is sent, every other request stays as st has it.
LEMMA SendPendingStates ==
    ASSUME QueueInv, NEW base, NEW st, NEW w, SendPending(base, st, w)
    PROVE  /\ \A q \in Requests : q \notin Prefix(Len(pending)) => state'[q] = st[q]
           /\ \E n \in 0..Len(pending) : \A i \in 1..Len(pending) :
                 IF i <= n THEN state'[pending[i]] \in {"SENT", "COMPLETED"}
                           ELSE state'[pending[i]] = st[pending[i]]
<1>1. PICK n \in 0..Len(pending) : state' = StateAfterSend(st, Prefix(n))
  BY DEF SendPending
<1>2. \A q \in Requests :
        state'[q] = IF q \in Prefix(n)
                    THEN IF q \in OneWay THEN "COMPLETED" ELSE "SENT"
                    ELSE st[q]
  BY <1>1 DEF StateAfterSend
<1>3. Prefix(n) \subseteq Prefix(Len(pending))
  BY DEF Prefix
<1>4. \A i \in 1..Len(pending) :
        pending[i] \in Requests /\ (pending[i] \in Prefix(n) <=> i <= n)
  BY DEF QueueInv, QueueTypeOK, Accounting, Prefix
<1>5. \A i \in 1..Len(pending) :
        IF i <= n THEN state'[pending[i]] \in {"SENT", "COMPLETED"}
                  ELSE state'[pending[i]] = st[pending[i]]
  BY <1>2, <1>4
<1> QED BY <1>2, <1>3, <1>5

\* No callback changes a request that was resolved or rejected, and none
\* sends a pending request ahead of an older one.
LEMMA StepKeepsSettledAndOrder ==
    ASSUME QueueInv, [RequestQueueNext]_queueVars
    PROVE  /\ \A r \in Requests : state[r] \in Settled => state'[r] = state[r]
           /\ \A i, j \in 1..Len(pending) :
                 i < j /\ state'[pending[j]] \in {"SENT", "COMPLETED"}
                 => state'[pending[i]] # "PENDING"
<1> DEFINE Goal == /\ \A r \in Requests : state[r] \in Settled => state'[r] = state[r]
                   /\ \A i, j \in 1..Len(pending) :
                        i < j /\ state'[pending[j]] \in {"SENT", "COMPLETED"}
                        => state'[pending[i]] # "PENDING"
<1> SUFFICES Goal
  OBVIOUS
<1>1. \A i \in 1..Len(pending) : /\ pending[i] \in Requests
                                 /\ pending[i] \in Prefix(Len(pending))
                                 /\ state[pending[i]] = "PENDING"
  BY DEF QueueInv, QueueTypeOK, Accounting, Prefix
<1>2. \A q \in Requests : state[q] \in Settled => q \notin Prefix(Len(pending))
  BY DEF QueueInv, Accounting, Settled
<1>3. ASSUME NEW base, NEW st, NEW w, SendPending(base, st, w),
             \A q \in Requests : state[q] \in Settled \cup {"PENDING"}
                                => st[q] = state[q]
      PROVE  Goal
  <2>1. \A r \in Requests : state[r] \in Settled => state'[r] = state[r]
    BY <1>2, <1>3, SendPendingStates
  <2>2. PICK n \in 0..Len(pending) : \A i \in 1..Len(pending) :
          IF i <= n THEN state'[pending[i]] \in {"SENT", "COMPLETED"}
                    ELSE state'[pending[i]] = st[pending[i]]
    BY <1>3, SendPendingStates
  <2>3. \A i \in 1..Len(pending) : st[pending[i]] = "PENDING"
    BY <1>1, <1>3
  <2>4. ASSUME NEW i \in 1..Len(pending), NEW j \in 1..Len(pending), i < j,
               state'[pending[j]] \in {"SENT", "COMPLETED"}
        PROVE  state'[pending[i]] # "PENDING"
    <3>1. j <= n
      BY <2>2, <2>3, <2>4
    <3>2. i <= n
      BY <2>4, <3>1
    <3> QED BY <2>2, <3>2
  <2> QED BY <2>1, <2>4
<1>4. ASSUME \A q \in Requests : \/ state'[q] = state[q]
                                 \/ state[q] = "new"
                                 \/ state[q] \in {"PENDING", "SENT"}
                                    /\ state'[q] = "REJECTED"
      PROVE  Goal
  <2>1. \A r \in Requests : state[r] \in Settled => state'[r] = state[r]
    BY <1>4 DEF Settled
  <2>2. \A j \in 1..Len(pending) : state'[pending[j]] \notin {"SENT", "COMPLETED"}
    BY <1>1, <1>4
  <2> QED BY <2>1, <2>2
<1>5. ASSUME NEW r \in Requests, PushSend(r) \/ PushEnqueue(r) PROVE Goal
  <2>1. \A q \in Requests : state'[q] = state[q] \/ state[q] = "new"
    BY <1>5 DEF PushSend, PushEnqueue, StateAfterSend, QueueInv, QueueTypeOK
  <2> HIDE DEF Goal
  <2> QED BY <1>4, <2>1
<1>6. ASSUME NEW r \in Requests, FulfillRequest(r) PROVE Goal
  <2> DEFINE st == IF r \in inflight THEN [state EXCEPT ![r] = "COMPLETED"]
                                     ELSE state
  <2>1. SendPending(inflight \ {r}, st, wire \ {r})
    BY <1>6 DEF FulfillRequest, CheckPendingRequests
  <2>2. \A q \in Requests : state[q] \in Settled \cup {"PENDING"}
                            => st[q] = state[q]
    BY DEF QueueInv, QueueTypeOK, Accounting, Settled
  <2> HIDE DEF Goal, st
  <2> QED BY <1>3, <2>1, <2>2
<1>7. ASSUME NEW S \in SUBSET inflight, NEW c \in BOOLEAN, TimeoutTick(S, c)
      PROVE  Goal
  <2>1. CASE S = {}
    <3>1. state' = state
      BY <1>7, <2>1 DEF TimeoutTick
    <3> HIDE DEF Goal
    <3> QED BY <1>4, <3>1
  <2>2. CASE S # {}
    <3> DEFINE st == [q \in Requests |-> IF q \in S THEN "REJECTED" ELSE state[q]]
    <3>1. SendPending(inflight \ S, st, wire)
      BY <1>7, <2>2 DEF TimeoutTick
    <3>2. \A q \in Requests : state[q] \in Settled \cup {"PENDING"}
                              => st[q] = state[q]
      BY DEF QueueInv, QueueTypeOK, Accounting, Settled
    <3> HIDE DEF Goal, st
    <3> QED BY <1>3, <3>1, <3>2
  <2> QED BY <2>1, <2>2
<1>8. CASE CheckTimerFires
  <2>1. SendPending(inflight, state, wire)
    BY <1>8 DEF CheckTimerFires, CheckPendingRequests
  <2> HIDE DEF Goal
  <2> QED BY <1>3, <2>1
<1>9. CASE RejectAll
  <2>1. \A q \in Requests : \/ state'[q] = state[q]
                            \/ state[q] \in {"PENDING", "SENT"}
                               /\ state'[q] = "REJECTED"
    BY <1>9 DEF RejectAll, QueueInv, Accounting
  <2> HIDE DEF Goal
  <2> QED BY <1>4, <2>1
<1>10. CASE \/ MaybeThrottle \/ ThrottleExpires \/ Destroy
            \/ ScheduleRequestTimeoutCheck
            \/ \E w \in Waiters : WaitForPendingRequests(w)
            \/ UNCHANGED queueVars
  <2>1. state' = state
    BY <1>10 DEF MaybeThrottle, ThrottleExpires, Destroy, queueVars,
                 ScheduleRequestTimeoutCheck, WaitForPendingRequests
  <2> HIDE DEF Goal
  <2> QED BY <1>4, <2>1
<1> HIDE DEF Goal
<1> QED BY <1>5, <1>6, <1>7, <1>8, <1>9, <1>10 DEF RequestQueueNext

\* A request is settled once: a late response never changes its outcome.
THEOREM RequestSettledOnce == RequestQueueSpec => SettledOnce
<1>1. QueueInv /\ [RequestQueueNext]_queueVars
      => [\A r \in Requests : state[r] \in Settled => state'[r] = state[r]]_queueVars
  BY StepKeepsSettledAndOrder
<1> QED BY <1>1, QueueInvariant, PTL DEF RequestQueueSpec, SettledOnce

\* Pending requests are sent in the order they were queued.
THEOREM PendingSentInOrder == RequestQueueSpec => FirstInFirstOut
<1>1. QueueInv /\ [RequestQueueNext]_queueVars
      => [\A i, j \in 1..Len(pending) :
            i < j /\ state'[pending[j]] \in {"SENT", "COMPLETED"}
            => state'[pending[i]] # "PENDING"]_queueVars
  BY StepKeepsSettledAndOrder
<1> QED BY <1>1, QueueInvariant, PTL DEF RequestQueueSpec, FirstInFirstOut

-----------------------------------------------------------------------------
(***************************************************************************)
(* The connection                                                          *)
(***************************************************************************)

\* Before its first socket the connection has done nothing.
FirstSocket ==
    socket = 0 => /\ connectionStatus = "disconnected"
                  /\ QueueEmpty
                  /\ waiters \cup resuming = {}
                  /\ \A s \in Sockets : phase[s] = "unused"
                  /\ broken = {}

\* The answers still to be read are those of requests in flight or given up.
WireUnanswered == \A r \in wire : state[r] \in {"SENT", "REJECTED"}

\* A request has a socket once it was written, and not before.
WrittenSomewhere ==
    \A r \in Requests : /\ state[r] \in {"new", "PENDING"} => on[r] = 0
                        /\ state[r] \in {"SENT", "COMPLETED"} => on[r] # 0

\* The shared authentication promise: it runs only while nobody is
\* authenticated, and its requests are those of the round under way.
AuthRound ==
    /\ authPc # "idle" => Sasl /\ round # 0 /\ authenticatedAt # "set"
    /\ supportAuthenticationProtocol => authHandlers = 0
    /\ authenticatedAt = "expiring" => supportAuthenticationProtocol
    /\ \A k \in Rounds :
         /\ k > round => /\ state[Handshake(k)] = "new"
                         /\ state[SaslAuthenticate(k)] = "new"
         /\ state[Handshake(k)] \in {"PENDING", "SENT"}
            => k = round /\ authPc = "handshaking"
         /\ state[SaslAuthenticate(k)] # "new" => supportAuthenticationProtocol

\* disconnect() goes on, and a connection is disconnected with nobody waiting
\* for its queue, only when the queue is empty.
Drained ==
    /\ connectionStatus = "disconnecting" => waiters \cup resuming # {}
    /\ late = {} /\ (\/ resuming # {}
                     \/ connectionStatus = "disconnected" /\ waiters = {})
       => QueueEmpty

\* Unless a socket was replaced in the middle of something, only the current
\* socket is alive and the authentication under way has written to no other.
OneSocket ==
    ~crossed => /\ \A s \in Sockets : phase[s] \in {"connecting", "open"} => s = socket
                /\ authPc # "idle" => on[SaslAuthenticate(round)] \in {0, socket}

\* A call whose request is being encoded, waits in the queue or is in flight.
Active(r) == pc[r] = "encoding" \/ state[r] \in {"PENDING", "SENT"}

\* Nothing happens behind the back of a socket that is still connecting.
ConnectingIsQuiet ==
    Undisturbed /\ (\E s \in Sockets : phase[s] = "connecting")
    => /\ connectionStatus # "connected"
       /\ Sasl => /\ authenticatedAt = "null"
                  /\ authPc \in {"idle", "handshake", "failing"}
                  /\ \A r \in Calls : ~Active(r)

\* Calls are active only on an authenticated connection, or until the
\* disconnect() that ended the authentication is done with them.
ActiveIsAuthenticated ==
    Sasl /\ Undisturbed /\ (\E r \in Calls : Active(r))
    => \/ authenticatedAt # "null"
       \/ waiters \cup resuming # {}
       \/ connectionStatus = "disconnected"

\* No call is active while an authentication outside the queue is under way.
RawExchangeIsAlone ==
    /\ Undisturbed /\ ~supportAuthenticationProtocol
    /\ authPc \in {"handshaking", "authenticate", "exchange"}
    => \A r \in Calls : ~Active(r)

\* Whoever may cause a write does so because the current socket is proven.
WritersAreProven ==
    /\ Sasl /\ Undisturbed /\ ~LostHandshake
    /\ \/ authenticatedAt # "null"
       \/ authPc = "verify"
       \/ \E r \in Calls : pc[r] = "encoding" \/ state[r] = "PENDING"
    => socket \in proven

\* The inductive invariant of the connection.
ConnectionInv ==
    /\ QueueInv /\ ConnTypeOK /\ FirstSocket /\ WireUnanswered /\ WrittenSomewhere
    /\ AuthRound /\ Drained /\ OneSocket
    /\ ConnectingIsQuiet /\ ActiveIsAuthenticated /\ RawExchangeIsAlone
    /\ WritersAreProven /\ AuthenticatedWrites
-----------------------------------------------------------------------------
(***************************************************************************)
(* The connection implements the queue's specification                     *)
(***************************************************************************)

\* Every callback of the connection is one operation of its queue, or none.
LEMMA QueueStep ==
    ASSUME QueueTypeOK, ConnTypeOK, AuthRound, [ConnectionNext]_vars
    PROVE  [RequestQueueNext]_queueVars
<1> USE DEF RequestQueueNext
<1>1. ASSUME NEW r \in Requests, PushSend(r) \/ PushEnqueue(r)
      PROVE  RequestQueueNext
  BY <1>1
<1>2. Calls \subseteq Requests
  BY ConnectionAssumption
<1>3. authPc # "idle" => Handshake(round) \in Requests /\ SaslAuthenticate(round) \in Requests
  BY ConnectionAssumption DEF AuthRound, ConnTypeOK, Rounds
<1>4. IsConnected \in BOOLEAN
  BY DEF IsConnected
<1>5. ASSUME NEW w \in Waiters, StartDisconnect(w) \/ RejectAndDisconnect(w)
      PROVE  [RequestQueueNext]_queueVars
  BY <1>5 DEF StartDisconnect, RejectAndDisconnect
<1>6. ASSUME NEW r \in Calls,
             SendConnected(r) \/ Connect(r) \/ Send(r) \/ Push(r) \/ Decode(r)
      PROVE  [RequestQueueNext]_queueVars
  <2> HIDE DEF RequestQueueNext
  <2>1. CASE SendConnected(r) \/ Connect(r) \/ Send(r)
    BY <2>1 DEF SendConnected, Connect, Send
  <2>2. CASE Push(r)
    BY <1>1, <1>2, <2>2 DEF Push
  <2>3. CASE Decode(r)
    BY <2>3 DEF Decode, RequestQueueNext
  <2> QED BY <1>6, <2>1, <2>2, <2>3
<1>7. ASSUME NEW s \in Sockets, OnConnect(s) \/ DataPart(s) \/ DataMisread(s)
      PROVE  [RequestQueueNext]_queueVars
  BY <1>7 DEF OnConnect, DataPart, DataMisread
<1>8. ASSUME NEW s \in Sockets, NEW w \in Waiters,
             OnEnd(s, w) \/ OnError(s, w) \/ OnTimeout(s, w)
      PROVE  [RequestQueueNext]_queueVars
  <2> HIDE DEF RequestQueueNext
  <2> QED BY <1>5, <1>8 DEF OnEnd, OnError, OnTimeout
<1>9. ASSUME NEW w \in Waiters, Disconnect(w) \/ DisconnectResumes(w)
      PROVE  [RequestQueueNext]_queueVars
  <2>1. CASE Disconnect(w)
    <3> HIDE DEF RequestQueueNext
    <3> QED BY <1>5, <2>1 DEF Disconnect
  <2>2. CASE DisconnectResumes(w)
    BY <2>2 DEF DisconnectResumes
  <2> QED BY <1>9, <2>1, <2>2
<1>10. CASE SendHandshake \/ SendSaslAuthenticate
  <2> HIDE DEF RequestQueueNext
  <2> QED BY <1>1, <1>3, <1>10 DEF SendHandshake, SendSaslAuthenticate, AuthSend
<1>11. CASE \/ SendAuthRequest \/ AuthContinues \/ Authenticated
            \/ AuthenticationFails \/ SessionExpires
  BY <1>11 DEF SendAuthRequest, AuthContinues, Authenticated, AuthenticationFails,
               SessionExpires
<1>12. ASSUME NEW s \in Sockets, NEW q \in Answers(s), Data(s, q)
       PROVE  [RequestQueueNext]_queueVars
  <2>1. CASE UNCHANGED queueVars
    BY <2>1
  <2>2. CASE q # RawAnswer /\ FulfillRequest(q)
    BY <1>12, <2>2 DEF FulfillRequest, QueueTypeOK
  <2> QED BY <1>12, <2>1, <2>2 DEF Data, ToAuthHandlers
<1>13. CASE RequestTimeout
  BY <1>4, <1>13 DEF RequestTimeout, QueueTimer
<1>14. CASE QueueTimer(CheckTimerFires) \/ QueueTimer(ThrottleExpires)
  BY <1>14 DEF QueueTimer
<1>15. CASE UNCHANGED vars
  BY <1>15 DEF vars
<1> HIDE DEF RequestQueueNext
<1> QED BY <1>6, <1>7, <1>8, <1>9, <1>10, <1>11, <1>12, <1>13, <1>14, <1>15
        DEF ConnectionNext
\* The instance of RequestQueue in Connection is the module it extends.
LEMMA SameQueue ==
    /\ Queue!RequestQueueInit <=> RequestQueueInit
    /\ Queue!RequestQueueNext <=> RequestQueueNext
    /\ Queue!queueVars = queueVars
<1>1. ASSUME NEW S PROVE Queue!Cardinality(S) = Cardinality(S)
  BY DEF Queue!Cardinality, Cardinality
<1>2. ASSUME NEW S PROVE Queue!CanSend(S) <=> CanSend(S)
  BY <1>1 DEF Queue!CanSend, CanSend
<1>3. ASSUME NEW r
      PROVE  /\ Queue!PushSend(r) <=> PushSend(r)
             /\ Queue!PushEnqueue(r) <=> PushEnqueue(r)
  BY <1>2 DEF Queue!PushSend, PushSend, Queue!PushEnqueue, PushEnqueue,
              Queue!StateAfterSend, StateAfterSend
<1>4. ASSUME NEW base, NEW st, NEW w
      PROVE  Queue!SendPending(base, st, w) <=> SendPending(base, st, w)
  <2>1. ASSUME NEW n
        PROVE  /\ Queue!InFlightAfter(base, n) = InFlightAfter(base, n)
               /\ Queue!Prefix(n) = Prefix(n)
    BY DEF Queue!InFlightAfter, InFlightAfter, Queue!Prefix, Prefix
  <2>2. ASSUME NEW n
        PROVE  Queue!Drains(base, n) <=> Drains(base, n)
    BY <1>2, <2>1 DEF Queue!Drains, Drains
  <2>3. ASSUME NEW S
        PROVE  Queue!StateAfterSend(st, S) = StateAfterSend(st, S)
    BY DEF Queue!StateAfterSend, StateAfterSend
  <2> QED BY <2>1, <2>2, <2>3 DEF Queue!SendPending, SendPending
<1>5. /\ Queue!EmitQueueEmpty <=> EmitQueueEmpty
      /\ Queue!QueueEmpty <=> QueueEmpty
      /\ Queue!QueueEmpty' <=> QueueEmpty'
  BY DEF Queue!EmitQueueEmpty, EmitQueueEmpty, Queue!QueueEmpty, QueueEmpty
<1>6. ASSUME NEW r PROVE Queue!FulfillRequest(r) <=> FulfillRequest(r)
  BY <1>4, <1>5 DEF Queue!FulfillRequest, FulfillRequest,
                    Queue!CheckPendingRequests, CheckPendingRequests
<1>7. ASSUME NEW S, NEW c PROVE Queue!TimeoutTick(S, c) <=> TimeoutTick(S, c)
  BY <1>4, <1>5 DEF Queue!TimeoutTick, TimeoutTick
<1>8. Queue!CheckTimerFires <=> CheckTimerFires
  BY <1>4, <1>5 DEF Queue!CheckTimerFires, CheckTimerFires,
                    Queue!CheckPendingRequests, CheckPendingRequests
<1>9. Queue!RejectAll <=> RejectAll
  BY DEF Queue!RejectAll, RejectAll, Queue!Prefix, Prefix
<1>10. ASSUME NEW w
       PROVE  Queue!WaitForPendingRequests(w) <=> WaitForPendingRequests(w)
  BY <1>5 DEF Queue!WaitForPendingRequests, WaitForPendingRequests
<1>11. /\ Queue!MaybeThrottle <=> MaybeThrottle
       /\ Queue!ThrottleExpires <=> ThrottleExpires
       /\ Queue!Destroy <=> Destroy
       /\ Queue!ScheduleRequestTimeoutCheck <=> ScheduleRequestTimeoutCheck
  BY DEF Queue!MaybeThrottle, MaybeThrottle, Queue!ThrottleExpires, ThrottleExpires,
         Queue!Destroy, Destroy,
         Queue!ScheduleRequestTimeoutCheck, ScheduleRequestTimeoutCheck
<1>12. Queue!RequestQueueNext <=> RequestQueueNext
  BY <1>3, <1>6, <1>7, <1>8, <1>9, <1>10, <1>11
     DEF Queue!RequestQueueNext, RequestQueueNext
<1>13. Queue!RequestQueueInit <=> RequestQueueInit
  BY DEF Queue!RequestQueueInit, RequestQueueInit
<1>14. Queue!queueVars = queueVars
  BY DEF Queue!queueVars, queueVars
<1> QED BY <1>12, <1>13, <1>14

-----------------------------------------------------------------------------
(***************************************************************************)
(* What the operations of the queue mean to the connection                 *)
(***************************************************************************)

\* No request is added, those there are go on or are settled, an empty queue
\* stays empty and waiters are woken only by an empty queue.
QueueAdvances ==
    /\ \A r \in Requests :
          \/ state'[r] = state[r]
          \/ state[r] = "PENDING" /\ state'[r] \in {"SENT", "COMPLETED", "REJECTED"}
          \/ state[r] = "SENT" /\ state'[r] \in {"COMPLETED", "REJECTED"}
    /\ WireUnanswered'
    /\ QueueEmpty => QueueEmpty'
    /\ waiters \ waiters' # {} => QueueEmpty'

\* The queue takes request q and sends or enqueues it.
QueueTakes(q) ==
    /\ state[q] = "new" /\ state'[q] \in {"PENDING", "SENT", "COMPLETED"}
    /\ \A r \in Requests \ {q} : state'[r] = state[r]
    /\ WireUnanswered'
    /\ waiters' = waiters

\* The loop of checkPendingRequests() only sends what is pending.
LEMMA LoopAdvances ==
    ASSUME QueueInv, NEW base, NEW st, NEW w, SendPending(base, st, w),
           base \subseteq inflight,
           \A r \in Requests : \/ st[r] = state[r]
                               \/ state[r] = "SENT" /\ st[r] \in {"COMPLETED", "REJECTED"},
           \A r \in w : r \in Requests /\ st[r] \in {"SENT", "REJECTED"}
    PROVE  /\ \A r \in Requests :
                \/ state'[r] = state[r]
                \/ state[r] = "PENDING" /\ state'[r] \in {"SENT", "COMPLETED", "REJECTED"}
                \/ state[r] = "SENT" /\ state'[r] \in {"COMPLETED", "REJECTED"}
           /\ WireUnanswered'
           /\ QueueEmpty => QueueEmpty'
<1>1. PICK n \in 0..Len(pending) :
        /\ inflight' = InFlightAfter(base, n)
        /\ pending' = SubSeq(pending, n + 1, Len(pending))
        /\ wire' = w \cup (Prefix(n) \ OneWay)
        /\ state' = StateAfterSend(st, Prefix(n))
  BY DEF SendPending
<1>2. \A q \in Requests :
        state'[q] = IF q \in Prefix(n)
                    THEN IF q \in OneWay THEN "COMPLETED" ELSE "SENT"
                    ELSE st[q]
  BY <1>1 DEF StateAfterSend
<1>3. \A q \in Prefix(n) : q \in Requests /\ state[q] = "PENDING"
  <2>1. Prefix(n) \subseteq Prefix(Len(pending))
    BY DEF Prefix
  <2> QED BY <2>1 DEF QueueInv, Accounting
<1>4. WireUnanswered'
  <2> SUFFICES ASSUME NEW r \in wire' PROVE state'[r] \in {"SENT", "REJECTED"}
    BY DEF WireUnanswered
  <2>1. CASE r \in Prefix(n) \ OneWay
    BY <1>2, <1>3, <2>1
  <2>2. CASE r \in w /\ r \notin Prefix(n)
    BY <1>2, <2>2
  <2> QED BY <1>1, <1>2, <1>3, <2>1, <2>2
<1>5. QueueEmpty => QueueEmpty'
  <2> SUFFICES ASSUME QueueEmpty PROVE QueueEmpty'
    OBVIOUS
  <2>1. n = 0 /\ pending' = <<>>
    BY <1>1 DEF QueueEmpty
  <2>2. Prefix(0) = {} 
    BY DEF Prefix
  <2> QED BY <1>1, <2>1, <2>2 DEF QueueEmpty, InFlightAfter
<1> QED BY <1>2, <1>3, <1>4, <1>5

\* Every operation but push() lets the queue advance.
LEMMA OperationsAdvance ==
    ASSUME QueueInv, WireUnanswered,
           \/ \E r \in Requests : FulfillRequest(r)
           \/ \E S \in SUBSET inflight, c \in BOOLEAN : TimeoutTick(S, c)
           \/ CheckTimerFires
           \/ MaybeThrottle
           \/ ThrottleExpires
           \/ RejectAll
           \/ \E w \in Waiters : WaitForPendingRequests(w)
           \/ Destroy
           \/ ScheduleRequestTimeoutCheck
           \/ UNCHANGED queueVars
    PROVE  QueueAdvances
<1> USE DEF QueueAdvances
<1>1. wire \subseteq Requests /\ \A r \in Requests : r \in inflight <=> state[r] = "SENT"
  BY DEF QueueInv, QueueTypeOK, Accounting
<1>2. ASSUME NEW r \in Requests, FulfillRequest(r) PROVE QueueAdvances
  <2> DEFINE st == IF r \in inflight THEN [state EXCEPT ![r] = "COMPLETED"] ELSE state
  <2>1. SendPending(inflight \ {r}, st, wire \ {r}) /\ EmitQueueEmpty
    BY <1>2 DEF FulfillRequest, CheckPendingRequests
  <2>2. \A q \in Requests : st[q] = IF q = r /\ r \in inflight THEN "COMPLETED" ELSE state[q]
    BY DEF QueueInv, QueueTypeOK
  <2> HIDE DEF st
  <2>3. \A q \in wire \ {r} : q \in Requests /\ st[q] \in {"SENT", "REJECTED"}
    BY <1>1, <2>2 DEF WireUnanswered
  <2> QED BY <1>1, <2>1, <2>2, <2>3, LoopAdvances DEF EmitQueueEmpty
<1>3. ASSUME NEW S \in SUBSET inflight, NEW c \in BOOLEAN, TimeoutTick(S, c)
      PROVE  QueueAdvances
  <2>1. CASE S = {}
    BY <1>3, <2>1 DEF TimeoutTick, QueueEmpty, WireUnanswered
  <2>2. CASE S # {}
    <3> DEFINE st == [q \in Requests |-> IF q \in S THEN "REJECTED" ELSE state[q]]
    <3>1. SendPending(inflight \ S, st, wire) /\ EmitQueueEmpty
      BY <1>3, <2>2 DEF TimeoutTick
    <3>2. \A q \in Requests : st[q] = IF q \in S THEN "REJECTED" ELSE state[q]
      OBVIOUS
    <3> HIDE DEF st
    <3>3. \A q \in wire : q \in Requests /\ st[q] \in {"SENT", "REJECTED"}
      BY <1>1, <3>2 DEF WireUnanswered
    <3> QED BY <1>1, <3>1, <3>2, <3>3, LoopAdvances DEF EmitQueueEmpty
  <2> QED BY <2>1, <2>2
<1>4. CASE CheckTimerFires
  <2>1. SendPending(inflight, state, wire)
    BY <1>4 DEF CheckTimerFires, CheckPendingRequests
  <2>2. waiters \ waiters' # {} => QueueEmpty'
    BY <1>4 DEF CheckTimerFires
  <2> QED BY <1>1, <2>1, <2>2, LoopAdvances DEF WireUnanswered
<1>5. CASE RejectAll
  <2>1. \A q \in Requests :
          state'[q] = IF state[q] \in {"SENT", "PENDING"} THEN "REJECTED" ELSE state[q]
    BY <1>5 DEF RejectAll, QueueInv, Accounting
  <2>2. QueueEmpty' /\ wire' = wire
    BY <1>5 DEF RejectAll, QueueEmpty
  <2> QED BY <1>1, <2>1, <2>2 DEF WireUnanswered
<1>6. CASE \/ MaybeThrottle \/ ThrottleExpires \/ Destroy
           \/ ScheduleRequestTimeoutCheck
           \/ \E w \in Waiters : WaitForPendingRequests(w)
           \/ UNCHANGED queueVars
  <2>1. UNCHANGED <<state, inflight, pending, wire>> /\ waiters \subseteq waiters'
    BY <1>6 DEF MaybeThrottle, ThrottleExpires, Destroy, queueVars,
                ScheduleRequestTimeoutCheck, WaitForPendingRequests
  <2> QED BY <2>1 DEF QueueEmpty, WireUnanswered
<1> HIDE DEF QueueAdvances
<1> QED BY <1>2, <1>3, <1>4, <1>5, <1>6

\* push() lets the queue take the request.
LEMMA PushTakes ==
    ASSUME QueueInv, WireUnanswered, NEW q \in Requests, PushSend(q) \/ PushEnqueue(q)
    PROVE  QueueTakes(q)
<1>1. wire \subseteq Requests
  BY DEF QueueInv, QueueTypeOK
<1>2. CASE PushSend(q)
  <2>1. /\ \A r \in Requests :
              state'[r] = IF r = q THEN IF r \in OneWay THEN "COMPLETED" ELSE "SENT"
                          ELSE state[r]
        /\ wire' = wire \cup ({q} \ OneWay)
        /\ state[q] = "new" /\ waiters' = waiters
    BY <1>2 DEF PushSend, StateAfterSend
  <2> QED BY <1>1, <2>1 DEF QueueTakes, WireUnanswered
<1>3. CASE PushEnqueue(q)
  BY <1>1, <1>3 DEF PushEnqueue, QueueTakes, WireUnanswered, QueueInv, QueueTypeOK
<1> QED BY <1>2, <1>3

-----------------------------------------------------------------------------
(***************************************************************************)
(* The invariant is inductive                                              *)
(***************************************************************************)

\* Nothing undoes a disturbance, an answer given up or a proof of identity.
LEMMA DisturbedForGood ==
    ASSUME ConnectionInv, [ConnectionNext]_vars
    PROVE  /\ QueueInv'
           /\ supportAuthenticationProtocol' = supportAuthenticationProtocol
           /\ Undisturbed' => Undisturbed
           /\ ~LostHandshake' => ~LostHandshake
           /\ proven \subseteq proven'
<1>1. [RequestQueueNext]_queueVars
  BY QueueStep DEF ConnectionInv, QueueInv
<1>2. QueueInv'
  BY <1>1, QueueNextInv DEF ConnectionInv
<1>3. /\ supportAuthenticationProtocol' = supportAuthenticationProtocol
      /\ crossed => crossed'
      /\ late \subseteq late'
      /\ proven \subseteq proven'
  <2> USE DEF authVars, raw, history, vars, connVars
  <2>1. ASSUME NEW r \in Calls, SendConnected(r) \/ Send(r) \/ Push(r) \/ Decode(r)
        PROVE  <1>3!:
    BY <2>1 DEF SendConnected, Send, Push, Decode, NoteLate
  <2>10. ASSUME NEW r \in Calls, Connect(r)
         PROVE  <1>3!:
    <3>1. crossed => crossed'
      BY <2>10, Zenon DEF Connect
    <3> QED BY <2>10, <3>1 DEF Connect
  <2>2. ASSUME NEW s \in Sockets, OnConnect(s) \/ DataPart(s) \/ DataMisread(s)
        PROVE  <1>3!:
    BY <2>2 DEF OnConnect, DataPart, DataMisread
  <2>3. ASSUME NEW s \in Sockets, NEW w \in Waiters,
               OnEnd(s, w) \/ OnError(s, w) \/ OnTimeout(s, w)
        PROVE  <1>3!:
    BY <2>3 DEF OnEnd, OnError, OnTimeout
  <2>4. ASSUME NEW w \in Waiters, Disconnect(w) \/ DisconnectResumes(w)
        PROVE  <1>3!:
    BY <2>4 DEF Disconnect, DisconnectResumes
  <2>5. CASE SendHandshake \/ SendSaslAuthenticate \/ SendAuthRequest
    BY <2>5 DEF SendHandshake, SendSaslAuthenticate, SendAuthRequest, AuthSend, NoteLate
  <2>6. CASE AuthContinues \/ Authenticated \/ AuthenticationFails \/ SessionExpires
    BY <2>6 DEF AuthContinues, Authenticated, AuthenticationFails, SessionExpires
  <2>7. ASSUME NEW s \in Sockets, NEW q \in Answers(s), Data(s, q)
        PROVE  <1>3!:
    BY <2>7 DEF Data, ToAuthHandlers
  <2>8. CASE RequestTimeout \/ QueueTimer(CheckTimerFires) \/ QueueTimer(ThrottleExpires)
    BY <2>8 DEF RequestTimeout, QueueTimer
  <2>9. CASE UNCHANGED vars
    BY <2>9
  <2> QED BY <2>1, <2>2, <2>3, <2>4, <2>5, <2>6, <2>7, <2>8, <2>9, <2>10
         DEF ConnectionNext
<1>4. \A r \in Requests : state[r] = "REJECTED" => state'[r] = "REJECTED"
  BY <1>1, StepKeepsSettledAndOrder DEF ConnectionInv, Settled
<1>5. \A k \in Rounds : Handshake(k) \in Requests
  BY ConnectionAssumption
<1> QED BY <1>2, <1>3, <1>4, <1>5 DEF Undisturbed, LostHandshake

\* What the connection keeps beside its queue.
LEMMA SendConnectedInv ==
    ASSUME ConnectionInv, QueueInv', NEW r \in Calls, SendConnected(r)
    PROVE  ConnectionInv'
<1> USE DEF ConnectionInv, SendConnected, queueVars, netVars, writeVars, authVars, raw, history
<1>1. ConnTypeOK'
  BY DEF ConnTypeOK
<1>2. FirstSocket' /\ WireUnanswered' /\ WrittenSomewhere'
  BY DEF FirstSocket, WireUnanswered, WrittenSomewhere, QueueEmpty
<1>3. AuthRound' /\ Drained' /\ OneSocket'
  BY DEF AuthRound, Drained, OneSocket, QueueEmpty
<1>4. ConnectingIsQuiet' /\ ActiveIsAuthenticated' /\ RawExchangeIsAlone'
  BY DEF ConnectingIsQuiet, ActiveIsAuthenticated, RawExchangeIsAlone, Active, Undisturbed, ConnTypeOK
<1>5. WritersAreProven' /\ AuthenticatedWrites'
  BY DEF WritersAreProven, AuthenticatedWrites, Undisturbed, LostHandshake, ConnTypeOK
<1> QED BY <1>1, <1>2, <1>3, <1>4, <1>5

\* connect(): a new socket, or none.
LEMMA ConnectInv ==
    ASSUME ConnectionInv, QueueInv', NEW r \in Calls, Connect(r)
    PROVE  ConnectionInv'
<1> USE DEF ConnectionInv, queueVars, writeVars, authVars, raw
<1>1. crossed' \in BOOLEAN /\ (~crossed' => ~crossed /\ Quiet)
  BY Zenon DEF ConnTypeOK, Connect
<1>2. /\ UNCHANGED <<queueVars, connectionStatus, ended, resuming, writeVars,
                     authVars, rx, late, disconnects>>
      /\ authenticatedAt' = "null" /\ connectionStatus = "disconnected"
      /\ \/ /\ UNCHANGED <<socket, phase, awaits>>
            /\ pc' = [pc EXCEPT ![r] = "failed"]
         \/ /\ socket' \in Sockets
            /\ phase' = [phase EXCEPT ![socket'] = "connecting"]
            /\ pc' = [pc EXCEPT ![r] = "connecting"]
            /\ awaits' = [awaits EXCEPT ![r] = socket']
  BY DEF Connect, IsConnected, ConnTypeOK
<1>3. ConnTypeOK'
  <2>1. pc' \in [Calls -> {"idle", "connecting", "ready", "authenticating",
                           "encoding", "queued", "done", "failed"}]
    BY <1>2 DEF ConnTypeOK
  <2>2. phase' \in [Sockets -> {"unused", "connecting", "open", "closed"}]
    BY <1>2 DEF ConnTypeOK
  <2>3. socket' \in 0..MaxSockets /\ awaits' \in [Calls -> 0..MaxSockets]
    BY <1>2, ConnectionAssumption DEF ConnTypeOK, Sockets
  <2> QED BY <1>1, <1>2, <2>1, <2>2, <2>3 DEF ConnTypeOK
<1>4. FirstSocket' /\ WireUnanswered' /\ WrittenSomewhere'
  BY <1>2, ConnectionAssumption
     DEF FirstSocket, WireUnanswered, WrittenSomewhere, QueueEmpty, Sockets
<1>5. AuthRound' /\ Drained'
  BY <1>2 DEF AuthRound, Drained, QueueEmpty
<1>6. OneSocket'
  BY <1>1, <1>2 DEF OneSocket, Quiet, ConnTypeOK
<1>7. Quiet => \A q \in Calls : ~Active(q)
  <2>1. QueueEmpty => \A q \in Requests : state[q] \notin {"PENDING", "SENT"}
    BY DEF QueueEmpty, QueueInv, Accounting, Prefix
  <2> QED BY <2>1, ConnectionAssumption DEF Quiet, Active
<1>8. Quiet => \A q \in Calls : ~Active(q)'
  BY <1>2, <1>7 DEF Active, ConnTypeOK
<1>9. ConnectingIsQuiet' /\ ActiveIsAuthenticated'
  BY <1>1, <1>2, <1>8
     DEF ConnectingIsQuiet, ActiveIsAuthenticated, Undisturbed, Quiet
<1>10. RawExchangeIsAlone'
  BY <1>1, <1>2, <1>8 DEF RawExchangeIsAlone, Undisturbed
<1>11. WritersAreProven' /\ AuthenticatedWrites'
  BY <1>1, <1>2, <1>8 DEF WritersAreProven, AuthenticatedWrites, Undisturbed,
                          LostHandshake, ConnTypeOK, Active, Quiet
<1> QED BY <1>3, <1>4, <1>5, <1>6, <1>9, <1>10, <1>11

\* The start of send(): a round of authentication begins with nothing sent.
LEMMA SendInv ==
    ASSUME ConnectionInv, QueueInv', NEW r \in Calls, Send(r)
    PROVE  ConnectionInv'
<1> USE DEF ConnectionInv, Send, queueVars, netVars, writeVars, raw, history
<1>1. ConnTypeOK'
  BY ConnectionAssumption DEF ConnTypeOK
<1>2. FirstSocket' /\ WireUnanswered' /\ WrittenSomewhere'
  BY DEF FirstSocket, WireUnanswered, WrittenSomewhere, QueueEmpty
<1>3. AuthRound' /\ Drained'
  BY ConnectionAssumption
     DEF AuthRound, Drained, QueueEmpty, IsAuthenticated, ConnTypeOK, Rounds
<1>4. OneSocket'
  <2>1. round' # round => /\ SaslAuthenticate(round') \in Requests
                          /\ state[SaslAuthenticate(round')] = "new"
    BY ConnectionAssumption DEF ConnTypeOK, Rounds, AuthRound
  <2>2. round' # round => on[SaslAuthenticate(round')] = 0
    BY <2>1 DEF WrittenSomewhere
  <2> QED BY <2>2, ConnectionAssumption DEF OneSocket, ConnTypeOK
<1>5. ConnectingIsQuiet' /\ ActiveIsAuthenticated' /\ RawExchangeIsAlone'
  BY DEF ConnectingIsQuiet, ActiveIsAuthenticated, RawExchangeIsAlone, Active,
         Undisturbed, ConnTypeOK, IsAuthenticated, AuthRound
<1>6. WritersAreProven' /\ AuthenticatedWrites'
  BY DEF WritersAreProven, AuthenticatedWrites, Undisturbed, LostHandshake,
         ConnTypeOK, IsAuthenticated
<1> QED BY <1>1, <1>2, <1>3, <1>4, <1>5, <1>6

\* send() once its answer has come: at most the throttle changes.
LEMMA DecodeInv ==
    ASSUME ConnectionInv, QueueInv', NEW r \in Calls, Decode(r)
    PROVE  ConnectionInv'
<1> USE DEF ConnectionInv, Decode, netVars, writeVars, authVars, raw, history
<1>1. UNCHANGED <<state, inflight, pending, wire, waiters>>
  BY DEF queueVars, MaybeThrottle
<1>2. ConnTypeOK'
  BY <1>1 DEF ConnTypeOK
<1>3. FirstSocket' /\ WireUnanswered' /\ WrittenSomewhere'
  BY <1>1 DEF FirstSocket, WireUnanswered, WrittenSomewhere, QueueEmpty
<1>4. AuthRound' /\ Drained' /\ OneSocket'
  BY <1>1 DEF AuthRound, Drained, OneSocket, QueueEmpty
<1>5. ConnectingIsQuiet' /\ ActiveIsAuthenticated' /\ RawExchangeIsAlone'
  BY <1>1 DEF ConnectingIsQuiet, ActiveIsAuthenticated, RawExchangeIsAlone, Active,
              Undisturbed, ConnTypeOK
<1>6. WritersAreProven' /\ AuthenticatedWrites'
  BY <1>1 DEF WritersAreProven, AuthenticatedWrites, Undisturbed, LostHandshake,
              ConnTypeOK
<1> QED BY <1>2, <1>3, <1>4, <1>5, <1>6

\* The first bytes of an answer, of this socket or behind those of another.
LEMMA DataPartInv ==
    ASSUME ConnectionInv, QueueInv', NEW s \in Sockets, DataPart(s) \/ DataMisread(s)
    PROVE  ConnectionInv'
<1> USE DEF ConnectionInv, queueVars, netVars, callVars, writeVars, authVars, raw, history
<1>1. /\ UNCHANGED <<queueVars, connectionStatus, netVars, callVars, resuming,
                     writeVars, authenticatedAt, authVars, history>>
      /\ rx' \in {s, Misread}
  BY DEF DataPart, DataMisread
<1>2. ConnTypeOK'
  BY <1>1, ConnectionAssumption DEF ConnTypeOK, Sockets, Misread
<1>3. FirstSocket' /\ WireUnanswered' /\ WrittenSomewhere'
  BY <1>1 DEF FirstSocket, WireUnanswered, WrittenSomewhere, QueueEmpty
<1>4. AuthRound' /\ Drained' /\ OneSocket'
  BY <1>1 DEF AuthRound, Drained, OneSocket, QueueEmpty
<1>5. ConnectingIsQuiet' /\ ActiveIsAuthenticated' /\ RawExchangeIsAlone'
  BY <1>1 DEF ConnectingIsQuiet, ActiveIsAuthenticated, RawExchangeIsAlone, Active,
              Undisturbed
<1>6. WritersAreProven' /\ AuthenticatedWrites'
  BY <1>1 DEF WritersAreProven, AuthenticatedWrites, Undisturbed, LostHandshake
<1> QED BY <1>2, <1>3, <1>4, <1>5, <1>6

\* onConnect(): until then nothing has happened on the socket.
LEMMA OnConnectInv ==
    ASSUME ConnectionInv, QueueInv', NEW s \in Sockets, OnConnect(s)
    PROVE  ConnectionInv'
<1> USE DEF ConnectionInv, OnConnect, SettleConnect, writeVars, authVars, raw, history
<1>1. UNCHANGED <<state, inflight, pending, wire, waiters>>
  BY DEF queueVars, ScheduleRequestTimeoutCheck
<1>2. ConnTypeOK'
  BY <1>1 DEF ConnTypeOK
<1>3. FirstSocket' /\ WireUnanswered' /\ WrittenSomewhere'
  BY <1>1 DEF FirstSocket, WireUnanswered, WrittenSomewhere, QueueEmpty
<1>4. AuthRound' /\ Drained'
  BY <1>1 DEF AuthRound, Drained, QueueEmpty, MicrotasksDone
<1>5. OneSocket'
  BY <1>1 DEF OneSocket, ConnTypeOK
<1>6. \A q \in Calls : Active(q)' => Active(q)
  BY <1>1 DEF Active, ConnTypeOK
<1>7. ConnectingIsQuiet'
  BY <1>1, <1>6 DEF ConnectingIsQuiet, Undisturbed, ConnTypeOK, OneSocket
<1>8. ActiveIsAuthenticated' /\ RawExchangeIsAlone'
  BY <1>1, <1>6 DEF ConnectingIsQuiet, ActiveIsAuthenticated, RawExchangeIsAlone,
              Undisturbed
<1>9. WritersAreProven' /\ AuthenticatedWrites'
  BY <1>1 DEF WritersAreProven, AuthenticatedWrites, Undisturbed, LostHandshake,
              ConnTypeOK
<1> QED BY <1>2, <1>3, <1>4, <1>5, <1>7, <1>8, <1>9

\* disconnect() up to its await: the caller waits or finds the queue empty.
LEMMA DisconnectStarts ==
    ASSUME ConnectionInv, NEW w \in Waiters, StartDisconnect(w) \/ RejectAndDisconnect(w)
    PROVE  /\ QueueAdvances
           /\ \A r \in Requests : state'[r] = state[r] \/ state'[r] = "REJECTED"
           /\ authenticatedAt' = "null" /\ connectionStatus' = "disconnecting"
           /\ resuming' \subseteq Waiters \ waiters'
           /\ waiters' \cup resuming' # {}
           /\ resuming' = resuming \/ QueueEmpty'
<1> USE DEF ConnectionInv
<1>1. CASE StartDisconnect(w) /\ QueueEmpty
  <2>1. UNCHANGED queueVars /\ Wake({w})
    BY <1>1 DEF StartDisconnect
  <2>2. QueueAdvances
    BY <2>1, OperationsAdvance
  <2>3. UNCHANGED <<state, waiters>> /\ QueueEmpty' /\ resuming' = resuming \cup {w}
    BY <1>1, <2>1 DEF queueVars, QueueEmpty, Wake
  <2> QED BY <1>1, <2>2, <2>3 DEF StartDisconnect, IdleWaiter, ConnTypeOK
<1>2. CASE StartDisconnect(w) /\ ~QueueEmpty
  <2>1. WaitForPendingRequests(w) /\ Wake({})
    BY <1>2 DEF StartDisconnect
  <2>2. QueueAdvances
    BY <2>1, OperationsAdvance
  <2>3. state' = state /\ waiters' = waiters \cup {w} /\ resuming' = resuming
    BY <2>1 DEF WaitForPendingRequests, Wake
  <2> QED BY <1>2, <2>2, <2>3 DEF StartDisconnect, IdleWaiter, ConnTypeOK
<1>3. CASE RejectAndDisconnect(w)
  <2>1. RejectAll /\ Wake({w})
    BY <1>3 DEF RejectAndDisconnect
  <2>2. QueueAdvances
    BY <2>1, OperationsAdvance
  <2>3. waiters' = {} /\ QueueEmpty' /\ resuming' = resuming \cup waiters \cup {w}
    BY <2>1 DEF RejectAll, Wake, QueueEmpty
  <2>4. \A r \in Requests : state'[r] = state[r] \/ state'[r] = "REJECTED"
    BY <2>1 DEF RejectAll
  <2> QED BY <1>3, <2>2, <2>3, <2>4
             DEF RejectAndDisconnect, ConnTypeOK, QueueInv, QueueTypeOK
<1> QED BY <1>1, <1>2, <1>3

\* A callback that starts disconnect() keeps the invariant, whatever else it
\* does to a socket, to the calls that wait for it and to the handlers of an
\* authentication.
LEMMA DisconnectingInv ==
    ASSUME ConnectionInv, QueueInv', ~LostHandshake' => ~LostHandshake,
           NEW w \in Waiters, StartDisconnect(w) \/ RejectAndDisconnect(w),
           UNCHANGED <<socket, ended, awaits, on, round, rawAuth, proven, rx, late,
                       crossed, supportAuthenticationProtocol>>,
           disconnects' \in 0..MaxDisconnects,
           socket # 0, broken' \subseteq broken,
           phase' \in [Sockets -> {"unused", "connecting", "open", "closed"}],
           \A t \in Sockets : phase'[t] \in {phase[t], "closed"},
           \A r \in Calls : pc'[r] \in {pc[r], "failed"},
           pc' \in [Calls -> {"idle", "connecting", "ready", "authenticating",
                              "encoding", "queued", "done", "failed"}],
           authHandlers' \in {0, authHandlers},
           authPc' = authPc \/ (authPc = "exchange" /\ authPc' = "failing"
                                /\ authHandlers # 0)
    PROVE  ConnectionInv'
<1> USE DEF ConnectionInv
<1>1. /\ QueueAdvances
      /\ \A r \in Requests : state'[r] = state[r] \/ state'[r] = "REJECTED"
      /\ authenticatedAt' = "null" /\ connectionStatus' = "disconnecting"
      /\ resuming' \subseteq Waiters \ waiters'
      /\ waiters' \cup resuming' # {}
      /\ resuming' = resuming \/ QueueEmpty'
  BY DisconnectStarts
<1>2. ConnTypeOK'
  BY <1>1, ConnectionAssumption DEF ConnTypeOK
<1>3. FirstSocket' /\ WireUnanswered' /\ WrittenSomewhere'
  BY <1>1 DEF FirstSocket, WrittenSomewhere, QueueAdvances
<1>4. AuthRound'
  <2>1. \A k \in Rounds : Handshake(k) \in Requests /\ SaslAuthenticate(k) \in Requests
    BY ConnectionAssumption
  <2>2. \A r \in Requests : state[r] = "new" => state'[r] = "new"
    BY <1>1 DEF QueueAdvances
  <2>3. \A r \in Requests : state'[r] # "new" => state[r] # "new"
    BY <1>1 DEF QueueAdvances
  <2>4. \A r \in Requests : state'[r] \in {"PENDING", "SENT"} => state'[r] = state[r]
    BY <1>1
  <2> QED BY <1>1, <2>1, <2>2, <2>3, <2>4 DEF AuthRound
<1>5. Drained'
  BY <1>1 DEF Drained, QueueAdvances
<1>6. OneSocket'
  BY DEF OneSocket
<1>7. \A r \in Calls : Active(r)' => Active(r)
  BY <1>1, ConnectionAssumption DEF Active
<1>8. ConnectingIsQuiet' /\ ActiveIsAuthenticated' /\ RawExchangeIsAlone'
  BY <1>1, <1>7 DEF ConnectingIsQuiet, ActiveIsAuthenticated, RawExchangeIsAlone,
                    Undisturbed
<1>9. WritersAreProven' /\ AuthenticatedWrites'
  BY <1>1, ConnectionAssumption
     DEF WritersAreProven, AuthenticatedWrites, Undisturbed
<1> QED BY <1>2, <1>3, <1>4, <1>5, <1>6, <1>8, <1>9

\* The events of a socket that end in disconnect(), and disconnect() itself.
LEMMA DisconnectingStepsInv ==
    ASSUME ConnectionInv, QueueInv', ~LostHandshake' => ~LostHandshake,
           NEW w \in Waiters,
           \/ Disconnect(w)
           \/ \E s \in Sockets : OnEnd(s, w) \/ OnError(s, w) \/ OnTimeout(s, w)
    PROVE  ConnectionInv'
<1> USE DEF netVars, callVars, writeVars, authVars, raw, history
<1>1. ASSUME NEW s \in Sockets, phase[s] \in {"connecting", "open"} \/ s \in broken
      PROVE  socket # 0
  BY <1>1 DEF ConnectionInv, FirstSocket
<1>2. CASE Disconnect(w)
  BY <1>2, DisconnectingInv, ConnectionAssumption
     DEF Disconnect, ConnectionInv, ConnTypeOK
<1>3. ASSUME NEW s \in Sockets, OnEnd(s, w) PROVE ConnectionInv'
  <2>1. StartDisconnect(w) \/ RejectAndDisconnect(w)
    BY <1>3 DEF OnEnd
  <2>2. /\ socket # 0
        /\ phase' \in [Sockets -> {"unused", "connecting", "open", "closed"}]
        /\ \A t \in Sockets : phase'[t] \in {phase[t], "closed"}
    BY <1>1, <1>3 DEF OnEnd, ConnectionInv, ConnTypeOK
  <2>3. /\ authHandlers' \in {0, authHandlers}
        /\ authPc' = authPc \/ (authPc = "exchange" /\ authPc' = "failing"
                                /\ authHandlers # 0)
    BY <1>3 DEF OnEnd
  <2>4. /\ UNCHANGED <<socket, ended, awaits, on, round, rawAuth, proven, rx, late,
                       crossed, supportAuthenticationProtocol, pc, broken>>
        /\ disconnects' \in 0..MaxDisconnects
        /\ pc' \in [Calls -> {"idle", "connecting", "ready", "authenticating",
                              "encoding", "queued", "done", "failed"}]
    BY <1>3 DEF OnEnd, ConnectionInv, ConnTypeOK
  <2> QED BY <2>1, <2>2, <2>3, <2>4, DisconnectingInv
<1>4. ASSUME NEW s \in Sockets, OnError(s, w) \/ OnTimeout(s, w) PROVE ConnectionInv'
  <2>1. RejectAndDisconnect(w)
    BY <1>4 DEF OnError, OnTimeout
  <2>2. /\ socket # 0 /\ broken' \subseteq broken
        /\ phase' \in [Sockets -> {"unused", "connecting", "open", "closed"}]
        /\ \A t \in Sockets : phase'[t] \in {phase[t], "closed"}
    BY <1>1, <1>4 DEF OnError, OnTimeout, ConnectionInv, ConnTypeOK
  <2>3. /\ \A r \in Calls : pc'[r] \in {pc[r], "failed"}
        /\ pc' \in [Calls -> {"idle", "connecting", "ready", "authenticating",
                              "encoding", "queued", "done", "failed"}]
    BY <1>4 DEF OnError, OnTimeout, SettleConnect, ConnectionInv, ConnTypeOK
  <2>4. /\ UNCHANGED <<socket, ended, awaits, on, round, rawAuth, proven, rx, late,
                       crossed, supportAuthenticationProtocol, authHandlers, authPc>>
        /\ disconnects' \in 0..MaxDisconnects
    BY <1>4 DEF OnError, OnTimeout, ConnectionInv, ConnTypeOK
  <2> QED BY <2>1, <2>2, <2>3, <2>4, DisconnectingInv
<1> QED BY <1>2, <1>3, <1>4

\* disconnect() after its await: the queue is empty, or a request came late.
LEMMA DisconnectResumesInv ==
    ASSUME ConnectionInv, QueueInv', NEW w \in Waiters, DisconnectResumes(w)
    PROVE  ConnectionInv'
<1> USE DEF ConnectionInv, DisconnectResumes, callVars, writeVars, authVars, raw, history
<1>1. UNCHANGED <<state, inflight, pending, wire, waiters>>
  BY DEF Destroy
<1>2. ConnTypeOK'
  BY <1>1, ConnectionAssumption DEF ConnTypeOK, Sockets
<1>3. FirstSocket' /\ WireUnanswered' /\ WrittenSomewhere'
  BY <1>1 DEF FirstSocket, WireUnanswered, WrittenSomewhere, QueueEmpty
<1>4. AuthRound' /\ Drained' /\ OneSocket'
  BY <1>1 DEF AuthRound, Drained, OneSocket, QueueEmpty
<1>5. ConnectingIsQuiet' /\ ActiveIsAuthenticated' /\ RawExchangeIsAlone'
  BY <1>1 DEF ConnectingIsQuiet, ActiveIsAuthenticated, RawExchangeIsAlone, Active,
              Undisturbed
<1>6. WritersAreProven' /\ AuthenticatedWrites'
  BY <1>1 DEF WritersAreProven, AuthenticatedWrites, Undisturbed, LostHandshake
<1> QED BY <1>2, <1>3, <1>4, <1>5, <1>6

\* Only requests that were new or pending are written, and only when there is a
\* socket to write to.
LEMMA WritesNoted ==
    ASSUME ConnectionInv, NoteWrites,
           \/ QueueAdvances
           \/ \E q \in Requests : QueueTakes(q) /\ IsConnected
    PROVE  /\ on' \in [Requests -> 0..MaxSockets]
           /\ broken' \subseteq Sockets
           /\ socket = 0 => broken' = broken
           /\ \A r \in Requests :
                \/ on'[r] = on[r]
                \/ on'[r] = socket /\ socket # 0 /\ state[r] \in {"new", "PENDING"}
                   /\ state'[r] \in {"SENT", "COMPLETED"}
           /\ WrittenSomewhere'
<1> USE DEF ConnectionInv
<1>1. Written # {} => socket \in Sockets
  <2>1. socket = 0 => /\ \A r \in Requests : state[r] # "PENDING"
                      /\ ~IsConnected
    BY DEF FirstSocket, QueueEmpty, QueueInv, Accounting, Prefix, IsConnected
  <2>2. socket = 0 => Written = {}
    BY <2>1 DEF Written, QueueAdvances
  <2> QED BY <2>2, ConnectionAssumption DEF ConnTypeOK, Sockets
<1>2. \A r \in Requests : on'[r] = IF r \in Written THEN socket ELSE on[r]
  BY DEF NoteWrites
<1>3. on' \in [Requests -> 0..MaxSockets]
  BY DEF NoteWrites, ConnTypeOK
<1>4. broken' \subseteq Sockets /\ (socket = 0 => broken' = broken)
  BY <1>1, ConnectionAssumption DEF NoteWrites, ConnTypeOK, Sockets
<1>5. \A r \in Written : /\ socket # 0 /\ state[r] \in {"new", "PENDING"}
                         /\ state'[r] \in {"SENT", "COMPLETED"}
  BY <1>1, ConnectionAssumption DEF Written, Sockets
<1>6. \A r \in Requests :
        /\ state'[r] \in {"new", "PENDING"}
           => state[r] \in {"new", "PENDING"} /\ r \notin Written
        /\ state'[r] \in {"SENT", "COMPLETED"}
           => r \in Written \/ state[r] \in {"SENT", "COMPLETED"}
  BY DEF Written, QueueAdvances, QueueTakes
<1>7. WrittenSomewhere'
  BY <1>2, <1>5, <1>6 DEF WrittenSomewhere
<1> QED BY <1>2, <1>3, <1>4, <1>5, <1>7

\* The requests of the authentication are none of the application's calls.
LEMMA AuthRequests ==
    ASSUME NEW k \in Rounds
    PROVE  /\ Handshake(k) \in Requests \ Calls
           /\ SaslAuthenticate(k) \in Requests \ Calls
           /\ \A j \in Rounds : /\ Handshake(k) # SaslAuthenticate(j)
                                /\ Handshake(k) = Handshake(j) => k = j
                                /\ SaslAuthenticate(k) = SaslAuthenticate(j) => k = j
           /\ RawAnswer # Handshake(k) /\ RawAnswer # SaslAuthenticate(k)
<1>1. /\ Handshake(k) \in Requests \ Calls
      /\ SaslAuthenticate(k) \in Requests \ Calls
  BY ConnectionAssumption
<1>2. \A j \in Rounds : /\ Handshake(k) # SaslAuthenticate(j)
                        /\ Handshake(k) = Handshake(j) => k = j
                        /\ SaslAuthenticate(k) = SaslAuthenticate(j) => k = j
  BY DEF Handshake, SaslAuthenticate
<1>3. RawAnswer # Handshake(k) /\ RawAnswer # SaslAuthenticate(k)
  BY DEF Handshake, SaslAuthenticate, RawAnswer
<1> QED BY <1>1, <1>2, <1>3

\* A stage of the authentication sends its request.
LEMMA AuthSendInv ==
    ASSUME ConnectionInv, QueueInv', ~LostHandshake' => ~LostHandshake,
           SendHandshake \/ SendSaslAuthenticate
    PROVE  ConnectionInv'
<1> USE DEF ConnectionInv
<1>1. round \in Rounds /\ authPc \in {"handshake", "authenticate"} /\ Sasl
  BY ConnectionAssumption
     DEF SendHandshake, SendSaslAuthenticate, AuthRound, ConnTypeOK, Rounds
<1>2. PICK q, next :
        /\ AuthSend(q, next)
        /\ \/ q = Handshake(round) /\ next = "handshaking" /\ authPc = "handshake"
           \/ /\ q = SaslAuthenticate(round) /\ next = "exchange"
              /\ supportAuthenticationProtocol
  BY DEF SendHandshake, SendSaslAuthenticate
<1>3. q \in Requests \ Calls
  BY <1>1, <1>2, AuthRequests
<1>4. /\ UNCHANGED <<connectionStatus, socket, phase, ended, pc, awaits, resuming,
                     authenticatedAt, round, authHandlers, rawAuth, proven, rx,
                     supportAuthenticationProtocol, disconnects, crossed>>
      /\ NoteLate(q) /\ NoteWrites
  BY <1>2 DEF AuthSend, netVars, callVars, raw
<1>5. \/ IsConnected /\ QueueTakes(q) /\ authPc' = next
      \/ ~IsConnected /\ authPc' = "failing" /\ UNCHANGED queueVars
  BY <1>2, <1>3, PushTakes DEF AuthSend
<1>6. WireUnanswered' /\ waiters' = waiters
  BY <1>5 DEF QueueTakes, queueVars, WireUnanswered
<1>7. /\ on' \in [Requests -> 0..MaxSockets]
      /\ broken' \subseteq Sockets
      /\ socket = 0 => broken' = broken
      /\ \A r \in Requests :
           \/ on'[r] = on[r]
           \/ on'[r] = socket /\ socket # 0 /\ state[r] \in {"new", "PENDING"}
              /\ state'[r] \in {"SENT", "COMPLETED"}
      /\ WrittenSomewhere'
  <2>1. UNCHANGED queueVars => QueueAdvances
    BY OperationsAdvance
  <2> QED BY <1>3, <1>4, <1>5, <2>1, WritesNoted
<1>8. /\ \A r \in Requests \ {q} : state'[r] = state[r]
      /\ \A r \in Calls : state'[r] = state[r] /\ on'[r] = on[r]
  <2>1. \A r \in Requests \ {q} : state'[r] = state[r]
    BY <1>5 DEF QueueTakes, queueVars
  <2>2. \A r \in Calls : r \in Requests \ {q}
    BY <1>3, ConnectionAssumption
  <2> QED BY <1>7, <2>1, <2>2
<1>9. late' = IF waiters \cup resuming # {} THEN late \cup {q} ELSE late
  BY <1>4 DEF NoteLate
<1>10. ConnTypeOK'
  BY <1>2, <1>3, <1>4, <1>5, <1>6, <1>7, <1>9 DEF ConnTypeOK
<1>11. FirstSocket'
  BY <1>4, <1>5, <1>7 DEF FirstSocket, IsConnected, queueVars, QueueEmpty
<1>12. AuthRound'
  <2>1. \A k \in Rounds : /\ Handshake(k) \in Requests
                          /\ SaslAuthenticate(k) \in Requests
                          /\ Handshake(k) = q => k = round /\ next = "handshaking"
                          /\ SaslAuthenticate(k) = q => /\ k = round
                                                        /\ supportAuthenticationProtocol
    BY <1>1, <1>2, AuthRequests
  <2>2. next # "idle" /\ authPc # "handshaking" /\ authPc # "idle"
    BY <1>1, <1>2
  <2>3. UNCHANGED queueVars => state' = state
    BY DEF queueVars
  <2> QED BY <1>4, <1>5, <1>8, <2>1, <2>2, <2>3 DEF AuthRound, Rounds, ConnTypeOK
<1>13. Drained'
  BY <1>4, <1>5, <1>6, <1>9 DEF Drained, IsConnected, queueVars, QueueEmpty
<1>14. OneSocket'
  BY <1>1, <1>4, <1>7, AuthRequests DEF OneSocket
<1>15. \A r \in Calls : Active(r)' <=> Active(r)
  BY <1>4, <1>8 DEF Active
<1>16. Undisturbed' => /\ Undisturbed
                       /\ waiters \cup resuming = {} 
  BY <1>4, <1>9 DEF Undisturbed
<1>17. ConnectingIsQuiet'
  BY <1>1, <1>2, <1>4, <1>5, <1>15, <1>16
     DEF ConnectingIsQuiet, IsConnected, Drained, ConnTypeOK
<1>18. ActiveIsAuthenticated'
  BY <1>4, <1>6, <1>15, <1>16 DEF ActiveIsAuthenticated
<1>19. RawExchangeIsAlone'
  BY <1>1, <1>2, <1>4, <1>5, <1>15, <1>16
     DEF RawExchangeIsAlone, ActiveIsAuthenticated, AuthRound, IsConnected, ConnTypeOK
<1>20. WritersAreProven' /\ AuthenticatedWrites'
  BY <1>1, <1>2, <1>4, <1>5, <1>8, <1>16
     DEF WritersAreProven, AuthenticatedWrites
<1> QED BY <1>6, <1>7, <1>10, <1>11, <1>12, <1>13, <1>14, <1>17, <1>18, <1>19, <1>20

\* send() pushes its request: it was let through because the socket is proven.
LEMMA PushInv ==
    ASSUME ConnectionInv, QueueInv', ~LostHandshake' => ~LostHandshake,
           NEW q \in Calls, Push(q)
    PROVE  ConnectionInv'
<1> USE DEF ConnectionInv
<1>1. q \in Requests /\ \A k \in Rounds : /\ Handshake(k) \in Requests \ {q}
                                          /\ SaslAuthenticate(k) \in Requests \ {q}
  BY ConnectionAssumption, AuthRequests
<1>2. /\ UNCHANGED <<connectionStatus, socket, phase, ended, awaits, resuming,
                     authenticatedAt, authPc, round, authHandlers, rawAuth, proven, rx,
                     supportAuthenticationProtocol, disconnects, crossed>>
      /\ pc[q] = "encoding" /\ NoteLate(q) /\ NoteWrites
  BY DEF Push, netVars, authVars, raw
<1>3. \/ IsConnected /\ QueueTakes(q) /\ pc' = [pc EXCEPT ![q] = "queued"]
      \/ ~IsConnected /\ UNCHANGED queueVars /\ pc' = [pc EXCEPT ![q] = "failed"]
  BY <1>1, PushTakes DEF Push
<1>4. WireUnanswered' /\ waiters' = waiters
  BY <1>3 DEF QueueTakes, queueVars, WireUnanswered
<1>5. /\ on' \in [Requests -> 0..MaxSockets]
      /\ broken' \subseteq Sockets
      /\ socket = 0 => broken' = broken
      /\ \A r \in Requests :
           \/ on'[r] = on[r]
           \/ on'[r] = socket /\ socket # 0 /\ state[r] \in {"new", "PENDING"}
              /\ state'[r] \in {"SENT", "COMPLETED"}
      /\ WrittenSomewhere'
  <2>1. UNCHANGED queueVars => QueueAdvances
    BY OperationsAdvance
  <2> QED BY <1>1, <1>2, <1>3, <2>1, WritesNoted
<1>6. /\ \A r \in Requests \ {q} : state'[r] = state[r] /\ on'[r] = on[r]
      /\ on'[q] \in {on[q], socket}
  <2>1. \A r \in Requests \ {q} : state'[r] = state[r]
    BY <1>3 DEF QueueTakes, queueVars
  <2> QED BY <1>1, <1>5, <2>1
<1>7. late' = IF waiters \cup resuming # {} THEN late \cup {q} ELSE late
  BY <1>2 DEF NoteLate
<1>8. ConnTypeOK'
  BY <1>1, <1>2, <1>3, <1>4, <1>5, <1>7 DEF ConnTypeOK
<1>9. FirstSocket'
  BY <1>2, <1>3, <1>5 DEF FirstSocket, IsConnected, queueVars, QueueEmpty
<1>10. AuthRound'
  BY <1>1, <1>2, <1>6 DEF AuthRound
<1>11. Drained'
  BY <1>2, <1>3, <1>4, <1>7 DEF Drained, IsConnected, queueVars, QueueEmpty
<1>12. OneSocket'
  <2>1. authPc # "idle" => round \in Rounds
    BY ConnectionAssumption DEF AuthRound, ConnTypeOK, Rounds
  <2> QED BY <1>1, <1>2, <1>6, <2>1 DEF OneSocket
<1>13. \A r \in Calls : Active(r)' => Active(r)
  BY <1>1, <1>2, <1>3, <1>6, ConnectionAssumption DEF Active, ConnTypeOK
<1>14. Undisturbed' => Undisturbed
  BY <1>2, <1>7 DEF Undisturbed
<1>15. ConnectingIsQuiet' /\ ActiveIsAuthenticated' /\ RawExchangeIsAlone'
  BY <1>2, <1>4, <1>13, <1>14
     DEF ConnectingIsQuiet, ActiveIsAuthenticated, RawExchangeIsAlone
<1>16. \A r \in Calls : pc'[r] = "encoding" \/ state'[r] = "PENDING"
                        => \E c \in Calls : pc[c] = "encoding" \/ state[c] = "PENDING"
  BY <1>2
<1>17. WritersAreProven'
  BY <1>2, <1>14, <1>16 DEF WritersAreProven
<1>18. AuthenticatedWrites'
  BY <1>2, <1>6, <1>14, ConnectionAssumption DEF WritersAreProven, AuthenticatedWrites
<1> QED BY <1>4, <1>5, <1>8, <1>9, <1>10, <1>11, <1>12, <1>15, <1>17, <1>18

\* The steps of the authentication that leave the queue alone.
LEMMA AuthStepsInv ==
    ASSUME ConnectionInv, QueueInv',
           \/ SendAuthRequest \/ AuthContinues \/ Authenticated
           \/ AuthenticationFails \/ SessionExpires
    PROVE  ConnectionInv'
<1> USE DEF ConnectionInv, queueVars, netVars, callVars, writeVars, authVars, raw, history
<1>1. authPc # "idle" => round \in Rounds
  BY ConnectionAssumption DEF AuthRound, ConnTypeOK, Rounds
<1>2. CASE SendAuthRequest
  <2> USE <1>2 DEF SendAuthRequest
  <2>1. ConnTypeOK'
    BY <1>1, ConnectionAssumption DEF ConnTypeOK, Rounds
  <2>2. FirstSocket' /\ WireUnanswered' /\ WrittenSomewhere'
    BY DEF FirstSocket, WireUnanswered, WrittenSomewhere, QueueEmpty
  <2>3. AuthRound' /\ Drained' /\ OneSocket'
    BY DEF AuthRound, Drained, OneSocket, QueueEmpty
  <2>4. ConnectingIsQuiet' /\ ActiveIsAuthenticated' /\ RawExchangeIsAlone'
    BY DEF ConnectingIsQuiet, ActiveIsAuthenticated, RawExchangeIsAlone, Active,
           Undisturbed
  <2>5. WritersAreProven' /\ AuthenticatedWrites'
    BY DEF WritersAreProven, AuthenticatedWrites, Undisturbed, LostHandshake
  <2> QED BY <2>1, <2>2, <2>3, <2>4, <2>5
<1>3. CASE AuthContinues
  <2>1. UNCHANGED <<queueVars, connectionStatus, netVars, callVars, resuming,
                   writeVars, authenticatedAt, round, authHandlers, rawAuth,
                   rx, supportAuthenticationProtocol, history>>
    BY <1>3 DEF AuthContinues
  <2>2. \/ /\ authPc \in {"handshaking", "exchange"} /\ authPc' = "failing"
           /\ proven' = proven
        \/ authPc = "handshaking" /\ authPc' = "authenticate" /\ proven' = proven
        \/ /\ authPc = "exchange" /\ authPc' = "verify" /\ supportAuthenticationProtocol
           /\ state[SaslAuthenticate(round)] = "COMPLETED"
           /\ proven' = proven \cup {on[SaslAuthenticate(round)]}
    BY <1>3 DEF AuthContinues, AuthAnswered, AuthAwaited, Settled
  <2>3. authPc' = "verify" =>
          /\ on[SaslAuthenticate(round)] \in Sockets
          /\ ~crossed => on[SaslAuthenticate(round)] = socket
    BY <1>1, <2>2, AuthRequests, ConnectionAssumption
       DEF WrittenSomewhere, OneSocket, ConnTypeOK, Sockets
  <2>4. ConnTypeOK'
    BY <2>1, <2>2, <2>3 DEF ConnTypeOK
  <2>5. FirstSocket' /\ WireUnanswered' /\ WrittenSomewhere'
    BY <2>1 DEF FirstSocket, WireUnanswered, WrittenSomewhere, QueueEmpty
  <2>6. Drained' /\ OneSocket'
    BY <2>1, <2>2 DEF Drained, OneSocket, QueueEmpty
  <2>7. AuthRound'
    <3>1. authPc = "handshaking" => state[Handshake(round)] \notin {"PENDING", "SENT"}
      BY <1>3 DEF AuthContinues, AuthAnswered, AuthAwaited, Settled
    <3> QED BY <2>1, <2>2, <3>1 DEF AuthRound
  <2>8. ConnectingIsQuiet' /\ ActiveIsAuthenticated' /\ RawExchangeIsAlone'
    BY <2>1, <2>2 DEF ConnectingIsQuiet, ActiveIsAuthenticated, RawExchangeIsAlone,
                      Active, Undisturbed
  <2>9. WritersAreProven' /\ AuthenticatedWrites'
    BY <2>1, <2>2, <2>3 DEF WritersAreProven, AuthenticatedWrites, Undisturbed,
                            LostHandshake
  <2> QED BY <2>4, <2>5, <2>6, <2>7, <2>8, <2>9
<1>4. CASE Authenticated \/ AuthenticationFails
  <2>1. /\ UNCHANGED <<queueVars, connectionStatus, netVars, awaits, resuming,
                       writeVars, round, raw, rx, supportAuthenticationProtocol, history>>
        /\ authPc # "idle" /\ authPc # "handshaking" /\ authPc' = "idle"
        /\ pc' \in [Calls -> {"idle", "connecting", "ready", "authenticating",
                              "encoding", "queued", "done", "failed"}]
        /\ \/ /\ authPc = "verify" /\ authenticatedAt' = "set"
           \/ /\ authenticatedAt' = authenticatedAt
              /\ \A r \in Calls : pc'[r] \in {pc[r], "failed"}
    BY <1>4 DEF Authenticated, AuthenticationFails, AfterAuthentication, ConnTypeOK
  <2>2. ConnTypeOK'
    BY <2>1 DEF ConnTypeOK
  <2>3. FirstSocket' /\ WireUnanswered' /\ WrittenSomewhere'
    BY <2>1 DEF FirstSocket, WireUnanswered, WrittenSomewhere, QueueEmpty
  <2>4. AuthRound' /\ Drained' /\ OneSocket'
    BY <2>1 DEF AuthRound, Drained, OneSocket, QueueEmpty
  <2>5. ConnectingIsQuiet' /\ ActiveIsAuthenticated' /\ RawExchangeIsAlone'
    BY <2>1 DEF ConnectingIsQuiet, ActiveIsAuthenticated, RawExchangeIsAlone, Active,
                Undisturbed
  <2>6. WritersAreProven' /\ AuthenticatedWrites'
    BY <2>1 DEF WritersAreProven, AuthenticatedWrites, Undisturbed, LostHandshake
  <2> QED BY <2>2, <2>3, <2>4, <2>5, <2>6
<1>5. CASE SessionExpires
  <2> USE <1>5 DEF SessionExpires
  <2>1. ConnTypeOK'
    BY DEF ConnTypeOK
  <2>2. FirstSocket' /\ WireUnanswered' /\ WrittenSomewhere'
    BY DEF FirstSocket, WireUnanswered, WrittenSomewhere, QueueEmpty
  <2>3. AuthRound' /\ Drained' /\ OneSocket'
    BY DEF AuthRound, Drained, OneSocket, QueueEmpty
  <2>4. ConnectingIsQuiet' /\ ActiveIsAuthenticated' /\ RawExchangeIsAlone'
    BY DEF ConnectingIsQuiet, ActiveIsAuthenticated, RawExchangeIsAlone, Active,
           Undisturbed
  <2>5. WritersAreProven' /\ AuthenticatedWrites'
    BY DEF WritersAreProven, AuthenticatedWrites, Undisturbed, LostHandshake
  <2> QED BY <2>1, <2>2, <2>3, <2>4, <2>5
<1> QED BY <1>2, <1>3, <1>4, <1>5

\* A callback in which the queue advances: requests go on to the socket that is
\* current, the waiters of an empty queue go on.
LEMMA AdvancesInv ==
    ASSUME ConnectionInv, QueueInv', ~LostHandshake' => ~LostHandshake,
           QueueAdvances, Wake({}), NoteWrites, waiters' \subseteq waiters,
           rx' \in 0..Misread,
           UNCHANGED <<connectionStatus, netVars, callVars, authenticatedAt, authVars,
                       history>>
    PROVE  ConnectionInv'
<1> USE DEF ConnectionInv, netVars, callVars, authVars, raw, history
<1>1. resuming' = resuming \cup (waiters \ waiters')
  BY DEF Wake
<1>2. /\ on' \in [Requests -> 0..MaxSockets]
      /\ broken' \subseteq Sockets
      /\ socket = 0 => broken' = broken
      /\ \A r \in Requests :
           \/ on'[r] = on[r]
           \/ on'[r] = socket /\ socket # 0 /\ state[r] \in {"new", "PENDING"}
              /\ state'[r] \in {"SENT", "COMPLETED"}
      /\ WrittenSomewhere'
  BY WritesNoted
<1>3. \A r \in Requests :
        /\ state[r] = "new" <=> state'[r] = "new"
        /\ state'[r] = "PENDING" => state[r] = "PENDING"
        /\ state'[r] = "SENT" => state[r] \in {"PENDING", "SENT"}
  BY DEF QueueAdvances
<1>4. ConnTypeOK'
  BY <1>1, <1>2 DEF ConnTypeOK, QueueInv, QueueTypeOK
<1>5. FirstSocket' /\ WireUnanswered'
  BY <1>1, <1>2 DEF FirstSocket, QueueAdvances
<1>6. AuthRound'
  <2>1. \A k \in Rounds : Handshake(k) \in Requests /\ SaslAuthenticate(k) \in Requests
    BY ConnectionAssumption
  <2> QED BY <1>3, <2>1 DEF AuthRound
<1>7. Drained'
  BY <1>1 DEF Drained, QueueAdvances
<1>8. OneSocket'
  <2>1. authPc # "idle" => round \in Rounds
    BY ConnectionAssumption DEF AuthRound, ConnTypeOK, Rounds
  <2> QED BY <1>2, <2>1, AuthRequests DEF OneSocket
<1>9. \A r \in Calls : Active(r)' => Active(r)
  BY <1>3, ConnectionAssumption DEF Active
<1>10. ConnectingIsQuiet' /\ ActiveIsAuthenticated' /\ RawExchangeIsAlone'
  BY <1>1, <1>9
     DEF ConnectingIsQuiet, ActiveIsAuthenticated, RawExchangeIsAlone, Undisturbed
<1>11. WritersAreProven'
  BY <1>3, ConnectionAssumption DEF WritersAreProven, Undisturbed
<1>12. AuthenticatedWrites'
  <2> SUFFICES ASSUME Sasl, Undisturbed', ~LostHandshake', NEW r \in Calls, on'[r] # 0
               PROVE  on'[r] \in proven'
    BY DEF AuthenticatedWrites
  <2>1. (r \in Requests /\ state[r] # "new") \/ on'[r] = on[r]
    BY <1>2, <1>3, ConnectionAssumption
  <2>2. CASE on'[r] = on[r]
    BY <2>2 DEF AuthenticatedWrites, Undisturbed
  <2>3. CASE on'[r] # on[r]
    <3>1. on'[r] = socket /\ state[r] = "PENDING"
      BY <1>2, <1>3, <2>3, ConnectionAssumption
    <3> QED BY <3>1 DEF WritersAreProven, Undisturbed
  <2> QED BY <2>2, <2>3
<1> QED BY <1>2, <1>4, <1>5, <1>6, <1>7, <1>8, <1>10, <1>11, <1>12

\* The timers of the queue.
LEMMA TimersInv ==
    ASSUME ConnectionInv, QueueInv', ~LostHandshake' => ~LostHandshake,
           \/ RequestTimeout
           \/ QueueTimer(CheckTimerFires) \/ QueueTimer(ThrottleExpires)
    PROVE  ConnectionInv'
<1>1. /\ Wake({}) /\ NoteWrites
      /\ UNCHANGED <<connectionStatus, netVars, callVars, authenticatedAt, authVars,
                     rx, history>>
  BY DEF RequestTimeout, QueueTimer
<1>2. /\ waiters' \subseteq waiters
      /\ \/ \E S \in SUBSET inflight, c \in BOOLEAN : TimeoutTick(S, c)
         \/ CheckTimerFires
         \/ ThrottleExpires
  <2>1. IsConnected \in BOOLEAN
    BY DEF IsConnected
  <2>2. \/ \E S \in SUBSET inflight, c \in BOOLEAN : TimeoutTick(S, c)
        \/ CheckTimerFires
        \/ ThrottleExpires
    BY <2>1 DEF RequestTimeout, QueueTimer
  <2> QED BY <2>2 DEF TimeoutTick, CheckTimerFires, ThrottleExpires, EmitQueueEmpty
<1>3. QueueAdvances
  BY <1>2, OperationsAdvance DEF ConnectionInv
<1>4. rx' \in 0..Misread
  BY <1>1 DEF ConnectionInv, ConnTypeOK
<1> QED BY <1>1, <1>2, <1>3, <1>4, AdvancesInv

\* A complete frame: for the handlers of an authentication, for a request, or
\* for nobody.
LEMMA DataInv ==
    ASSUME ConnectionInv, QueueInv', ~LostHandshake' => ~LostHandshake,
           NEW s \in Sockets, NEW q \in Answers(s), Data(s, q)
    PROVE  ConnectionInv'
<1> USE DEF ConnectionInv, netVars, callVars, raw, history
<1>1. /\ phase[s] = "open" /\ rx' = 0 /\ rx' \in 0..Misread /\ s # 0
      /\ UNCHANGED <<connectionStatus, netVars, callVars, authenticatedAt,
                     supportAuthenticationProtocol, history>>
  BY ConnectionAssumption DEF Data, Misread, Sockets
<1>2. \/ q = RawAnswer /\ rawAuth = s
      \/ q \in wire /\ on[q] = s /\ q \in Requests /\ q # RawAnswer
  BY ConnectionAssumption, AuthRequests DEF Answers, QueueInv, QueueTypeOK
<1>3. CASE authHandlers = 0 /\ q # RawAnswer
  <2>1. /\ FulfillRequest(q) /\ Wake({}) /\ NoteWrites
        /\ UNCHANGED <<authHandlers, authPc, round, proven, rawAuth>>
    BY <1>3 DEF Data
  <2>2. QueueAdvances
    BY <1>2, <1>3, <2>1, OperationsAdvance
  <2>3. waiters' \subseteq waiters
    BY <2>1 DEF FulfillRequest, EmitQueueEmpty
  <2> QED BY <1>1, <2>1, <2>2, <2>3, AdvancesInv DEF authVars
<1>4. CASE authHandlers # 0 \/ q = RawAnswer
  <2>1. UNCHANGED <<state, inflight, pending, wire, waiters, resuming, on, broken, round>>
    BY <1>4 DEF Data, ToAuthHandlers, queueVars, writeVars
  <2>2. /\ authHandlers' = 0
        /\ authPc' = authPc \/ (authPc = "exchange" /\ authPc' = "verify"
                                /\ authHandlers # 0)
        /\ rawAuth' \in {0, rawAuth}
        /\ proven' = proven \/ (q = RawAnswer /\ proven' = proven \cup {rawAuth})
        /\ authPc' # authPc /\ q = RawAnswer => proven' = proven \cup {rawAuth}
    BY <1>4 DEF Data, ToAuthHandlers
  <2>3. ConnTypeOK'
    BY <1>1, <1>2, <2>1, <2>2, ConnectionAssumption DEF ConnTypeOK
  <2>4. FirstSocket' /\ WireUnanswered' /\ WrittenSomewhere'
    BY <1>1, <2>1 DEF FirstSocket, WireUnanswered, WrittenSomewhere, QueueEmpty
  <2>5. AuthRound' /\ Drained' /\ OneSocket'
    BY <1>1, <2>1, <2>2 DEF AuthRound, Drained, OneSocket, QueueEmpty
  <2>6. ConnectingIsQuiet' /\ ActiveIsAuthenticated' /\ RawExchangeIsAlone'
    BY <1>1, <2>1, <2>2 DEF ConnectingIsQuiet, ActiveIsAuthenticated,
                            RawExchangeIsAlone, Active, Undisturbed
  <2>7. proven \subseteq proven'
    BY <2>2
  <2>8. Sasl /\ Undisturbed' /\ ~LostHandshake' /\ authPc' # authPc => socket \in proven'
    <3> SUFFICES ASSUME Sasl, Undisturbed', ~LostHandshake', authPc' # authPc
                 PROVE  socket \in proven'
      OBVIOUS
    <3>1. Undisturbed /\ ~LostHandshake /\ s = socket
      BY <1>1 DEF Undisturbed, OneSocket
    <3>2. authPc = "exchange" /\ ~supportAuthenticationProtocol
      BY <2>2 DEF AuthRound
    <3>3. CASE q = RawAnswer
      BY <1>2, <2>2, <3>1, <3>3
    <3>4. CASE q \in wire /\ on[q] = s
      <4>1. state[q] \in {"SENT", "REJECTED"}
        BY <3>4 DEF WireUnanswered
      <4>2. \A k \in Rounds : q # Handshake(k) /\ q # SaslAuthenticate(k)
        BY <3>1, <3>2, <4>1 DEF AuthRound, LostHandshake
      <4>3. q \in Calls
        BY <3>4, <4>2, ConnectionAssumption DEF QueueInv, QueueTypeOK
      <4> QED BY <1>1, <2>7, <3>1, <3>4, <4>3 DEF AuthenticatedWrites
    <3> QED BY <1>2, <3>3, <3>4
  <2>9. WritersAreProven' /\ AuthenticatedWrites'
    BY <1>1, <2>1, <2>7, <2>8 DEF WritersAreProven, AuthenticatedWrites, Undisturbed
  <2> QED BY <2>3, <2>4, <2>5, <2>6, <2>9
<1> QED BY <1>3, <1>4

\* A new connection satisfies the invariant.
LEMMA ConnectionInitInv == ConnectionInit => ConnectionInv
<1> SUFFICES ASSUME ConnectionInit PROVE ConnectionInv
  OBVIOUS
<1> USE DEF ConnectionInit
<1>1. QueueInv
  BY InitEstablishesInv
<1>2. state = [r \in Requests |-> "new"] /\ QueueEmpty /\ wire = {}
      /\ waiters = {}
  BY DEF RequestQueueInit, QueueEmpty
<1>3. Calls \subseteq Requests
  BY ConnectionAssumption
<1>4. ConnTypeOK
  <2>1. 0 \in 0..MaxSockets /\ 0 \in 0..MaxRounds /\ 0 \in 0..MaxDisconnects
        /\ 0 \in 0..round /\ 0 \in 0..Misread
    BY ConnectionAssumption DEF Misread
  <2>2. crossed \in BOOLEAN /\ supportAuthenticationProtocol \in BOOLEAN
    BY Zenon
  <2> QED BY <1>2, <2>1, <2>2 DEF ConnTypeOK
<1>5. FirstSocket /\ WireUnanswered /\ WrittenSomewhere
  BY <1>2 DEF FirstSocket, WireUnanswered, WrittenSomewhere
<1>6. AuthRound /\ Drained /\ OneSocket
  BY <1>2, AuthRequests DEF AuthRound, Drained, OneSocket
<1>7. ConnectingIsQuiet /\ ActiveIsAuthenticated /\ RawExchangeIsAlone
  BY <1>2, <1>3 DEF ConnectingIsQuiet, ActiveIsAuthenticated, RawExchangeIsAlone, Active
<1>8. WritersAreProven /\ AuthenticatedWrites
  BY <1>2, <1>3 DEF WritersAreProven, AuthenticatedWrites
<1> QED BY <1>1, <1>4, <1>5, <1>6, <1>7, <1>8 DEF ConnectionInv

\* Every step of the connection keeps the invariant.
LEMMA ConnectionNextInv ==
    ASSUME ConnectionInv, [ConnectionNext]_vars
    PROVE  ConnectionInv'
<1>1. QueueInv' /\ (~LostHandshake' => ~LostHandshake)
  BY DisturbedForGood
<1>2. ASSUME NEW r \in Calls,
             SendConnected(r) \/ Connect(r) \/ Send(r) \/ Push(r) \/ Decode(r)
      PROVE  ConnectionInv'
  BY <1>1, <1>2, SendConnectedInv, ConnectInv, SendInv, PushInv, DecodeInv
<1>3. ASSUME NEW s \in Sockets, OnConnect(s) \/ DataPart(s) \/ DataMisread(s)
      PROVE  ConnectionInv'
  BY <1>1, <1>3, OnConnectInv, DataPartInv
<1>4. ASSUME NEW s \in Sockets, NEW w \in Waiters,
             OnEnd(s, w) \/ OnError(s, w) \/ OnTimeout(s, w)
      PROVE  ConnectionInv'
  BY <1>1, <1>4, DisconnectingStepsInv
<1>5. ASSUME NEW w \in Waiters, Disconnect(w) \/ DisconnectResumes(w)
      PROVE  ConnectionInv'
  BY <1>1, <1>5, DisconnectingStepsInv, DisconnectResumesInv
<1>6. CASE SendHandshake \/ SendSaslAuthenticate
  BY <1>1, <1>6, AuthSendInv
<1>7. CASE \/ SendAuthRequest \/ AuthContinues \/ Authenticated
           \/ AuthenticationFails \/ SessionExpires
  BY <1>1, <1>7, AuthStepsInv
<1>8. ASSUME NEW s \in Sockets, NEW q \in Answers(s), Data(s, q)
      PROVE  ConnectionInv'
  BY <1>1, <1>8, DataInv
<1>9. CASE RequestTimeout \/ QueueTimer(CheckTimerFires) \/ QueueTimer(ThrottleExpires)
  BY <1>1, <1>9, TimersInv
<1>10. CASE UNCHANGED vars
  <2> USE <1>10 DEF ConnectionInv, vars, connVars, queueVars
  <2>1. ConnTypeOK' /\ FirstSocket' /\ WireUnanswered' /\ WrittenSomewhere'
    BY DEF ConnTypeOK, FirstSocket, WireUnanswered, WrittenSomewhere, QueueEmpty
  <2>2. AuthRound' /\ Drained' /\ OneSocket'
    BY DEF AuthRound, Drained, OneSocket, QueueEmpty
  <2>3. ConnectingIsQuiet' /\ ActiveIsAuthenticated' /\ RawExchangeIsAlone'
    BY DEF ConnectingIsQuiet, ActiveIsAuthenticated, RawExchangeIsAlone, Active,
           Undisturbed
  <2>4. WritersAreProven' /\ AuthenticatedWrites'
    BY DEF WritersAreProven, AuthenticatedWrites, Undisturbed, LostHandshake
  <2> QED BY <1>1, <2>1, <2>2, <2>3, <2>4
<1> QED BY <1>2, <1>3, <1>4, <1>5, <1>6, <1>7, <1>8, <1>9, <1>10 DEF ConnectionNext

-----------------------------------------------------------------------------
(***************************************************************************)
(* Theorems                                                                *)
(***************************************************************************)

\* The inductive invariant, for every number of calls, sockets, authentications
\* and disconnect() calls and every order of their callbacks.
THEOREM ConnectionInvariant == ConnectionSpec => []ConnectionInv
<1>1. ConnectionInv /\ [ConnectionNext]_vars => ConnectionInv'
  BY ConnectionNextInv
<1> QED BY ConnectionInitInv, <1>1, PTL DEF ConnectionSpec

\* The connection uses its queue only as RequestQueue allows: every behaviour of
\* the connection is one of the queue alone.
THEOREM ConnectionRefinesQueue == ConnectionSpec => ImplementsRequestQueue
<1>1. ConnectionInit => Queue!RequestQueueInit
  BY SameQueue DEF ConnectionInit
<1>2. ConnectionInv /\ [ConnectionNext]_vars
      => [Queue!RequestQueueNext]_(Queue!queueVars)
  <2>1. ASSUME ConnectionInv, [ConnectionNext]_vars PROVE [RequestQueueNext]_queueVars
    BY <2>1, QueueStep DEF ConnectionInv, QueueInv
  <2> QED BY <2>1, SameQueue DEF queueVars, Queue!queueVars
<1> QED BY <1>1, <1>2, ConnectionInvariant, PTL
        DEF ConnectionSpec, ImplementsRequestQueue, Queue!RequestQueueSpec

\* With SASL, undisturbed, no request is written to a socket on which the server
\* has not accepted the credentials.
THEOREM NoUnauthenticatedWrite == ConnectionSpec => []AuthenticatedWrites
<1>1. ConnectionInv => AuthenticatedWrites
  BY DEF ConnectionInv
<1> QED BY <1>1, ConnectionInvariant, PTL

\* While a raw SASL message awaits its answer nothing is in flight that
\* processData() could take for it.
THEOREM HandlersGetTheirAnswer == ConnectionSpec => []HandlersOwnAnswer
<1>1. ConnectionInv => HandlersOwnAnswer
  <2> SUFFICES ASSUME ConnectionInv, Undisturbed, authPc = "exchange",
                      authHandlers = round, NEW r \in inflight
               PROVE  FALSE
    BY DEF HandlersOwnAnswer
  <2> USE DEF ConnectionInv
  <2>1. ~supportAuthenticationProtocol
    BY DEF AuthRound
  <2>2. r \in Requests /\ state[r] = "SENT"
    BY DEF QueueInv, Accounting
  <2>3. r \notin Calls
    BY <2>1, <2>2 DEF RawExchangeIsAlone, Active
  <2>4. \A k \in Rounds : r # Handshake(k) /\ r # SaslAuthenticate(k)
    BY <2>1, <2>2 DEF AuthRound
  <2> QED BY <2>2, <2>3, <2>4, ConnectionAssumption
<1> QED BY <1>1, ConnectionInvariant, PTL

\* A connection is disconnected, its timers stopped, only with an empty queue.
THEOREM ClosesDrained == ConnectionSpec => []DrainedBeforeClose
<1>1. ConnectionInv => DrainedBeforeClose
  BY DEF ConnectionInv, DrainedBeforeClose, Drained, Undisturbed
<1> QED BY <1>1, ConnectionInvariant, PTL
=============================================================================

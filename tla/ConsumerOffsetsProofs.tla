------------------------ MODULE ConsumerOffsetsProofs ------------------------
(***************************************************************************)
(* Proofs about the offsets of a consumer, for every set of partitions,    *)
(* every log and every number of failures: the group never commits past a  *)
(* message no handler has completed, and a paused partition gets at most   *)
(* one message more.                                                       *)
(***************************************************************************)
EXTENDS ConsumerOffsets, NaturalsInduction, WellFoundedInduction,
        SequenceTheorems, TLAPS

-----------------------------------------------------------------------------
(* Positions                                                               *)

\* Record x of partition p needs no handler any more.
Settled(p, x) ==
    \/ x \in handled[p]
    \/ <<p, x>> \in Control
    \/ x < skippable[p]
    \/ x < logStart[p]

\* The offsets of each partition below which everything is settled: the ones
\* that may be committed.
Committable ==
    [p \in Partitions |->
        {None} \cup {o \in Int : \A x \in 0..(o - 1) : Settled(p, x)}]

Position == Int \cup {None}

\* What a request or a response may say of offsets.
OffsetMap == UNION {[D -> Position] : D \in SUBSET Partitions}

Actor == Partitions \cup {Runner}

Request ==
    [who : Actor, op : {"commit", "fetch", "join", "sync"}, offs : OffsetMap,
     gen : Position, heard : BOOLEAN]

Reply ==
    [who : Actor, ok : BOOLEAN, error : {"retry", "rebalance"}, gen : Position,
     offs : OffsetMap]

\* Type invariant of the part of the state the proofs need.
OffsetTypes ==
    /\ stage \in [Actor -> Stage]
    /\ after \in [Partitions -> {None, "top", "next", "retry", "rebalance"}]
    /\ fetchOffset \in [Partitions -> Position]
    /\ batch \in [Partitions -> SUBSET Nat]
    /\ message \in [Partitions -> Position]
    /\ assigned \subseteq Partitions
    /\ owned \subseteq Partitions
    /\ paused \in [Partitions -> BOOLEAN]
    /\ seekOffset \in [Partitions -> Position]
    /\ generation \in Position
    /\ groupGeneration \in Int
    /\ resolvedOffsets \in [Partitions -> Position]
    /\ committedOffsets \in [Partitions -> Position]
    /\ groupOffset \in [Partitions -> Position]
    /\ requests \in Seq(Request)
    /\ replies \in Seq(Reply)
    /\ logStart \in [Partitions -> Nat]
    /\ handled \in [Partitions -> SUBSET Int]
    /\ skippable \in [Partitions -> Int]
    /\ sincePause \in [Partitions -> Nat]

\* Every offset the member or the coordinator keeps may be committed.
PositionsOK ==
    \A p \in Partitions :
        /\ resolvedOffsets[p] \in Committable[p]
        /\ committedOffsets[p] \in Committable[p]
        /\ seekOffset[p] \in Committable[p]
        /\ groupOffset[p] \in Committable[p]
        /\ fetchOffset[p] \in Committable[p]

\* So may those on their way, whatever the coordinator or the member does with
\* them, and however late.
RequestsOK ==
    \A i \in DOMAIN requests : \A p \in DOMAIN requests[i].offs :
        requests[i].offs[p] \in Committable[p]

RepliesOK ==
    \A i \in DOMAIN replies : \A p \in DOMAIN replies[i].offs :
        replies[i].offs[p] \in Committable[p]

\* The loop of p has a batch it goes on with.
InBatch(p) ==
    \/ stage[p] \in {"queued", "next", "handler"}
    \/ stage[p] = "committing" /\ after[p] = "next"

\* Below a message of the batch there is nothing to do but what is in the batch
\* and the message in the handler, which has nothing to do below it.
BatchOK(p) ==
    /\ \A y \in batch[p] : \A x \in 0..(y - 1) :
          \/ x \in batch[p]
          \/ Settled(p, x)
          \/ stage[p] = "handler" /\ x = message[p]
    /\ stage[p] = "handler" => message[p] \in Committable[p]

LoopOK(p) ==
    /\ stage[p] = "fetching" => fetchOffset[p] \in Int
    /\ stage[p] = "queued" => /\ fetchOffset[p] \in Nat
                              /\ Records(fetchOffset[p]) # {}
                              /\ batch[p] = Messages(p, fetchOffset[p])
    /\ stage[p] = "handler" => message[p] \in Nat
    /\ InBatch(p) => BatchOK(p)

\* A paused partition that got a message since has no batch in the queue.
QuietOK ==
    \A p \in Partitions :
        /\ sincePause[p] <= 1
        /\ sincePause[p] > 0 => paused[p] /\ stage[p] # "queued"

OffsetsInv ==
    /\ OffsetTypes
    /\ PositionsOK
    /\ RequestsOK
    /\ RepliesOK
    /\ \A p \in Partitions : LoopOK(p)
    /\ QuietOK

-----------------------------------------------------------------------------
(* What the operators of the model do                                      *)

\* A set of offsets that is not empty has a least one: the library's minimum of
\* a well-founded relation, for < on the naturals.
LEMMA LeastExists ==
    ASSUME NEW S \in SUBSET Nat, S # {}
    PROVE  \E n \in S : \A m \in S : n <= m
<1>1. PICK m \in S : \A k \in S : <<k, m>> \notin OpToRel(<, Nat)
  BY WFMin, NatLessThanWellFounded, Zenon
<1>2. \A k \in S : ~(k < m)
  BY <1>1, Zenon DEF OpToRel
<1> QED
  BY <1>2

\* Min of a batch, the message Delivers takes, is its first message.
LEMMA MinIsFirst ==
    ASSUME NEW S \in SUBSET Nat, S # {}
    PROVE  Min(S) \in S /\ \A y \in S : Min(S) <= y
<1>1. \E n \in S : \A m \in S : n <= m
  BY LeastExists
<1> QED
  BY <1>1 DEF Min

\* The last record a fetch at offset o returns.
Last(o) == IF o + MaxBatch <= LogLen THEN o + MaxBatch - 1 ELSE LogLen - 1

\* The records of a fetch are an interval that begins at its offset, and Max is
\* its end.
LEMMA MaxIsLast ==
    ASSUME NEW o \in Int, Records(o) # {}
    PROVE  /\ Max(Records(o)) = Last(o)
           /\ Last(o) \in Int /\ o <= Last(o)
           /\ Records(o) = o..Last(o)
<1>1. MaxBatch \in Nat /\ LogLen \in Nat
  BY ConsumerOffsetsAssumption
<1>2. Last(o) \in Int /\ Records(o) = o..Last(o)
  BY <1>1 DEF Last, Records
<1>3. o <= Last(o)
  BY <1>2
<1>4. /\ Last(o) \in Records(o)
      /\ \A y \in Records(o) : Last(o) >= y
  BY <1>2, <1>3
<1>5. \A x \in Records(o) : (\A y \in Records(o) : x >= y) => x = Last(o)
  BY <1>2, <1>3, <1>4
<1>6. Max(Records(o)) = Last(o)
  BY <1>4, <1>5 DEF Max
<1> QED
  BY <1>2, <1>3, <1>6

\* Handlers complete, seeks skip and retention deletes; nothing takes it back.
Grows ==
    \A p \in Partitions : /\ handled[p] \subseteq handled'[p]
                          /\ skippable'[p] \in Int /\ skippable[p] <= skippable'[p]
                          /\ logStart'[p] \in Int /\ logStart[p] <= logStart'[p]

\* What is settled stays settled.
LEMMA SettledStays ==
    ASSUME OffsetTypes, Grows, NEW p \in Partitions, NEW x \in Int, Settled(p, x)
    PROVE  Settled(p, x)'
<1>1. skippable[p] \in Int /\ logStart[p] \in Int
  BY DEF OffsetTypes
<1> QED
  BY <1>1 DEF Grows, Settled

\* An offset that may be committed may be committed later too.
LEMMA CommittableStays ==
    ASSUME OffsetTypes, Grows
    PROVE  \A p \in Partitions : Committable[p] \subseteq Committable'[p]
<1>1. SUFFICES ASSUME NEW p \in Partitions, NEW o \in Committable[p]
               PROVE  o \in Committable'[p]
  OBVIOUS
<1>2. CASE o = None
  BY <1>2 DEF Committable
<1>3. CASE o \in Int /\ \A x \in 0..(o - 1) : Settled(p, x)
  <2>1. \A x \in 0..(o - 1) : Settled(p, x)'
    BY <1>3, SettledStays
  <2> QED
    BY <1>3, <2>1 DEF Committable
<1> QED
  BY <1>2, <1>3 DEF Committable

\* An offset that may be committed, or none.
LEMMA CommittableType ==
    \A p \in Partitions : /\ Committable[p] \subseteq Position
                          /\ None \in Committable[p]
                          /\ Committable[p] \ {None} \subseteq Int
  BY DEF Committable, Position

\* A log that has not changed leaves the positions as they are.
LEMMA CommittableSame ==
    ASSUME handled' = handled, skippable' = skippable, logStart' = logStart
    PROVE  Committable' = Committable
  BY DEF Committable, Settled

\* No new records are settled by a step that leaves the log and the history.
LEMMA GrowsSame ==
    ASSUME OffsetTypes, handled' = handled, skippable' = skippable, logStart' = logStart
    PROVE  Grows
  BY DEF Grows, OffsetTypes
\* The positions of a step are at least those before it.
PositionsStay == \A p \in Partitions : Committable[p] \subseteq Committable'[p]

\* offs are offsets that may be committed after the step.
Carries(offs) == offs \in OffsetMap /\ \A p \in DOMAIN offs : offs[p] \in Committable'[p]

\* A request without offsets, as of joinAndSync().
LEMMA CarriesNothing == Carries(<<>>)
<1>1. <<>> \in [{} -> Position]
  OBVIOUS
<1>2. <<>> \in OffsetMap
  BY <1>1 DEF OffsetMap
<1> QED
  BY <1>2 DEF Carries

\* A map from some partitions to positions of them.
LEMMA CarriesMap ==
    ASSUME NEW D \in SUBSET Partitions, NEW f \in [D -> Position],
           \A p \in D : f[p] \in Committable'[p]
    PROVE  Carries(f)
  BY DEF Carries, OffsetMap

\* A map that carries offsets has its partitions as its domain.
LEMMA CarriesShape ==
    ASSUME NEW f \in OffsetMap
    PROVE  DOMAIN f \subseteq Partitions /\ f \in [DOMAIN f -> Position]
  BY DEF OffsetMap

\* A request that is sent carries what may be committed.
LEMMA SendsKeeps ==
    ASSUME OffsetTypes, RequestsOK, PositionsStay,
           NEW a \in Actor, NEW op \in {"commit", "fetch", "join", "sync"},
           NEW offs, Carries(offs), NEW g \in Position, Sends(a, op, offs, g)
    PROVE  requests' \in Seq(Request) /\ RequestsOK'
<1> DEFINE r == [who |-> a, op |-> op, offs |-> offs, gen |-> g, heard |-> TRUE]
<1>1. r \in Request /\ r.offs = offs
  BY DEF Request, Carries
<1>2. requests \in Seq(Request) /\ requests' = Append(requests, r)
  BY DEF OffsetTypes, Sends
<1> HIDE DEF r
<1>3. requests' \in Seq(Request)
  BY <1>1, <1>2
<1>4. SUFFICES ASSUME NEW i \in DOMAIN requests', NEW p \in DOMAIN requests'[i].offs
               PROVE  requests'[i].offs[p] \in Committable'[p]
  BY <1>3 DEF RequestsOK
<1>5. CASE i \in DOMAIN requests
  <2>1. requests'[i] = requests[i] /\ requests[i] \in Request
    BY <1>2, <1>5
  <2>2. requests[i].offs \in OffsetMap
    BY <2>1 DEF Request
  <2>3. p \in Partitions
    BY <1>4, <2>1, <2>2, CarriesShape
  <2> QED
    BY <1>4, <1>5, <2>1, <2>3 DEF RequestsOK, PositionsStay
<1>6. CASE i = Len(requests) + 1
  BY <1>1, <1>2, <1>4, <1>6 DEF Carries
<1> QED
  BY <1>2, <1>4, <1>5, <1>6

\* The oldest response is taken; its offsets may be committed, and may still be
\* after the step.
LEMMA TakesKeeps ==
    ASSUME OffsetTypes, RepliesOK, PositionsStay, NEW a \in Actor, Answered(a), Takes
    PROVE  /\ replies' \in Seq(Reply) /\ RepliesOK'
           /\ Head(replies) \in Reply
           /\ Carries(Head(replies).offs)
           /\ \A p \in DOMAIN Head(replies).offs :
                 p \in Partitions /\ Head(replies).offs[p] \in Committable[p]
<1>1. replies \in Seq(Reply) /\ replies # <<>> /\ replies' = Tail(replies)
  BY DEF OffsetTypes, Answered, Takes
<1>2. /\ replies' \in Seq(Reply) /\ Head(replies) \in Reply
      /\ 1 \in DOMAIN replies /\ Head(replies) = replies[1]
  BY <1>1
<1>3. Head(replies).offs \in OffsetMap
  BY <1>2 DEF Reply
<1>4. \A p \in DOMAIN Head(replies).offs :
         p \in Partitions /\ Head(replies).offs[p] \in Committable[p]
  BY <1>2, <1>3, CarriesShape DEF RepliesOK
<1>5. Carries(Head(replies).offs)
  BY <1>3, <1>4 DEF Carries, PositionsStay
<1>6. RepliesOK'
  <2>1. SUFFICES ASSUME NEW i \in DOMAIN replies', NEW p \in DOMAIN replies'[i].offs
                 PROVE  replies'[i].offs[p] \in Committable'[p]
    BY DEF RepliesOK
  <2>2. i + 1 \in DOMAIN replies /\ replies'[i] = replies[i + 1] /\ replies[i + 1] \in Reply
    BY <1>1, <2>1
  <2>3. replies[i + 1].offs \in OffsetMap
    BY <2>2 DEF Reply
  <2>4. p \in Partitions
    BY <2>1, <2>2, <2>3, CarriesShape
  <2> QED
    BY <2>1, <2>2, <2>4 DEF RepliesOK, PositionsStay
<1> QED
  BY <1>2, <1>4, <1>5, <1>6

\* Nothing is sent.
LEMMA RequestsKept ==
    ASSUME OffsetTypes, RequestsOK, PositionsStay, requests' = requests
    PROVE  requests' \in Seq(Request) /\ RequestsOK'
<1>1. requests \in Seq(Request)
  BY DEF OffsetTypes
<1>2. SUFFICES ASSUME NEW i \in DOMAIN requests, NEW p \in DOMAIN requests[i].offs
               PROVE  requests[i].offs[p] \in Committable'[p]
  BY <1>1 DEF RequestsOK
<1>3. requests[i] \in Request
  BY <1>1
<1>4. requests[i].offs \in OffsetMap
  BY <1>3 DEF Request
<1>5. p \in Partitions
  BY <1>2, <1>4, CarriesShape
<1> QED
  BY <1>2, <1>5 DEF RequestsOK, PositionsStay

\* No response is taken.
LEMMA RepliesKept ==
    ASSUME OffsetTypes, RepliesOK, PositionsStay, replies' = replies
    PROVE  replies' \in Seq(Reply) /\ RepliesOK'
<1>1. replies \in Seq(Reply)
  BY DEF OffsetTypes
<1>2. SUFFICES ASSUME NEW i \in DOMAIN replies, NEW p \in DOMAIN replies[i].offs
               PROVE  replies[i].offs[p] \in Committable'[p]
  BY <1>1 DEF RepliesOK
<1>3. replies[i] \in Reply
  BY <1>1
<1>4. replies[i].offs \in OffsetMap
  BY <1>3 DEF Reply
<1>5. p \in Partitions
  BY <1>2, <1>4, CarriesShape
<1> QED
  BY <1>2, <1>5 DEF RepliesOK, PositionsStay
\* The loop of p has ended its batch, or goes on with it if next is "next";
\* the other loops are where they were.
Lands(p, next) ==
    /\ stage' \in [Actor -> Stage]
    /\ after' \in [Partitions -> {None, "top", "next", "retry", "rebalance"}]
    /\ \A q \in Actor \ {p} : stage'[q] = stage[q]
    /\ \A q \in Partitions \ {p} : after'[q] = after[q]
    /\ stage'[p] \notin {"queued", "fetching", "handler"}
    /\ InBatch(p)' => next = "next"

\* GoesOn moves the loop of p only.
LEMMA GoesOnLands ==
    ASSUME OffsetTypes, NEW p \in Partitions, NEW next, GoesOn(p, next), after' = after
    PROVE  Lands(p, next)
<1>1. /\ stage \in [Actor -> Stage] /\ p \in Actor
      /\ after \in [Partitions -> {None, "top", "next", "retry", "rebalance"}]
  BY DEF OffsetTypes, Actor
<1>2. \E s \in {"top", "next", "ended"} :
         stage' = [stage EXCEPT ![p] = s] /\ (s = "next" => next = "next")
  BY DEF GoesOn, Iterates, Moves, LoopFails
<1> QED
  BY <1>1, <1>2 DEF Lands, InBatch, Stage

\* A commit of the resolved offsets carries only what may be committed.
LEMMA AutoCommitLands ==
    ASSUME OffsetTypes, RequestsOK, PositionsStay, NEW p \in Partitions,
           NEW resolved \in [Partitions -> Position],
           \A q \in Partitions : resolved[q] \in Committable'[q],
           NEW next \in {"top", "next", "retry", "rebalance"},
           AutoCommitOffsets(p, resolved, next)
    PROVE  Lands(p, next) /\ requests' \in Seq(Request) /\ RequestsOK'
<1> DEFINE offs == UncommittedOffsets(resolved, committedOffsets)
           D == {q \in Partitions : resolved[q] # None /\ resolved[q] # committedOffsets[q]}
<1>1. offs = [q \in D |-> resolved[q]]
  BY DEF UncommittedOffsets, Restrict
<1>2. Carries(offs)
  <2>1. offs \in [D -> Position] /\ \A q \in D : offs[q] \in Committable'[q]
    BY <1>1
  <2> QED
    BY <2>1, CarriesMap
<1>3. p \in Actor /\ generation \in Position
  BY DEF OffsetTypes, Actor
<1>4. CASE autoCommit /\ DOMAIN offs # {}
  <2>1. /\ Sends(p, "commit", offs, generation)
        /\ stage' = [stage EXCEPT ![p] = "committing"]
        /\ after' = [after EXCEPT ![p] = next]
    BY <1>4 DEF AutoCommitOffsets, Moves
  <2>2. Lands(p, next)
    BY <1>3, <2>1 DEF OffsetTypes, Lands, InBatch, Stage
  <2> HIDE DEF offs
  <2>3. requests' \in Seq(Request) /\ RequestsOK'
    BY <1>2, <1>3, <2>1, SendsKeeps
  <2> QED
    BY <2>2, <2>3
<1>5. CASE ~(autoCommit /\ DOMAIN offs # {})
  <2>1. GoesOn(p, next) /\ after' = after /\ requests' = requests
    BY <1>5 DEF AutoCommitOffsets
  <2> QED
    BY <2>1, GoesOnLands, RequestsKept
<1> QED
  BY <1>4, <1>5

\* The fetch goes out, waits for offsets, or the loop begins again; all with
\* offsets that may be committed.
Fetches(p) ==
    /\ stage' \in [Actor -> Stage]
    /\ \A q \in Actor \ {p} : stage'[q] = stage[q]
    /\ stage'[p] \in {"fetching", "resolving", "top"}
    /\ fetchOffset' \in [Partitions -> Position]
    /\ \A q \in Partitions \ {p} : fetchOffset'[q] = fetchOffset[q]
    /\ stage'[p] = "fetching" => fetchOffset'[p] \in Int
    /\ resolvedOffsets' \in [Partitions -> Position]
    /\ \A q \in Partitions : /\ fetchOffset'[q] \in Committable'[q]
                             /\ resolvedOffsets'[q] \in Committable'[q]

\* The offset of a fetch request is one that may be committed.
LEMMA RequestsFetchFetches ==
    ASSUME OffsetTypes, PositionsOK, PositionsStay, NEW p \in Partitions,
           NEW resolved \in [Partitions -> Position],
           NEW committed \in [Partitions -> Position],
           \A q \in Partitions : /\ resolved[q] \in Committable'[q]
                                 /\ committed[q] \in Committable'[q],
           RequestsFetch(p, resolved, committed)
    PROVE  Fetches(p)
<1>1. /\ stage \in [Actor -> Stage] /\ p \in Actor
      /\ fetchOffset \in [Partitions -> Position]
  BY DEF OffsetTypes, Actor
<1>2. \A q \in Partitions : fetchOffset[q] \in Committable'[q]
  BY DEF PositionsOK, PositionsStay
<1>3. CASE committed[p] # None /\ p \in assigned /\ ~paused[p]
  <2> DEFINE n == NextOffset(p, resolved, committed)
  <2>1. n \in Committable'[p] /\ n \in Position /\ n # None
    BY <1>3 DEF NextOffset
  <2>2. n \in Int
    BY <2>1 DEF Position
  <2>3. /\ stage' = [stage EXCEPT ![p] = "fetching"]
        /\ fetchOffset' = [fetchOffset EXCEPT ![p] = n]
        /\ resolvedOffsets' = [resolved EXCEPT ![p] = n]
    BY <1>3 DEF RequestsFetch, Moves
  <2> HIDE DEF n
  <2> QED
    BY <1>1, <1>2, <2>1, <2>2, <2>3 DEF Fetches, Stage
<1>4. CASE ~(committed[p] # None /\ p \in assigned /\ ~paused[p])
  <2>1. /\ stage' = [stage EXCEPT ![p] = "top"]
        /\ fetchOffset' = fetchOffset
        /\ resolvedOffsets' = resolved
    BY <1>4 DEF RequestsFetch, Moves, Iterates
  <2> QED
    BY <1>1, <1>2, <2>1 DEF Fetches, Stage
<1> QED
  BY <1>3, <1>4

\* So it is when the offsets are asked from the coordinator first.
LEMMA ResolveOffsetsFetches ==
    ASSUME OffsetTypes, PositionsOK, RequestsOK, PositionsStay, NEW p \in Partitions,
           NEW resolved \in [Partitions -> Position],
           NEW committed \in [Partitions -> Position],
           \A q \in Partitions : /\ resolved[q] \in Committable'[q]
                                 /\ committed[q] \in Committable'[q],
           ResolveOffsets(p, resolved, committed)
    PROVE  /\ Fetches(p) /\ requests' \in Seq(Request) /\ RequestsOK'
           /\ committedOffsets' = committed
<1> DEFINE pending == {x \in assigned : IsInvalidOffset(committed[x])}
<1>1. CASE pending = {}
  <2>1. RequestsFetch(p, resolved, committed) /\ requests' = requests
        /\ committedOffsets' = committed
    BY <1>1 DEF ResolveOffsets
  <2> QED
    BY <2>1, RequestsFetchFetches, RequestsKept
<1>2. CASE pending # {}
  <2>1. /\ resolvedOffsets' = resolved /\ committedOffsets' = committed
        /\ Sends(p, "fetch", [x \in pending |-> None], generation)
        /\ stage' = [stage EXCEPT ![p] = "resolving"]
        /\ fetchOffset' = fetchOffset
    BY <1>2 DEF ResolveOffsets, Moves
  <2>2. /\ stage \in [Actor -> Stage] /\ p \in Actor /\ generation \in Position
        /\ fetchOffset \in [Partitions -> Position] /\ pending \subseteq Partitions
    BY DEF OffsetTypes, Actor
  <2>3. \A q \in Partitions : fetchOffset[q] \in Committable'[q]
    BY DEF PositionsOK, PositionsStay
  <2>4. Fetches(p)
    BY <2>1, <2>2, <2>3 DEF Fetches, Stage
  <2> HIDE DEF pending
  <2>5. [x \in pending |-> None] \in [pending -> Position]
    BY DEF Position
  <2>6. \A x \in pending : [y \in pending |-> None][x] \in Committable'[x]
    BY <2>2 DEF Committable
  <2>7. Carries([x \in pending |-> None])
    BY <2>2, <2>5, <2>6, CarriesMap
  <2>8. requests' \in Seq(Request) /\ RequestsOK'
    BY <2>1, <2>2, <2>7, SendsKeeps
  <2> QED
    BY <2>1, <2>4, <2>8
<1> QED
  BY <1>1, <1>2

\* The loop of q is where it was, with the batch it had.
LoopKept(q) ==
    /\ stage'[q] = stage[q]
    /\ after'[q] = after[q]
    /\ fetchOffset'[q] = fetchOffset[q]
    /\ batch'[q] = batch[q]
    /\ message'[q] = message[q]

\* A loop that is left alone stays as it should be: what the others complete,
\* skip or delete can only help it.
LEMMA LoopStays ==
    ASSUME OffsetTypes, Grows, NEW q \in Partitions, LoopKept(q), LoopOK(q)
    PROVE  LoopOK(q)'
<1>1. /\ batch[q] \subseteq Nat
      /\ PositionsStay
  BY CommittableStays DEF OffsetTypes, PositionsStay
<1>2. \A x \in Int : Settled(q, x) => Settled(q, x)'
  BY SettledStays
<1>3. InBatch(q)' => InBatch(q)
  BY DEF LoopKept, InBatch
<1>4. BatchOK(q) => BatchOK(q)'
  <2>1. HAVE BatchOK(q)
  <2>2. stage'[q] = "handler" => message'[q] \in Committable'[q]
    BY <1>1, <2>1 DEF BatchOK, LoopKept, PositionsStay
  <2>3. ASSUME NEW y \in batch'[q], NEW x \in 0..(y - 1)
        PROVE  \/ x \in batch'[q]
               \/ Settled(q, x)'
               \/ stage'[q] = "handler" /\ x = message'[q]
    BY <1>1, <1>2, <2>1, <2>3 DEF BatchOK, LoopKept
  <2> QED
    BY <2>2, <2>3 DEF BatchOK
<1> QED
  BY <1>3, <1>4 DEF LoopOK, LoopKept, Records, Messages

\* A loop outside fetches and batches has nothing to show.
LEMMA LoopElsewhere ==
    ASSUME NEW p \in Partitions, stage'[p] \notin {"fetching", "queued", "handler"},
           ~InBatch(p)'
    PROVE  LoopOK(p)'
  BY DEF LoopOK

\* A pause stays quiet in a step that puts nothing into the queue.
LEMMA QuietStays ==
    ASSUME QuietOK, paused' = paused, sincePause' = sincePause,
           \A q \in Partitions : stage'[q] = "queued" => stage[q] = "queued"
    PROVE  QuietOK'
  BY DEF QuietOK
-----------------------------------------------------------------------------
(* The invariant                                                           *)

\* At the start nothing is known and nothing on its way.
LEMMA OffsetsInit == Init => OffsetsInv
<1> SUFFICES ASSUME Init PROVE OffsetsInv
  OBVIOUS
<1>1. OffsetTypes
  BY DEF Init, OffsetTypes, Actor, Stage, Position
<1>2. PositionsOK
  BY DEF Init, PositionsOK, Committable
<1>3. RequestsOK /\ RepliesOK
  BY DEF Init, RequestsOK, RepliesOK
<1>4. \A p \in Partitions : stage[p] = "top"
  BY ConsumerOffsetsAssumption DEF Init
<1>5. \A p \in Partitions : LoopOK(p)
  BY <1>4 DEF LoopOK, InBatch
<1>6. QuietOK
  BY DEF Init, QuietOK
<1> QED
  BY <1>1, <1>2, <1>3, <1>5, <1>6 DEF OffsetsInv

\* What a step of the loop of p must show.
LEMMA LoopStepKeeps ==
    ASSUME OffsetsInv, NEW p \in Partitions, Grows, OffsetTypes', PositionsOK',
           RequestsOK', RepliesOK', QuietOK', LoopOK(p)',
           \A q \in Partitions \ {p} : LoopKept(q)
    PROVE  OffsetsInv'
<1>1. \A q \in Partitions \ {p} : LoopOK(q)'
  BY LoopStays DEF OffsetsInv
<1> QED
  BY <1>1 DEF OffsetsInv

\* The log and the history of the handlers are as they were.
LogKept == handled' = handled /\ skippable' = skippable /\ logStart' = logStart

\* Then the positions stay.
LEMMA LogKeptGrows ==
    ASSUME OffsetsInv, LogKept
    PROVE  Grows /\ PositionsStay
  BY GrowsSame, CommittableStays DEF OffsetsInv, LogKept, PositionsStay

\* The part of the state that a fetch loop does not change.
EnvironmentKept ==
    /\ LogKept
    /\ assigned' = assigned /\ owned' = owned
    /\ generation' = generation /\ groupGeneration' = groupGeneration
    /\ groupOffset' = groupOffset /\ paused' = paused

\* A loop that fetches, or asks for the offsets to fetch from.
LEMMA FetchKeeps ==
    ASSUME OffsetsInv, NEW p \in Partitions, EnvironmentKept, sincePause' = sincePause,
           Fetches(p), after' = after, batch' = batch, message' = message,
           seekOffset' \in [Partitions -> Position],
           \A q \in Partitions : seekOffset'[q] \in Committable'[q],
           committedOffsets' \in [Partitions -> Position],
           \A q \in Partitions : committedOffsets'[q] \in Committable'[q],
           requests' \in Seq(Request), RequestsOK', replies' \in Seq(Reply), RepliesOK'
    PROVE  OffsetsInv'
<1>1. Grows /\ PositionsStay
  BY LogKeptGrows DEF EnvironmentKept
<1>2. OffsetTypes'
  BY DEF OffsetsInv, OffsetTypes, EnvironmentKept, LogKept, Fetches
<1>3. PositionsOK'
  BY <1>1 DEF OffsetsInv, PositionsOK, PositionsStay, EnvironmentKept, Fetches
<1>4. p \in Actor /\ \A q \in Partitions : q \in Actor
  BY DEF Actor
<1>5. \A q \in Partitions \ {p} : LoopKept(q)
  BY <1>4 DEF LoopKept, Fetches
<1>6. LoopOK(p)'
  BY DEF LoopOK, InBatch, Fetches
<1>7. QuietOK'
  BY <1>4, QuietStays DEF OffsetsInv, EnvironmentKept, Fetches
<1> QED
  BY <1>1, <1>2, <1>3, <1>5, <1>6, <1>7, LoopStepKeeps

\* fetch() up to its first request.
LEMMA FetchBeginsKeeps ==
    ASSUME OffsetsInv, NEW p \in Partitions, FetchBegins(p)
    PROVE  OffsetsInv'
<1> DEFINE seek == IF p \in assigned THEN seekOffset[p] ELSE None
<1>1. /\ EnvironmentKept /\ sincePause' = sincePause
      /\ after' = after /\ batch' = batch /\ message' = message /\ replies' = replies
  BY DEF FetchBegins, EnvironmentKept, LogKept, groupVars, coordVars, ghostVars
<1>2. Grows /\ PositionsStay
  BY <1>1, LogKeptGrows DEF EnvironmentKept
<1>3. replies' \in Seq(Reply) /\ RepliesOK'
  BY <1>1, <1>2, RepliesKept DEF OffsetsInv
<1>4. \A q \in Partitions : /\ resolvedOffsets[q] \in Committable'[q]
                            /\ committedOffsets[q] \in Committable'[q]
                            /\ seekOffset[q] \in Committable'[q]
  BY <1>2 DEF OffsetsInv, PositionsOK, PositionsStay
<1>5. /\ seekOffset \in [Partitions -> Position]
      /\ resolvedOffsets \in [Partitions -> Position]
      /\ committedOffsets \in [Partitions -> Position]
      /\ stage \in [Actor -> Stage] /\ p \in Actor /\ generation \in Position
  BY DEF OffsetsInv, OffsetTypes, Actor
<1>6. /\ seekOffset' \in [Partitions -> Position]
      /\ \A q \in Partitions : seekOffset'[q] \in Committable'[q]
  <2>1. seekOffset' = seekOffset \/ seekOffset' = [seekOffset EXCEPT ![p] = None]
    BY DEF FetchBegins, Cleared
  <2>2. None \in Committable'[p] /\ None \in Position
    BY DEF Committable, Position
  <2> QED
    BY <1>4, <1>5, <2>1, <2>2
<1>7. seek \in Committable'[p] /\ seek \in Position
  BY <1>4, <1>5 DEF Committable, Position
<1>8. CASE ResolveOffsets(p, resolvedOffsets, committedOffsets)
  <2>1. /\ Fetches(p) /\ requests' \in Seq(Request) /\ RequestsOK'
        /\ committedOffsets' = committedOffsets
    BY <1>2, <1>4, <1>5, <1>8, ResolveOffsetsFetches DEF OffsetsInv
  <2> QED
    BY <1>1, <1>3, <1>4, <1>5, <1>6, <2>1, FetchKeeps
<1>9. CASE ResolveOffsets(p, [resolvedOffsets EXCEPT ![p] = seek], committedOffsets)
  <2> DEFINE resolved == [resolvedOffsets EXCEPT ![p] = seek]
  <2>1. /\ resolved \in [Partitions -> Position]
        /\ \A q \in Partitions : resolved[q] \in Committable'[q]
    BY <1>4, <1>5, <1>7
  <2>2. ResolveOffsets(p, resolved, committedOffsets)
    BY <1>9
  <2> HIDE DEF resolved
  <2>3. /\ Fetches(p) /\ requests' \in Seq(Request) /\ RequestsOK'
        /\ committedOffsets' = committedOffsets
    BY <1>2, <1>4, <1>5, <2>1, <2>2, ResolveOffsetsFetches DEF OffsetsInv
  <2> QED
    BY <1>1, <1>3, <1>4, <1>5, <1>6, <2>3, FetchKeeps
<1>10. CASE /\ Sends(p, "commit", [x \in {p} |-> seek], generation)
            /\ Moves(p, "seeking")
            /\ UNCHANGED <<fetchOffset, offsetVars>>
  <2> DEFINE offs == [x \in {p} |-> seek]
  <2> HIDE DEF seek
  <2>1. offs \in [{p} -> Position] /\ \A x \in {p} : offs[x] \in Committable'[x]
    BY <1>7
  <2>2. Carries(offs)
    BY <2>1, CarriesMap
  <2>3. /\ Sends(p, "commit", offs, generation)
        /\ stage' = [stage EXCEPT ![p] = "seeking"]
        /\ fetchOffset' = fetchOffset
        /\ resolvedOffsets' = resolvedOffsets /\ committedOffsets' = committedOffsets
    BY <1>10 DEF Moves, offsetVars
  <2> HIDE DEF offs
  <2>4. requests' \in Seq(Request) /\ RequestsOK'
    BY <1>2, <1>5, <2>2, <2>3, SendsKeeps DEF OffsetsInv
  <2>5. OffsetTypes'
    BY <1>1, <1>3, <1>5, <1>6, <2>3, <2>4
       DEF OffsetsInv, OffsetTypes, EnvironmentKept, LogKept, Stage
  <2>6. PositionsOK'
    BY <1>1, <1>2, <1>4, <1>6, <2>3
       DEF OffsetsInv, PositionsOK, PositionsStay, EnvironmentKept
  <2>7. /\ stage'[p] = "seeking" /\ \A q \in Partitions \ {p} : stage'[q] = stage[q]
    BY <1>5, <2>3 DEF Actor
  <2>8. \A q \in Partitions \ {p} : LoopKept(q)
    BY <1>1, <2>3, <2>7 DEF LoopKept
  <2>9. LoopOK(p)'
    BY <2>7 DEF LoopOK, InBatch
  <2>10. QuietOK'
    BY <1>1, <2>7, QuietStays DEF OffsetsInv, EnvironmentKept
  <2> QED
    BY <1>2, <1>3, <2>4, <2>5, <2>6, <2>8, <2>9, <2>10, LoopStepKeeps
<1> QED
  BY <1>8, <1>9, <1>10 DEF FetchBegins
\* A step of the loop of p leaves the batches of the others.
OwnBatchOnly(p) ==
    /\ fetchOffset' \in [Partitions -> Position]
    /\ batch' \in [Partitions -> SUBSET Nat]
    /\ message' \in [Partitions -> Position]
    /\ \A q \in Partitions \ {p} : /\ fetchOffset'[q] = fetchOffset[q]
                                   /\ batch'[q] = batch[q]
                                   /\ message'[q] = message[q]
    /\ fetchOffset'[p] \in Committable'[p]

\* The offset manager knows offsets that may be committed.
OffsetsGood ==
    /\ resolvedOffsets' \in [Partitions -> Position]
    /\ committedOffsets' \in [Partitions -> Position]
    /\ \A q \in Partitions : /\ resolvedOffsets'[q] \in Committable'[q]
                             /\ committedOffsets'[q] \in Committable'[q]

\* So do the requests and the responses.
NetGood ==
    /\ requests' \in Seq(Request) /\ RequestsOK'
    /\ replies' \in Seq(Reply) /\ RepliesOK'

\* The loop of p has left or ended its batch, or handled a message of it.
LEMMA LandingKeeps ==
    ASSUME OffsetsInv, NEW p \in Partitions, NEW next,
           Grows, handled' \in [Partitions -> SUBSET Int],
           skippable' = skippable, logStart' = logStart,
           assigned' = assigned, owned' = owned, generation' = generation,
           groupGeneration' = groupGeneration, groupOffset' = groupOffset,
           paused' = paused, seekOffset' = seekOffset, sincePause' = sincePause,
           Lands(p, next), OwnBatchOnly(p), OffsetsGood, NetGood,
           next = "next" => BatchOK(p)'
    PROVE  OffsetsInv'
<1>1. PositionsStay
  BY CommittableStays DEF OffsetsInv, PositionsStay
<1>2. OffsetTypes'
  BY DEF OffsetsInv, OffsetTypes, Lands, OwnBatchOnly, OffsetsGood, NetGood
<1>3. PositionsOK'
  <2>1. SUFFICES ASSUME NEW q \in Partitions
                 PROVE  /\ resolvedOffsets'[q] \in Committable'[q]
                        /\ committedOffsets'[q] \in Committable'[q]
                        /\ seekOffset'[q] \in Committable'[q]
                        /\ groupOffset'[q] \in Committable'[q]
                        /\ fetchOffset'[q] \in Committable'[q]
    BY DEF PositionsOK
  <2>2. fetchOffset'[q] \in Committable'[q]
    BY <1>1 DEF OffsetsInv, PositionsOK, PositionsStay, OwnBatchOnly
  <2> QED
    BY <1>1, <2>2 DEF OffsetsInv, PositionsOK, PositionsStay, OffsetsGood
<1>4. p \in Actor /\ \A q \in Partitions : q \in Actor
  BY DEF Actor
<1>5. \A q \in Partitions \ {p} : LoopKept(q)
  BY <1>4 DEF LoopKept, Lands, OwnBatchOnly
<1>6. LoopOK(p)'
  BY DEF LoopOK, Lands
<1>7. QuietOK'
  BY <1>4, QuietStays DEF OffsetsInv, Lands
<1> QED
  BY <1>2, <1>3, <1>5, <1>6, <1>7, LoopStepKeeps DEF NetGood

\* A loop that changes its stage only, or gives up its fetch.
LEMMA MovesLands ==
    ASSUME OffsetTypes, NEW p \in Partitions, NEW s \in Stage, Moves(p, s),
           after' \in [Partitions -> {None, "top", "next", "retry", "rebalance"}],
           \A q \in Partitions \ {p} : after'[q] = after[q],
           s \notin {"queued", "fetching", "handler", "next", "committing"}
    PROVE  Lands(p, "top")
<1>1. stage \in [Actor -> Stage] /\ p \in Actor
  BY DEF OffsetTypes, Actor
<1>2. stage' = [stage EXCEPT ![p] = s]
  BY DEF Moves
<1> QED
  BY <1>1, <1>2 DEF Lands, InBatch

\* The loop sees that it is to stop.
LEMMA LoopStopsKeeps ==
    ASSUME OffsetsInv, NEW p \in Partitions, LoopStops(p)
    PROVE  OffsetsInv'
<1>1. /\ LogKept /\ assigned' = assigned /\ owned' = owned /\ generation' = generation
      /\ groupGeneration' = groupGeneration /\ groupOffset' = groupOffset
      /\ paused' = paused /\ seekOffset' = seekOffset /\ sincePause' = sincePause
      /\ after' = after /\ fetchOffset' = fetchOffset /\ batch' = batch
      /\ message' = message /\ requests' = requests /\ replies' = replies
      /\ resolvedOffsets' = resolvedOffsets /\ committedOffsets' = committedOffsets
  BY DEF LoopStops, LogKept, groupVars, coordVars, ghostVars, appVars, netVars, offsetVars
<1>2. Grows /\ PositionsStay
  BY <1>1, LogKeptGrows
<1>3. NetGood
  BY <1>1, <1>2, RequestsKept, RepliesKept DEF OffsetsInv, NetGood
<1>4. OwnBatchOnly(p) /\ OffsetsGood
  BY <1>1, <1>2 DEF OffsetsInv, OffsetTypes, PositionsOK, PositionsStay,
                    OwnBatchOnly, OffsetsGood
<1>5. Moves(p, "ended") /\ "ended" \in Stage
  BY DEF LoopStops, Stage
<1>6. Lands(p, "top")
  BY <1>1, <1>5, MovesLands DEF OffsetsInv, OffsetTypes
<1>7. handled' \in [Partitions -> SUBSET Int]
  BY <1>1 DEF OffsetsInv, OffsetTypes, LogKept
<1> QED
  BY <1>1, <1>2, <1>3, <1>4, <1>6, <1>7, LandingKeeps DEF LogKept

\* The loop of p ends with an error.
LEMMA LoopFailsLands ==
    ASSUME OffsetTypes, NEW p \in Partitions, NEW e, LoopFails(p, e),
           after' \in [Partitions -> {None, "top", "next", "retry", "rebalance"}],
           \A q \in Partitions \ {p} : after'[q] = after[q]
    PROVE  Lands(p, "top")
  BY MovesLands DEF LoopFails, Stage

\* The committed offset of a seek, or of a reset.
LEMMA SeekReplyKeeps ==
    ASSUME OffsetsInv, NEW p \in Partitions, SeekReply(p)
    PROVE  OffsetsInv'
<1>1. /\ EnvironmentKept /\ sincePause' = sincePause /\ seekOffset' = seekOffset
      /\ after' = after /\ batch' = batch /\ message' = message
      /\ Answered(p) /\ Takes
  BY DEF SeekReply, EnvironmentKept, LogKept, groupVars, appVars, coordVars, ghostVars
<1>2. Grows /\ PositionsStay
  BY <1>1, LogKeptGrows DEF EnvironmentKept
<1>3. replies' \in Seq(Reply) /\ RepliesOK'
  BY <1>1, <1>2, TakesKeeps DEF OffsetsInv, Actor
<1>4. \A q \in Partitions : /\ resolvedOffsets[q] \in Committable'[q]
                            /\ committedOffsets[q] \in Committable'[q]
                            /\ seekOffset[q] \in Committable'[q]
                            /\ fetchOffset[q] \in Committable'[q]
                            /\ None \in Committable'[q]
  BY <1>2 DEF OffsetsInv, PositionsOK, PositionsStay, Committable
<1>5. /\ seekOffset \in [Partitions -> Position]
      /\ resolvedOffsets \in [Partitions -> Position]
      /\ committedOffsets \in [Partitions -> Position]
      /\ None \in Position
  BY DEF OffsetsInv, OffsetTypes, Position
<1> DEFINE resolved == Cleared(resolvedOffsets, p)
           committed == Cleared(committedOffsets, p)
<1>6. /\ resolved \in [Partitions -> Position] /\ committed \in [Partitions -> Position]
      /\ \A q \in Partitions : /\ resolved[q] \in Committable'[q]
                               /\ committed[q] \in Committable'[q]
  BY <1>4, <1>5 DEF Cleared
<1> HIDE DEF resolved, committed
<1>7. CASE ResolveOffsets(p, resolved, committed)
  <2>1. /\ Fetches(p) /\ requests' \in Seq(Request) /\ RequestsOK'
        /\ committedOffsets' = committed
    BY <1>2, <1>6, <1>7, ResolveOffsetsFetches DEF OffsetsInv
  <2> QED
    BY <1>1, <1>3, <1>4, <1>5, <1>6, <2>1, FetchKeeps
<1>8. ASSUME /\ requests' = requests /\ fetchOffset' = fetchOffset
             /\ Lands(p, "top") /\ OffsetsGood
      PROVE  OffsetsInv'
  <2>1. NetGood
    BY <1>2, <1>3, <1>8, RequestsKept DEF OffsetsInv, NetGood
  <2>2. OwnBatchOnly(p)
    BY <1>1, <1>4, <1>8 DEF OffsetsInv, OffsetTypes, OwnBatchOnly
  <2>3. handled' \in [Partitions -> SUBSET Int]
    BY <1>1 DEF OffsetsInv, OffsetTypes, EnvironmentKept, LogKept
  <2> QED
    BY <1>1, <1>2, <1>8, <2>1, <2>2, <2>3, LandingKeeps DEF EnvironmentKept, LogKept
<1>9. CASE /\ resolvedOffsets' = resolved /\ committedOffsets' = committed
           /\ Iterates(p)
           /\ UNCHANGED <<fetchOffset, requests, stopping, error>>
  <2>1. Lands(p, "top")
    BY <1>1, <1>9, MovesLands DEF Iterates, Stage, OffsetsInv, OffsetTypes
  <2>2. OffsetsGood
    BY <1>6, <1>9 DEF OffsetsGood
  <2> QED
    BY <1>8, <1>9, <2>1, <2>2
<1>10. CASE /\ LoopFails(p, Head(replies).error)
            /\ UNCHANGED <<fetchOffset, offsetVars, requests>>
  <2>1. Lands(p, "top")
    BY <1>1, <1>10, LoopFailsLands DEF OffsetsInv, OffsetTypes
  <2>2. OffsetsGood
    BY <1>4, <1>5, <1>10 DEF OffsetsGood, offsetVars
  <2> QED
    BY <1>8, <1>10, <2>1, <2>2
<1> QED
  BY <1>7, <1>9, <1>10 DEF SeekReply, resolved, committed

\* Offsets that are overridden by those of a response may be committed.
LEMMA OverriddenGood ==
    ASSUME NEW f \in [Partitions -> Position], NEW o, Carries(o),
           \A q \in Partitions : f[q] \in Committable'[q]
    PROVE  /\ Overridden(f, o) \in [Partitions -> Position]
           /\ \A q \in Partitions : Overridden(f, o)[q] \in Committable'[q]
<1>1. DOMAIN o \subseteq Partitions /\ o \in [DOMAIN o -> Position]
  BY CarriesShape DEF Carries
<1>2. \A q \in DOMAIN o : o[q] \in Committable'[q]
  BY DEF Carries
<1>3. Overridden(f, o) = [q \in Partitions |-> IF q \in DOMAIN o THEN o[q] ELSE f[q]]
  BY DEF Overridden
<1> QED
  BY <1>1, <1>2, <1>3

\* The committed offsets arrive. Those of an earlier offset manager are left.
LEMMA ResolveReplyKeeps ==
    ASSUME OffsetsInv, NEW p \in Partitions, ResolveReply(p)
    PROVE  OffsetsInv'
<1>1. /\ EnvironmentKept /\ sincePause' = sincePause /\ seekOffset' = seekOffset
      /\ after' = after /\ batch' = batch /\ message' = message
      /\ requests' = requests /\ Answered(p) /\ Takes
  BY DEF ResolveReply, EnvironmentKept, LogKept, groupVars, appVars, coordVars, ghostVars
<1>2. Grows /\ PositionsStay
  BY <1>1, LogKeptGrows DEF EnvironmentKept
<1>3. /\ replies' \in Seq(Reply) /\ RepliesOK'
      /\ Carries(Head(replies).offs)
  BY <1>1, <1>2, TakesKeeps DEF OffsetsInv, Actor
<1>4. requests' \in Seq(Request) /\ RequestsOK'
  BY <1>1, <1>2, RequestsKept DEF OffsetsInv
<1>5. \A q \in Partitions : /\ resolvedOffsets[q] \in Committable'[q]
                            /\ committedOffsets[q] \in Committable'[q]
                            /\ seekOffset[q] \in Committable'[q]
                            /\ fetchOffset[q] \in Committable'[q]
  BY <1>2 DEF OffsetsInv, PositionsOK, PositionsStay
<1>6. /\ seekOffset \in [Partitions -> Position]
      /\ resolvedOffsets \in [Partitions -> Position]
      /\ committedOffsets \in [Partitions -> Position]
  BY DEF OffsetsInv, OffsetTypes
<1> DEFINE committed == IF Head(replies).gen = generation
                        THEN Overridden(committedOffsets, Head(replies).offs)
                        ELSE committedOffsets
<1>7. /\ committed \in [Partitions -> Position]
      /\ \A q \in Partitions : committed[q] \in Committable'[q]
  BY <1>3, <1>5, <1>6, OverriddenGood
<1> HIDE DEF committed
<1>8. CASE committedOffsets' = committed /\ RequestsFetch(p, resolvedOffsets, committed)
  <2>1. Fetches(p)
    BY <1>2, <1>5, <1>6, <1>7, <1>8, RequestsFetchFetches DEF OffsetsInv
  <2> QED
    BY <1>1, <1>3, <1>4, <1>5, <1>6, <1>7, <1>8, <2>1, FetchKeeps
<1>9. CASE /\ LoopFails(p, Head(replies).error)
           /\ UNCHANGED <<fetchOffset, offsetVars>>
  <2>1. Lands(p, "top")
    BY <1>1, <1>9, LoopFailsLands DEF OffsetsInv, OffsetTypes
  <2>2. OffsetsGood
    BY <1>5, <1>6, <1>9 DEF OffsetsGood, offsetVars
  <2>3. OwnBatchOnly(p)
    BY <1>1, <1>5, <1>9 DEF OffsetsInv, OffsetTypes, OwnBatchOnly
  <2>4. handled' \in [Partitions -> SUBSET Int]
    BY <1>1 DEF OffsetsInv, OffsetTypes, EnvironmentKept, LogKept
  <2> QED
    BY <1>1, <1>2, <1>3, <1>4, <2>1, <2>2, <2>3, <2>4, LandingKeeps
       DEF EnvironmentKept, LogKept, NetGood
<1> QED
  BY <1>8, <1>9 DEF ResolveReply, committed
\* The response to the fetch: its messages, with those below its offset, are
\* all there are below the last of them.
LEMMA FetchReplyKeeps ==
    ASSUME OffsetsInv, NEW p \in Partitions, FetchReply(p)
    PROVE  OffsetsInv'
<1> DEFINE o == fetchOffset[p]
<1>1. /\ EnvironmentKept /\ sincePause' = sincePause /\ seekOffset' = seekOffset
      /\ after' = after /\ message' = message /\ requests' = requests /\ replies' = replies
      /\ resolvedOffsets' = resolvedOffsets /\ committedOffsets' = committedOffsets
  BY DEF FetchReply, EnvironmentKept, LogKept, groupVars, appVars, coordVars, ghostVars,
         netVars, offsetVars
<1>2. Grows /\ PositionsStay
  BY <1>1, LogKeptGrows DEF EnvironmentKept
<1>3. NetGood
  BY <1>1, <1>2, RequestsKept, RepliesKept DEF OffsetsInv, NetGood
<1>4. OffsetsGood
  BY <1>1, <1>2 DEF OffsetsInv, OffsetTypes, PositionsOK, PositionsStay, OffsetsGood
<1>5. /\ fetchOffset \in [Partitions -> Position] /\ batch \in [Partitions -> SUBSET Nat]
      /\ message \in [Partitions -> Position]
      /\ stage \in [Actor -> Stage] /\ p \in Actor /\ \A q \in Partitions : q \in Actor
      /\ None \in Position /\ None \in Committable'[p]
      /\ \A q \in Partitions : fetchOffset[q] \in Committable'[q]
  BY <1>2 DEF OffsetsInv, OffsetTypes, Actor, Position, Committable, PositionsOK, PositionsStay
<1>6. CASE Iterates(p) /\ fetchOffset' = Cleared(fetchOffset, p) /\ batch' = batch
  <2>1. Lands(p, "top")
    BY <1>1, <1>6, MovesLands DEF Iterates, Stage, OffsetsInv, OffsetTypes
  <2>2. OwnBatchOnly(p)
    BY <1>1, <1>5, <1>6 DEF OwnBatchOnly, Cleared
  <2>3. handled' \in [Partitions -> SUBSET Int]
    BY <1>1 DEF OffsetsInv, OffsetTypes, EnvironmentKept, LogKept
  <2> QED
    BY <1>1, <1>2, <1>3, <1>4, <2>1, <2>2, <2>3, LandingKeeps DEF EnvironmentKept, LogKept
<1>7. CASE /\ Moves(p, "queued") /\ fetchOffset' = fetchOffset
           /\ batch' = [batch EXCEPT ![p] = Messages(p, o)]
           /\ ~paused[p] /\ Records(o) # {}
  <2>1. o \in Int /\ o >= logStart[p] /\ logStart[p] \in Nat
    BY DEF FetchReply, OffsetsInv, OffsetTypes, LoopOK
  <2>2. o \in Nat
    BY <2>1
  <2>3. Records(o) = o..Last(o) /\ Last(o) \in Int
    BY <1>7, <2>1, MaxIsLast
  <2>4. /\ Messages(p, o) \subseteq Nat
        /\ \A x \in o..Last(o) : x \in Messages(p, o) \/ <<p, x>> \in Control
        /\ \A x \in Messages(p, o) : x \in o..Last(o)
    BY <2>2, <2>3 DEF Messages
  <2> DEFINE m == Messages(p, o)
  <2>5. /\ stage'[p] = "queued" /\ \A q \in Partitions \ {p} : stage'[q] = stage[q]
        /\ stage' \in [Actor -> Stage]
    BY <1>5, <1>7 DEF Moves, Stage
  <2>6. /\ batch'[p] = m /\ \A q \in Partitions \ {p} : batch'[q] = batch[q]
        /\ batch' \in [Partitions -> SUBSET Nat]
    BY <1>5, <1>7, <2>4
  <2> HIDE DEF m
  <2>7. OffsetTypes'
    BY <1>1, <1>5, <1>7, <2>5, <2>6, <1>3, <1>4
       DEF OffsetsInv, OffsetTypes, EnvironmentKept, LogKept, OffsetsGood, NetGood
  <2>8. PositionsOK'
    BY <1>1, <1>2, <1>4, <1>5, <1>7
       DEF OffsetsInv, PositionsOK, PositionsStay, EnvironmentKept, OffsetsGood
  <2>9. \A q \in Partitions \ {p} : LoopKept(q)
    BY <1>1, <1>7, <2>5, <2>6 DEF LoopKept
  <2>10. o \in Committable'[p]
    BY <1>5
  <2>11. ASSUME NEW y \in m, NEW x \in 0..(y - 1) PROVE x \in m \/ Settled(p, x)'
    <3>1. y \in o..Last(o) /\ y \in Int
      BY <2>3, <2>4, <2>11 DEF m
    <3>2. CASE x < o
      <4>1. x \in 0..(o - 1)
        BY <2>1, <2>11, <3>1, <3>2
      <4> QED
        BY <2>1, <2>10, <4>1, ConsumerOffsetsAssumption DEF Committable
    <3>3. CASE x >= o
      <4>1. x \in o..Last(o)
        BY <2>1, <2>3, <2>11, <3>1, <3>3
      <4> QED
        BY <2>4, <4>1 DEF m, Settled
    <3> QED
      BY <2>1, <2>11, <3>1, <3>2, <3>3
  <2>12. BatchOK(p)'
    BY <2>5, <2>6, <2>11 DEF BatchOK
  <2>13. LoopOK(p)'
    BY <1>7, <2>2, <2>5, <2>6, <2>12 DEF LoopOK, m, Messages, Records
  <2>14. QuietOK'
    BY <1>1, <1>7, <2>5 DEF OffsetsInv, QuietOK, EnvironmentKept
  <2> QED
    BY <1>2, <1>3, <2>7, <2>8, <2>9, <2>13, <2>14, LoopStepKeeps DEF NetGood
<1> QED
  BY <1>6, <1>7 DEF FetchReply
\* The default offset is before every record.
LEMMA DefaultCommittable ==
    \A p \in Partitions : Default \in Committable'[p] /\ Default \in Position
<1>1. Default \in Int /\ 0..(Default - 1) = {}
  BY DEF Default
<1> QED
  BY <1>1 DEF Committable, Position

\* recoverFromOffsetOutOfRange() commits the default offset.
LEMMA OffsetOutOfRangeKeeps ==
    ASSUME OffsetsInv, NEW p \in Partitions, OffsetOutOfRange(p)
    PROVE  OffsetsInv'
<1>1. /\ EnvironmentKept /\ sincePause' = sincePause /\ seekOffset' = seekOffset
      /\ after' = after /\ message' = message /\ batch' = batch /\ replies' = replies
      /\ resolvedOffsets' = resolvedOffsets /\ committedOffsets' = committedOffsets
  BY DEF OffsetOutOfRange, EnvironmentKept, LogKept, groupVars, appVars, coordVars,
         ghostVars, offsetVars
<1>2. Grows /\ PositionsStay
  BY <1>1, LogKeptGrows DEF EnvironmentKept
<1> DEFINE offs == [x \in {p} |-> Default]
<1>3. offs \in [{p} -> Position] /\ \A x \in {p} : offs[x] \in Committable'[x]
  BY DefaultCommittable
<1>4. Carries(offs)
  BY <1>3, CarriesMap
<1>5. Sends(p, "commit", offs, generation)
  BY DEF OffsetOutOfRange
<1> HIDE DEF offs
<1>6. NetGood
  BY <1>1, <1>2, <1>4, <1>5, SendsKeeps, RepliesKept
     DEF OffsetsInv, OffsetTypes, Actor, NetGood
<1>7. OffsetsGood
  BY <1>1, <1>2 DEF OffsetsInv, OffsetTypes, PositionsOK, PositionsStay, OffsetsGood
<1>8. Lands(p, "top")
  BY <1>1, MovesLands DEF OffsetOutOfRange, Stage, OffsetsInv, OffsetTypes
<1>9. OwnBatchOnly(p)
  BY <1>1 DEF OffsetOutOfRange, Cleared, OffsetsInv, OffsetTypes, OwnBatchOnly,
              Position, Committable
<1>10. handled' \in [Partitions -> SUBSET Int]
  BY <1>1 DEF OffsetsInv, OffsetTypes, EnvironmentKept, LogKept
<1> QED
  BY <1>1, <1>2, <1>6, <1>7, <1>8, <1>9, <1>10, LandingKeeps DEF EnvironmentKept, LogKept

\* The metadata is stale: the loop joins the group again.
LEMMA StaleMetadataKeeps ==
    ASSUME OffsetsInv, NEW p \in Partitions, StaleMetadata(p)
    PROVE  OffsetsInv'
<1>1. /\ EnvironmentKept /\ sincePause' = sincePause /\ seekOffset' = seekOffset
      /\ after' = after /\ message' = message /\ batch' = batch /\ replies' = replies
      /\ resolvedOffsets' = resolvedOffsets /\ committedOffsets' = committedOffsets
  BY DEF StaleMetadata, EnvironmentKept, LogKept, groupVars, appVars, coordVars, offsetVars
<1>2. Grows /\ PositionsStay
  BY <1>1, LogKeptGrows DEF EnvironmentKept
<1>3. Sends(p, "join", <<>>, None)
  BY DEF StaleMetadata
<1>4. NetGood
  BY <1>1, <1>2, <1>3, CarriesNothing, SendsKeeps, RepliesKept
     DEF OffsetsInv, OffsetTypes, Actor, Position, NetGood
<1>5. OffsetsGood
  BY <1>1, <1>2 DEF OffsetsInv, OffsetTypes, PositionsOK, PositionsStay, OffsetsGood
<1>6. Lands(p, "top")
  BY <1>1, MovesLands DEF StaleMetadata, Stage, OffsetsInv, OffsetTypes
<1>7. OwnBatchOnly(p)
  BY <1>1 DEF StaleMetadata, Cleared, OffsetsInv, OffsetTypes, OwnBatchOnly,
              Position, Committable
<1>8. handled' \in [Partitions -> SUBSET Int]
  BY <1>1 DEF OffsetsInv, OffsetTypes, EnvironmentKept, LogKept
<1> QED
  BY <1>1, <1>2, <1>4, <1>5, <1>6, <1>7, <1>8, LandingKeeps DEF EnvironmentKept, LogKept

\* A batch of control records is resolved: nothing in it needs a handler.
LEMMA FilteredBatchKeeps ==
    ASSUME OffsetsInv, NEW p \in Partitions, FilteredBatch(p)
    PROVE  OffsetsInv'
<1> DEFINE o == fetchOffset[p]
           resolved == [resolvedOffsets EXCEPT ![p] = Max(Records(o)) + 1]
<1>1. /\ EnvironmentKept /\ sincePause' = sincePause /\ seekOffset' = seekOffset
      /\ message' = message /\ batch' = batch /\ replies' = replies
      /\ resolvedOffsets' = resolved /\ committedOffsets' = committedOffsets
      /\ fetchOffset' = Cleared(fetchOffset, p)
  BY DEF FilteredBatch, EnvironmentKept, LogKept, groupVars, appVars, coordVars, ghostVars
<1>2. Grows /\ PositionsStay /\ Committable' = Committable
  BY <1>1, LogKeptGrows, CommittableSame DEF EnvironmentKept, LogKept
<1>3. /\ o \in Nat /\ Records(o) # {} /\ Messages(p, o) = {}
  BY DEF FilteredBatch, OffsetsInv, LoopOK
<1>4. Max(Records(o)) = Last(o) /\ Last(o) \in Int /\ Records(o) = o..Last(o)
  BY <1>3, MaxIsLast
<1>5. o \in Committable[p]
  BY DEF OffsetsInv, PositionsOK
<1>6. \A x \in 0..(o - 1) : Settled(p, x)
  BY <1>3, <1>5, ConsumerOffsetsAssumption DEF Committable
<1>7. \A x \in o..Last(o) : Settled(p, x)
  BY <1>3, <1>4 DEF Messages, Settled
<1>8. \A x \in 0..((Last(o) + 1) - 1) : Settled(p, x)
  BY <1>3, <1>4, <1>6, <1>7
<1>9. Last(o) + 1 \in Committable[p] /\ Last(o) + 1 \in Position
  BY <1>4, <1>8 DEF Committable, Position
<1>10. /\ resolvedOffsets \in [Partitions -> Position]
       /\ committedOffsets \in [Partitions -> Position]
       /\ \A q \in Partitions : /\ resolvedOffsets[q] \in Committable[q]
                                /\ committedOffsets[q] \in Committable[q]
  BY DEF OffsetsInv, OffsetTypes, PositionsOK
<1>11. /\ resolved \in [Partitions -> Position]
       /\ \A q \in Partitions : resolved[q] \in Committable'[q]
  BY <1>2, <1>4, <1>9, <1>10
<1> HIDE DEF resolved
<1>12. OffsetsGood
  BY <1>1, <1>2, <1>10, <1>11 DEF OffsetsGood
<1>13. Lands(p, "top") /\ requests' \in Seq(Request) /\ RequestsOK'
  <2>1. CASE AutoCommitOffsets(p, resolved, "top")
    BY <1>2, <1>11, <2>1, AutoCommitLands DEF OffsetsInv
  <2>2. CASE GoesOn(p, "top") /\ after' = after /\ requests' = requests
    BY <1>2, <2>2, GoesOnLands, RequestsKept DEF OffsetsInv
  <2> QED
    BY <2>1, <2>2 DEF FilteredBatch, resolved
<1>14. NetGood
  BY <1>1, <1>2, <1>13, RepliesKept DEF OffsetsInv, NetGood
<1>15. OwnBatchOnly(p)
  BY <1>1 DEF Cleared, OffsetsInv, OffsetTypes, OwnBatchOnly, Position, Committable
<1>16. handled' \in [Partitions -> SUBSET Int]
  BY <1>1 DEF OffsetsInv, OffsetTypes, EnvironmentKept, LogKept
<1> QED
  BY <1>1, <1>2, <1>12, <1>13, <1>14, <1>15, <1>16, LandingKeeps DEF EnvironmentKept, LogKept
\* The loop of p ends its batch with a commit of what is resolved, whatever
\* becomes of its message and its fetch.
LEMMA BatchEndKeeps ==
    ASSUME OffsetsInv, NEW p \in Partitions, EnvironmentKept, seekOffset' = seekOffset,
           sincePause' = sincePause, replies' = replies,
           resolvedOffsets' = resolvedOffsets, committedOffsets' = committedOffsets,
           NEW next \in {"top", "retry", "rebalance"},
           AutoCommitOffsets(p, resolvedOffsets, next),
           fetchOffset' \in {fetchOffset, Cleared(fetchOffset, p)},
           message' \in {message, Cleared(message, p)},
           batch' \in {batch, [batch EXCEPT ![p] = {}]}
    PROVE  OffsetsInv'
<1>1. Grows /\ PositionsStay
  BY LogKeptGrows DEF EnvironmentKept
<1>2. OffsetsGood
  BY <1>1 DEF OffsetsInv, OffsetTypes, PositionsOK, PositionsStay, OffsetsGood
<1>3. Lands(p, next) /\ requests' \in Seq(Request) /\ RequestsOK'
  BY <1>1, <1>2, AutoCommitLands DEF OffsetsInv, OffsetsGood
<1>4. NetGood
  BY <1>1, <1>3, RepliesKept DEF OffsetsInv, NetGood
<1>5. OwnBatchOnly(p)
  <2>1. /\ fetchOffset \in [Partitions -> Position] /\ batch \in [Partitions -> SUBSET Nat]
        /\ message \in [Partitions -> Position]
        /\ None \in Position /\ None \in Committable'[p]
        /\ fetchOffset[p] \in Committable'[p]
    BY <1>1 DEF OffsetsInv, OffsetTypes, Position, Committable, PositionsOK, PositionsStay
  <2> QED
    BY <2>1 DEF OwnBatchOnly, Cleared
<1>6. handled' \in [Partitions -> SUBSET Int]
  BY DEF OffsetsInv, OffsetTypes, EnvironmentKept, LogKept
<1> QED
  BY <1>1, <1>2, <1>3, <1>4, <1>5, <1>6, LandingKeeps DEF EnvironmentKept, LogKept

\* A message goes to the handler: it is the first of the batch, so nothing
\* below it is left.
LEMMA DeliversKeeps ==
    ASSUME OffsetsInv, NEW p \in Partitions, EnvironmentKept, seekOffset' = seekOffset,
           replies' = replies, resolvedOffsets' = resolvedOffsets,
           committedOffsets' = committedOffsets,
           fetchOffset' \in {fetchOffset, Cleared(fetchOffset, p)},
           stage[p] = "queued" \/ (stage[p] = "next" /\ ~paused[p]),
           Delivers(p)
    PROVE  OffsetsInv'
<1>1. CASE /\ batch[p] # {}
           /\ Moves(p, "handler")
           /\ message' = [message EXCEPT ![p] = Min(batch[p])]
           /\ batch' = [batch EXCEPT ![p] = @ \ {Min(@)}]
           /\ sincePause' = [sincePause EXCEPT ![p] = IF paused[p] THEN @ + 1 ELSE @]
           /\ after' = after /\ requests' = requests
  <2>1. Grows /\ PositionsStay /\ Committable' = Committable
    BY LogKeptGrows, CommittableSame DEF EnvironmentKept, LogKept
  <2>2. /\ fetchOffset \in [Partitions -> Position] /\ batch \in [Partitions -> SUBSET Nat]
        /\ message \in [Partitions -> Position] /\ sincePause \in [Partitions -> Nat]
        /\ stage \in [Actor -> Stage] /\ p \in Actor /\ \A q \in Partitions : q \in Actor
        /\ None \in Position /\ None \in Committable'[p]
        /\ \A q \in Partitions : fetchOffset[q] \in Committable'[q]
    BY <2>1 DEF OffsetsInv, OffsetTypes, Actor, Position, Committable, PositionsOK,
                PositionsStay
  <2> DEFINE m == Min(batch[p])
  <2>3. m \in batch[p] /\ m \in Nat /\ \A y \in batch[p] : m <= y
    BY <1>1, <2>2, MinIsFirst
  <2>4. NetGood
    BY <1>1, <2>1, RequestsKept, RepliesKept DEF OffsetsInv, NetGood
  <2>5. /\ message'[p] = m /\ \A q \in Partitions \ {p} : message'[q] = message[q]
        /\ message' \in [Partitions -> Position]
    BY <1>1, <2>2, <2>3 DEF Position
  <2>6. /\ batch'[p] = batch[p] \ {m} /\ \A q \in Partitions \ {p} : batch'[q] = batch[q]
        /\ batch' \in [Partitions -> SUBSET Nat]
    BY <1>1, <2>2
  <2>7. /\ stage'[p] = "handler" /\ \A q \in Partitions \ {p} : stage'[q] = stage[q]
        /\ stage' \in [Actor -> Stage]
    BY <1>1, <2>2 DEF Moves, Stage
  <2>8. /\ \A q \in Partitions \ {p} : fetchOffset'[q] = fetchOffset[q]
        /\ fetchOffset' \in [Partitions -> Position]
        /\ fetchOffset'[p] \in Committable'[p]
    BY <2>2 DEF Cleared
  <2>9. /\ sincePause' \in [Partitions -> Nat]
        /\ \A q \in Partitions \ {p} : sincePause'[q] = sincePause[q]
        /\ sincePause'[p] = IF paused[p] THEN sincePause[p] + 1 ELSE sincePause[p]
    BY <1>1, <2>2
  <2> HIDE DEF m
  <2>10. OffsetTypes'
    BY <1>1, <2>4, <2>5, <2>6, <2>7, <2>8, <2>9
       DEF OffsetsInv, OffsetTypes, EnvironmentKept, LogKept, NetGood
  <2>11. PositionsOK'
    <3>1. \A q \in Partitions : fetchOffset'[q] \in Committable'[q]
      BY <2>2, <2>8
    <3> QED
      BY <2>1, <3>1 DEF OffsetsInv, PositionsOK, PositionsStay, EnvironmentKept
  <2>12. \A q \in Partitions \ {p} : LoopKept(q)
    BY <1>1, <2>5, <2>6, <2>7, <2>8 DEF LoopKept
  <2>13. BatchOK(p) /\ stage[p] # "handler"
    BY DEF OffsetsInv, LoopOK, InBatch
  <2>14. \A x \in 0..(m - 1) : Settled(p, x)
    BY <2>2, <2>3, <2>13 DEF BatchOK
  <2>15. m \in Committable'[p]
    BY <2>1, <2>3, <2>14 DEF Committable
  <2>16. \A x \in Int : Settled(p, x) => Settled(p, x)'
    BY <2>1, SettledStays DEF OffsetsInv
  <2>17. BatchOK(p)'
    <3>1. ASSUME NEW y \in batch'[p], NEW x \in 0..(y - 1)
          PROVE  \/ x \in batch'[p]
                 \/ Settled(p, x)'
                 \/ stage'[p] = "handler" /\ x = message'[p]
      BY <2>2, <2>5, <2>6, <2>7, <2>13, <2>16, <3>1 DEF BatchOK
    <3> QED
      BY <2>5, <2>15, <3>1 DEF BatchOK
  <2>18. LoopOK(p)'
    BY <2>3, <2>5, <2>7, <2>17 DEF LoopOK
  <2>19. QuietOK'
    <3>1. sincePause[p] \in Nat /\ (paused[p] => sincePause[p] = 0)
      BY <2>2 DEF OffsetsInv, QuietOK
    <3>2. /\ sincePause'[p] <= 1
          /\ sincePause'[p] > 0 => paused'[p] /\ stage'[p] # "queued"
      BY <2>7, <2>9, <3>1 DEF OffsetsInv, QuietOK, EnvironmentKept
    <3> QED
      BY <2>7, <2>9, <3>2 DEF OffsetsInv, QuietOK, EnvironmentKept
  <2> QED
    BY <2>1, <2>4, <2>10, <2>11, <2>12, <2>18, <2>19, LoopStepKeeps DEF NetGood
<1>2. CASE /\ AutoCommitOffsets(p, resolvedOffsets, "top")
           /\ batch' = [batch EXCEPT ![p] = {}]
           /\ message' = message /\ sincePause' = sincePause
  BY <1>2, BatchEndKeeps
<1> QED
  BY <1>1, <1>2 DEF Delivers

\* A worker takes a batch with messages.
LEMMA FirstMessageKeeps ==
    ASSUME OffsetsInv, NEW p \in Partitions, FirstMessage(p)
    PROVE  OffsetsInv'
<1>1. /\ EnvironmentKept /\ seekOffset' = seekOffset /\ replies' = replies
      /\ resolvedOffsets' = resolvedOffsets /\ committedOffsets' = committedOffsets
      /\ fetchOffset' = Cleared(fetchOffset, p) /\ stage[p] = "queued" /\ Delivers(p)
  BY DEF FirstMessage, EnvironmentKept, LogKept, groupVars, appVars, coordVars, offsetVars
<1> QED
  BY <1>1, DeliversKeeps

\* The next message of the batch, unless the partition is paused.
LEMMA NextMessageKeeps ==
    ASSUME OffsetsInv, NEW p \in Partitions, NextMessage(p)
    PROVE  OffsetsInv'
<1>1. /\ EnvironmentKept /\ seekOffset' = seekOffset /\ replies' = replies
      /\ resolvedOffsets' = resolvedOffsets /\ committedOffsets' = committedOffsets
      /\ fetchOffset' = fetchOffset /\ stage[p] = "next"
  BY DEF NextMessage, EnvironmentKept, LogKept, groupVars, appVars, coordVars, offsetVars
<1>2. CASE paused[p]
  <2>1. /\ AutoCommitOffsets(p, resolvedOffsets, "top")
        /\ batch' = [batch EXCEPT ![p] = {}]
        /\ message' = message /\ sincePause' = sincePause
    BY <1>2 DEF NextMessage
  <2> QED
    BY <1>1, <2>1, BatchEndKeeps
<1>3. CASE ~paused[p]
  <2>1. Delivers(p)
    BY <1>3 DEF NextMessage
  <2> QED
    BY <1>1, <1>3, <2>1, DeliversKeeps
<1> QED
  BY <1>2, <1>3

\* The handler rejects: what was resolved before is committed.
LEMMA HandlerRejectsKeeps ==
    ASSUME OffsetsInv, NEW p \in Partitions, HandlerRejects(p)
    PROVE  OffsetsInv'
<1>1. /\ EnvironmentKept /\ seekOffset' = seekOffset /\ replies' = replies
      /\ sincePause' = sincePause
      /\ resolvedOffsets' = resolvedOffsets /\ committedOffsets' = committedOffsets
      /\ fetchOffset' = fetchOffset /\ message' = Cleared(message, p)
      /\ batch' = [batch EXCEPT ![p] = {}]
      /\ AutoCommitOffsets(p, resolvedOffsets, "retry")
  BY DEF HandlerRejects, EnvironmentKept, LogKept, groupVars, appVars, coordVars,
         offsetVars, Cleared
<1> QED
  BY <1>1, BatchEndKeeps

\* A heartbeat fails between two fetches.
LEMMA HeartbeatFailsKeeps ==
    ASSUME OffsetsInv, NEW p \in Partitions, HeartbeatFails(p)
    PROVE  OffsetsInv'
<1>1. /\ EnvironmentKept /\ seekOffset' = seekOffset /\ replies' = replies
      /\ sincePause' = sincePause
      /\ resolvedOffsets' = resolvedOffsets /\ committedOffsets' = committedOffsets
      /\ fetchOffset' = fetchOffset /\ message' = message /\ batch' = batch
      /\ AutoCommitOffsets(p, resolvedOffsets, "rebalance")
  BY DEF HeartbeatFails, EnvironmentKept, LogKept, groupVars, appVars, coordVars,
         offsetVars
<1> QED
  BY <1>1, BatchEndKeeps
\* The handler of p completes a message: the offset after it may be committed,
\* and the rest of the batch can go on.
LEMMA HandledCommittable ==
    ASSUME OffsetsInv, NEW p \in Partitions, stage[p] = "handler",
           handled' = [handled EXCEPT ![p] = @ \cup {message[p]}],
           skippable' = skippable, logStart' = logStart
    PROVE  /\ Grows /\ PositionsStay
           /\ handled' \in [Partitions -> SUBSET Int]
           /\ ResolveOffset(p) \in [Partitions -> Position]
           /\ \A q \in Partitions : ResolveOffset(p)[q] \in Committable'[q]
           /\ \A y \in batch[p] : \A x \in 0..(y - 1) : x \in batch[p] \/ Settled(p, x)'
<1>0. PICK m : m = message[p]
  OBVIOUS
<1>1. /\ handled \in [Partitions -> SUBSET Int] /\ skippable \in [Partitions -> Int]
      /\ logStart \in [Partitions -> Nat] /\ batch[p] \subseteq Nat
      /\ resolvedOffsets \in [Partitions -> Position]
  BY DEF OffsetsInv, OffsetTypes
<1>2. m \in Nat /\ m \in Committable[p] /\ BatchOK(p)
  BY <1>0 DEF OffsetsInv, LoopOK, InBatch, BatchOK
<1>3. handled' \in [Partitions -> SUBSET Int] /\ m \in handled'[p] /\ Grows
  BY <1>0, <1>1, <1>2 DEF Grows
<1>4. PositionsStay
  BY <1>3, CommittableStays DEF OffsetsInv, PositionsStay
<1>5. \A x \in Int : Settled(p, x) => Settled(p, x)'
  BY <1>3, SettledStays DEF OffsetsInv
<1>6. \A x \in 0..(m - 1) : Settled(p, x)
  BY <1>2, ConsumerOffsetsAssumption DEF Committable
<1>7. Settled(p, m)'
  BY <1>3 DEF Settled
<1>8. \A x \in 0..((m + 1) - 1) : Settled(p, x)'
  BY <1>2, <1>5, <1>6, <1>7
<1>9. m + 1 \in Committable'[p] /\ m + 1 \in Position
  BY <1>2, <1>8 DEF Committable, Position
<1>10. \A q \in Partitions : resolvedOffsets[q] \in Committable'[q]
  BY <1>4 DEF OffsetsInv, PositionsOK, PositionsStay
<1>11. /\ ResolveOffset(p) \in [Partitions -> Position]
       /\ \A q \in Partitions : ResolveOffset(p)[q] \in Committable'[q]
  BY <1>0, <1>1, <1>9, <1>10 DEF ResolveOffset
<1>12. \A y \in batch[p] : \A x \in 0..(y - 1) : x \in batch[p] \/ Settled(p, x)'
  BY <1>0, <1>1, <1>2, <1>5, <1>7 DEF BatchOK
<1> QED
  BY <1>3, <1>4, <1>11, <1>12

\* The handler resolves.
LEMMA HandlerResolvesKeeps ==
    ASSUME OffsetsInv, NEW p \in Partitions, HandlerResolves(p)
    PROVE  OffsetsInv'
<1>1. /\ skippable' = skippable /\ logStart' = logStart
      /\ assigned' = assigned /\ owned' = owned /\ generation' = generation
      /\ groupGeneration' = groupGeneration /\ groupOffset' = groupOffset
      /\ paused' = paused /\ seekOffset' = seekOffset /\ sincePause' = sincePause
      /\ fetchOffset' = fetchOffset /\ batch' = batch /\ replies' = replies
      /\ message' = [message EXCEPT ![p] = None]
      /\ committedOffsets' = committedOffsets
      /\ resolvedOffsets' = ResolveOffset(p)
      /\ stage[p] = "handler"
      /\ handled' = [handled EXCEPT ![p] = @ \cup {message[p]}]
  BY DEF HandlerResolves, groupVars, appVars, coordVars
<1>2. /\ Grows /\ PositionsStay
      /\ handled' \in [Partitions -> SUBSET Int]
      /\ ResolveOffset(p) \in [Partitions -> Position]
      /\ \A q \in Partitions : ResolveOffset(p)[q] \in Committable'[q]
      /\ \A y \in batch[p] : \A x \in 0..(y - 1) : x \in batch[p] \/ Settled(p, x)'
  BY <1>1, HandledCommittable
<1>3. OffsetsGood
  BY <1>1, <1>2 DEF OffsetsInv, OffsetTypes, PositionsOK, PositionsStay, OffsetsGood
<1>4. OwnBatchOnly(p)
  BY <1>1, <1>2 DEF OffsetsInv, OffsetTypes, Position, PositionsOK, PositionsStay,
                    OwnBatchOnly
<1>5. /\ Lands(p, "next") /\ requests' \in Seq(Request) /\ RequestsOK'
      /\ stage'[p] # "handler"
  <2>1. CASE AutoCommitOffsets(p, ResolveOffset(p), "next")
    BY <1>2, <2>1, AutoCommitLands DEF OffsetsInv, Lands
  <2>2. CASE Moves(p, "next") /\ after' = after /\ requests' = requests
    <3>1. Lands(p, "next") /\ stage'[p] # "handler"
      BY <2>2 DEF Moves, OffsetsInv, OffsetTypes, Actor, Stage, Lands
    <3> QED
      BY <1>2, <2>2, <3>1, RequestsKept DEF OffsetsInv
  <2> QED
    BY <2>1, <2>2 DEF HandlerResolves
<1>6. NetGood
  BY <1>1, <1>2, <1>5, RepliesKept DEF OffsetsInv, NetGood
<1>7. BatchOK(p)'
  BY <1>1, <1>2, <1>5 DEF BatchOK
<1> QED
  BY <1>1, <1>2, <1>3, <1>4, <1>5, <1>6, <1>7, LandingKeeps

\* The handler resolves and the heartbeat fails.
LEMMA HandlerResolvesInRebalanceKeeps ==
    ASSUME OffsetsInv, NEW p \in Partitions, HandlerResolvesInRebalance(p)
    PROVE  OffsetsInv'
<1>1. /\ skippable' = skippable /\ logStart' = logStart
      /\ assigned' = assigned /\ owned' = owned /\ generation' = generation
      /\ groupGeneration' = groupGeneration /\ groupOffset' = groupOffset
      /\ paused' = paused /\ seekOffset' = seekOffset /\ sincePause' = sincePause
      /\ fetchOffset' = fetchOffset /\ batch' = [batch EXCEPT ![p] = {}]
      /\ replies' = replies
      /\ message' = [message EXCEPT ![p] = None]
      /\ committedOffsets' = committedOffsets
      /\ resolvedOffsets' = ResolveOffset(p)
      /\ stage[p] = "handler"
      /\ handled' = [handled EXCEPT ![p] = @ \cup {message[p]}]
      /\ AutoCommitOffsets(p, ResolveOffset(p), "rebalance")
  BY DEF HandlerResolvesInRebalance, groupVars, appVars, coordVars
<1>2. /\ Grows /\ PositionsStay
      /\ handled' \in [Partitions -> SUBSET Int]
      /\ ResolveOffset(p) \in [Partitions -> Position]
      /\ \A q \in Partitions : ResolveOffset(p)[q] \in Committable'[q]
  BY <1>1, HandledCommittable
<1>3. OffsetsGood
  BY <1>1, <1>2 DEF OffsetsInv, OffsetTypes, PositionsOK, PositionsStay, OffsetsGood
<1>4. OwnBatchOnly(p)
  BY <1>1, <1>2 DEF OffsetsInv, OffsetTypes, Position, PositionsOK, PositionsStay,
                    OwnBatchOnly
<1>5. Lands(p, "rebalance") /\ requests' \in Seq(Request) /\ RequestsOK'
  BY <1>1, <1>2, AutoCommitLands DEF OffsetsInv
<1>6. NetGood
  BY <1>1, <1>2, <1>5, RepliesKept DEF OffsetsInv, NetGood
<1> QED
  BY <1>1, <1>2, <1>3, <1>4, <1>5, <1>6, LandingKeeps

\* A commit is answered: the offsets it carried are remembered.
LEMMA CommitReplyKeeps ==
    ASSUME OffsetsInv, NEW p \in Partitions, CommitReply(p)
    PROVE  OffsetsInv'
<1>1. /\ EnvironmentKept /\ sincePause' = sincePause /\ seekOffset' = seekOffset
      /\ fetchOffset' = fetchOffset /\ message' = message /\ requests' = requests
      /\ resolvedOffsets' = resolvedOffsets /\ Answered(p) /\ Takes
      /\ after' = [after EXCEPT ![p] = None] /\ stage[p] = "committing"
  BY DEF CommitReply, EnvironmentKept, LogKept, groupVars, appVars, coordVars, ghostVars
<1>2. Grows /\ PositionsStay
  BY <1>1, LogKeptGrows DEF EnvironmentKept
<1>3. /\ replies' \in Seq(Reply) /\ RepliesOK' /\ Carries(Head(replies).offs)
  BY <1>1, <1>2, TakesKeeps DEF OffsetsInv, Actor
<1>4. NetGood
  BY <1>1, <1>2, <1>3, RequestsKept DEF OffsetsInv, NetGood
<1>5. /\ after \in [Partitions -> {None, "top", "next", "retry", "rebalance"}]
      /\ stage \in [Actor -> Stage] /\ p \in Actor
      /\ committedOffsets \in [Partitions -> Position]
      /\ \A q \in Partitions : committedOffsets[q] \in Committable'[q]
      /\ batch \in [Partitions -> SUBSET Nat]
  BY <1>2 DEF OffsetsInv, OffsetTypes, Actor, PositionsOK, PositionsStay
<1>6. /\ after' \in [Partitions -> {None, "top", "next", "retry", "rebalance"}]
      /\ \A q \in Partitions \ {p} : after'[q] = after[q]
  BY <1>1, <1>5
<1>7. handled' \in [Partitions -> SUBSET Int]
  BY <1>1 DEF OffsetsInv, OffsetTypes, EnvironmentKept, LogKept
<1>8. CASE /\ committedOffsets' = Overridden(committedOffsets, Head(replies).offs)
           /\ GoesOn(p, after[p]) /\ batch' = batch
  <2>1. OffsetsGood
    <3>1. /\ committedOffsets' \in [Partitions -> Position]
          /\ \A q \in Partitions : committedOffsets'[q] \in Committable'[q]
      BY <1>3, <1>5, <1>8, OverriddenGood
    <3> QED
      BY <1>1, <1>2, <3>1 DEF OffsetsInv, OffsetTypes, PositionsOK, PositionsStay, OffsetsGood
  <2>2. OwnBatchOnly(p)
    BY <1>1, <1>2, <1>8 DEF OffsetsInv, OffsetTypes, PositionsOK, PositionsStay, OwnBatchOnly
  <2>3. \E s \in {"top", "next", "ended"} :
           stage' = [stage EXCEPT ![p] = s] /\ (s = "next" => after[p] = "next")
    BY <1>8 DEF GoesOn, Iterates, Moves, LoopFails
  <2>4. Lands(p, after[p]) /\ stage'[p] # "handler"
    BY <1>5, <1>6, <2>3 DEF Lands, InBatch, Stage
  <2>5. after[p] = "next" => BatchOK(p)'
    <3>1. HAVE after[p] = "next"
    <3>2. BatchOK(p)
      BY <1>1, <3>1 DEF OffsetsInv, LoopOK, InBatch
    <3>3. \A x \in Int : Settled(p, x) => Settled(p, x)'
      BY <1>2, SettledStays DEF OffsetsInv
    <3>4. batch[p] \subseteq Nat
      BY <1>5
    <3> QED
      BY <1>1, <1>8, <2>4, <3>2, <3>3, <3>4 DEF BatchOK
  <2> QED
    BY <1>1, <1>2, <1>4, <1>7, <2>1, <2>2, <2>4, <2>5, LandingKeeps
       DEF EnvironmentKept, LogKept
<1>9. CASE /\ LoopFails(p, Head(replies).error)
           /\ batch' = [batch EXCEPT ![p] = {}] /\ committedOffsets' = committedOffsets
  <2>1. OffsetsGood
    BY <1>1, <1>2, <1>9 DEF OffsetsInv, OffsetTypes, PositionsOK, PositionsStay, OffsetsGood
  <2>2. OwnBatchOnly(p)
    BY <1>1, <1>2, <1>9 DEF OffsetsInv, OffsetTypes, PositionsOK, PositionsStay, OwnBatchOnly
  <2>3. Lands(p, "top")
    BY <1>6, <1>9, LoopFailsLands DEF OffsetsInv
  <2> QED
    BY <1>1, <1>2, <1>4, <1>7, <2>1, <2>2, <2>3, LandingKeeps DEF EnvironmentKept, LogKept
<1> QED
  BY <1>8, <1>9 DEF CommitReply
\* A request fails in the client: the coordinator may still handle it, and its
\* response is not heard.
LEMMA UnheardKeeps ==
    ASSUME OffsetsInv, PositionsStay, NEW p \in Partitions,
           requests' = [i \in DOMAIN requests |->
                          IF requests[i].who = p THEN [requests[i] EXCEPT !.heard = FALSE]
                                                 ELSE requests[i]],
           replies' = Unanswered(p)
    PROVE  NetGood
<1>1. requests \in Seq(Request) /\ replies \in Seq(Reply)
  BY DEF OffsetsInv, OffsetTypes
<1>2. ASSUME NEW i \in DOMAIN requests
      PROVE  requests'[i] \in Request /\ requests'[i].offs = requests[i].offs
  <2>1. requests[i] \in Request
    BY <1>1, <1>2
  <2> QED
    BY <1>2, <2>1 DEF Request
<1>3. DOMAIN requests = 1..Len(requests) /\ Len(requests) \in Nat
      /\ DOMAIN requests' = DOMAIN requests
  BY <1>1
<1>4. requests' \in Seq(Request)
  BY <1>2, <1>3
<1>5. RequestsOK'
  <2>1. SUFFICES ASSUME NEW i \in DOMAIN requests', NEW q \in DOMAIN requests'[i].offs
                 PROVE  requests'[i].offs[q] \in Committable'[q]
    BY DEF RequestsOK
  <2>2. i \in DOMAIN requests /\ requests'[i].offs = requests[i].offs
        /\ requests'[i] \in Request
    BY <1>2, <1>3, <2>1
  <2>3. requests[i].offs \in OffsetMap
    BY <2>2 DEF Request
  <2>4. q \in Partitions
    BY <2>1, <2>2, <2>3, CarriesShape
  <2> QED
    BY <2>1, <2>2, <2>4 DEF OffsetsInv, RequestsOK, PositionsStay
<1>6. CASE replies' = replies
  BY <1>4, <1>5, <1>6, RepliesKept DEF OffsetsInv, NetGood
<1>7. CASE \E i \in DOMAIN replies :
              replies' = SubSeq(replies, 1, i - 1) \o SubSeq(replies, i + 1, Len(replies))
  <2>1. PICK i \in DOMAIN replies :
              replies' = SubSeq(replies, 1, i - 1) \o SubSeq(replies, i + 1, Len(replies))
    BY <1>7
  <2> DEFINE front == SubSeq(replies, 1, i - 1)
             back == SubSeq(replies, i + 1, Len(replies))
  <2>2. i \in 1..Len(replies) /\ Len(replies) \in Nat
    BY <1>1
  <2>3. /\ front \in Seq(Reply) /\ Len(front) = i - 1
        /\ \A k \in 1..(i - 1) : front[k] = replies[k]
    BY <1>1, <2>2
  <2>4. /\ back \in Seq(Reply) /\ Len(back) = Len(replies) - i
        /\ \A k \in 1..(Len(replies) - i) : back[k] = replies[k + i]
    BY <1>1, <2>2
  <2> HIDE DEF front, back
  <2>5. replies' = front \o back
    BY <2>1 DEF front, back
  <2>6. replies' \in Seq(Reply)
    BY <2>3, <2>4, <2>5
  <2>7. \A k \in DOMAIN replies' : \E j \in DOMAIN replies : replies'[k] = replies[j]
    <3>1. SUFFICES ASSUME NEW k \in DOMAIN replies'
                   PROVE  \E j \in DOMAIN replies : replies'[k] = replies[j]
      OBVIOUS
    <3>2. k \in 1..(Len(replies) - 1) /\ DOMAIN replies = 1..Len(replies)
      BY <1>1, <2>2, <2>3, <2>4, <2>5, <3>1
    <3>3. CASE k <= i - 1
      BY <2>2, <2>3, <2>4, <2>5, <3>2, <3>3
    <3>4. CASE k > i - 1
      <4>1. replies'[k] = back[k - (i - 1)] /\ k - (i - 1) \in 1..(Len(replies) - i)
        BY <2>2, <2>3, <2>4, <2>5, <3>2, <3>4
      <4>2. replies'[k] = replies[k + 1]
        BY <2>2, <2>4, <3>2, <4>1
      <4> QED
        BY <3>2, <4>2
    <3> QED
      BY <2>2, <3>2, <3>3, <3>4
  <2>8. RepliesOK'
    <3>1. SUFFICES ASSUME NEW k \in DOMAIN replies', NEW q \in DOMAIN replies'[k].offs
                   PROVE  replies'[k].offs[q] \in Committable'[q]
      BY DEF RepliesOK
    <3>2. PICK j \in DOMAIN replies : replies'[k] = replies[j]
      BY <2>7, <3>1
    <3>3. replies[j] \in Reply
      BY <1>1, <3>2
    <3>4. replies[j].offs \in OffsetMap
      BY <3>3 DEF Reply
    <3>5. q \in Partitions
      BY <3>1, <3>2, <3>4, CarriesShape
    <3> QED
      BY <3>1, <3>2, <3>5 DEF OffsetsInv, RepliesOK, PositionsStay
  <2> QED
    BY <1>4, <1>5, <2>6, <2>8 DEF NetGood
<1> QED
  BY <1>6, <1>7 DEF Unanswered

\* A request for offsets fails.
LEMMA RequestFailsKeeps ==
    ASSUME OffsetsInv, NEW p \in Partitions, RequestFails(p)
    PROVE  OffsetsInv'
<1>1. /\ EnvironmentKept /\ sincePause' = sincePause /\ seekOffset' = seekOffset
      /\ fetchOffset' = fetchOffset /\ message' = message
      /\ batch' = [batch EXCEPT ![p] = {}]
      /\ resolvedOffsets' = resolvedOffsets /\ committedOffsets' = committedOffsets
      /\ after' = [after EXCEPT ![p] = None]
      /\ LoopFails(p, "retry")
  BY DEF RequestFails, EnvironmentKept, LogKept, groupVars, appVars, coordVars, offsetVars
<1>2. Grows /\ PositionsStay
  BY <1>1, LogKeptGrows DEF EnvironmentKept
<1>3. NetGood
  BY <1>2, UnheardKeeps DEF RequestFails
<1>4. OffsetsGood /\ OwnBatchOnly(p)
  BY <1>1, <1>2 DEF OffsetsInv, OffsetTypes, PositionsOK, PositionsStay, OffsetsGood,
                    OwnBatchOnly
<1>5. /\ after' \in [Partitions -> {None, "top", "next", "retry", "rebalance"}]
      /\ \A q \in Partitions \ {p} : after'[q] = after[q]
  BY <1>1 DEF OffsetsInv, OffsetTypes
<1>6. Lands(p, "top")
  BY <1>1, <1>5, LoopFailsLands DEF OffsetsInv
<1>7. handled' \in [Partitions -> SUBSET Int]
  BY <1>1 DEF OffsetsInv, OffsetTypes, EnvironmentKept, LogKept
<1> QED
  BY <1>1, <1>2, <1>3, <1>4, <1>6, <1>7, LandingKeeps DEF EnvironmentKept, LogKept

\* A step of an actor that joins the group, or of the runner: loops are where
\* they were, begin again, or join.
LEMMA JoiningKeeps ==
    ASSUME OffsetsInv, LogKept, assigned' \subseteq Partitions, owned' = owned,
           generation' \in Position, groupGeneration' = groupGeneration,
           groupOffset' = groupOffset, paused' = paused, seekOffset' = seekOffset,
           sincePause' = sincePause, after' = after, fetchOffset' = fetchOffset,
           batch' = batch, message' = message, OffsetsGood, NetGood,
           stage' \in [Actor -> Stage],
           \A q \in Partitions :
              stage'[q] = stage[q] \/ stage'[q] \in {"top", "joining", "syncing", "rejoining"}
    PROVE  OffsetsInv'
<1>1. Grows /\ PositionsStay
  BY LogKeptGrows
<1>2. OffsetTypes'
  BY DEF OffsetsInv, OffsetTypes, LogKept, OffsetsGood, NetGood
<1>3. PositionsOK'
  BY <1>1 DEF OffsetsInv, PositionsOK, PositionsStay, OffsetsGood
<1>4. \A q \in Partitions : LoopOK(q)'
  <2>1. SUFFICES ASSUME NEW q \in Partitions PROVE LoopOK(q)'
    OBVIOUS
  <2>2. CASE stage'[q] = stage[q]
    BY <1>1, <2>2, LoopStays DEF OffsetsInv, LoopKept
  <2>3. CASE stage'[q] \in {"top", "joining", "syncing", "rejoining"}
    BY <2>3, LoopElsewhere DEF InBatch
  <2> QED
    BY <2>2, <2>3
<1>5. QuietOK'
  BY QuietStays DEF OffsetsInv
<1> QED
  BY <1>2, <1>3, <1>4, <1>5 DEF OffsetsInv, NetGood

\* scheduleFetchManager() starts the fetchers again.
LEMMA RestartKeeps ==
    ASSUME OffsetsInv, Restart
    PROVE  OffsetsInv'
<1>1. /\ LogKept /\ assigned' = assigned /\ owned' = owned /\ generation' = generation
      /\ groupGeneration' = groupGeneration /\ groupOffset' = groupOffset
      /\ paused' = paused /\ seekOffset' = seekOffset /\ sincePause' = sincePause
      /\ after' = after /\ fetchOffset' = fetchOffset /\ batch' = batch
      /\ message' = message /\ replies' = replies
      /\ resolvedOffsets' = resolvedOffsets /\ committedOffsets' = committedOffsets
  BY DEF Restart, LogKept, groupVars, coordVars, ghostVars, appVars, offsetVars
<1>2. Grows /\ PositionsStay
  BY <1>1, LogKeptGrows
<1>3. OffsetsGood
  BY <1>1, <1>2 DEF OffsetsInv, OffsetTypes, PositionsOK, PositionsStay, OffsetsGood
<1>4. /\ stage \in [Actor -> Stage] /\ Runner \in Actor /\ Runner \notin Partitions
      /\ generation \in Position /\ assigned \subseteq Partitions
      /\ \A q \in Partitions : q \in Actor
  BY ConsumerOffsetsAssumption DEF OffsetsInv, OffsetTypes, Actor
<1>5. requests' \in Seq(Request) /\ RequestsOK'
  <2>1. CASE requests' = requests
    BY <1>2, <2>1, RequestsKept DEF OffsetsInv
  <2>2. CASE Sends(Runner, "join", <<>>, None)
    BY <1>2, <1>4, <2>2, CarriesNothing, SendsKeeps DEF OffsetsInv, Position
  <2> QED
    BY <2>1, <2>2 DEF Restart
<1>6. NetGood
  BY <1>1, <1>2, <1>5, RepliesKept DEF OffsetsInv, NetGood
<1>7. /\ stage' \in [Actor -> Stage]
      /\ \A q \in Partitions : stage'[q] = stage[q] \/ stage'[q] = "top"
  <2>1. CASE stage' = [a \in DOMAIN stage |-> IF a = Runner THEN "watching" ELSE "top"]
    BY <1>4, <2>1 DEF Stage
  <2>2. CASE Moves(Runner, "joining")
    BY <1>4, <2>2 DEF Moves, Stage
  <2> QED
    BY <2>1, <2>2 DEF Restart
<1> QED
  BY <1>1, <1>3, <1>4, <1>6, <1>7, JoiningKeeps

\* JOIN is answered.
LEMMA JoinReplyKeeps ==
    ASSUME OffsetsInv, NEW a \in Actor, JoinReply(a)
    PROVE  OffsetsInv'
<1>1. /\ LogKept /\ assigned' = assigned /\ owned' = owned /\ generation' = generation
      /\ groupGeneration' = groupGeneration /\ groupOffset' = groupOffset
      /\ paused' = paused /\ seekOffset' = seekOffset /\ sincePause' = sincePause
      /\ after' = after /\ fetchOffset' = fetchOffset /\ batch' = batch
      /\ message' = message /\ Answered(a) /\ Takes
      /\ resolvedOffsets' = resolvedOffsets /\ committedOffsets' = committedOffsets
      /\ Sends(a, "sync", <<>>, Head(replies).gen) /\ Moves(a, "syncing")
  BY DEF JoinReply, LogKept, groupVars, coordVars, ghostVars, appVars, offsetVars
<1>2. Grows /\ PositionsStay
  BY <1>1, LogKeptGrows
<1>3. OffsetsGood
  BY <1>1, <1>2 DEF OffsetsInv, OffsetTypes, PositionsOK, PositionsStay, OffsetsGood
<1>4. /\ replies' \in Seq(Reply) /\ RepliesOK' /\ Head(replies) \in Reply
  BY <1>1, <1>2, TakesKeeps DEF OffsetsInv
<1>5. Head(replies).gen \in Position
  BY <1>4 DEF Reply
<1>6. NetGood
  BY <1>1, <1>2, <1>4, <1>5, CarriesNothing, SendsKeeps DEF OffsetsInv, NetGood
<1>7. /\ stage' \in [Actor -> Stage]
      /\ \A q \in Partitions : stage'[q] = stage[q] \/ stage'[q] = "syncing"
      /\ generation \in Position /\ assigned \subseteq Partitions
  BY <1>1 DEF Moves, OffsetsInv, OffsetTypes, Actor, Stage
<1> QED
  BY <1>1, <1>3, <1>6, <1>7, JoiningKeeps

\* SYNC is answered: the new offset manager knows no offsets.
LEMMA SyncReplyKeeps ==
    ASSUME OffsetsInv, NEW a \in Actor, SyncReply(a)
    PROVE  OffsetsInv'
<1>1. /\ LogKept /\ owned' = owned
      /\ groupGeneration' = groupGeneration /\ groupOffset' = groupOffset
      /\ paused' = paused /\ seekOffset' = seekOffset /\ sincePause' = sincePause
      /\ after' = after /\ fetchOffset' = fetchOffset /\ batch' = batch
      /\ message' = message /\ Answered(a) /\ Takes /\ requests' = requests
  BY DEF SyncReply, LogKept, coordVars, ghostVars, appVars
<1>2. Grows /\ PositionsStay
  BY <1>1, LogKeptGrows
<1>3. /\ replies' \in Seq(Reply) /\ RepliesOK' /\ Head(replies) \in Reply
      /\ DOMAIN Head(replies).offs \subseteq Partitions
  BY <1>1, <1>2, TakesKeeps DEF OffsetsInv
<1>4. Head(replies).gen \in Position
  BY <1>3 DEF Reply
<1>5. NetGood
  BY <1>1, <1>2, <1>3, RequestsKept DEF OffsetsInv, NetGood
<1>6. /\ stage \in [Actor -> Stage] /\ generation \in Position
      /\ assigned \subseteq Partitions /\ \A q \in Partitions : q \in Actor
      /\ Runner \notin Partitions
  BY ConsumerOffsetsAssumption DEF OffsetsInv, OffsetTypes, Actor
<1>7. OffsetsGood
  <2>1. CASE /\ resolvedOffsets' = [p \in Partitions |-> None]
             /\ committedOffsets' = [p \in Partitions |-> None]
    BY <2>1 DEF OffsetsGood, Position, Committable
  <2>2. CASE UNCHANGED offsetVars
    BY <1>2, <2>2 DEF OffsetsInv, OffsetTypes, PositionsOK, PositionsStay, OffsetsGood,
                      offsetVars
  <2> QED
    BY <2>1, <2>2 DEF SyncReply
<1>8. assigned' \subseteq Partitions /\ generation' \in Position
  BY <1>3, <1>4, <1>6 DEF SyncReply, groupVars
<1>9. /\ stage' \in [Actor -> Stage]
      /\ \A q \in Partitions : stage'[q] = stage[q] \/ stage'[q] \in {"top", "rejoining"}
  <2>1. CASE stage' = [x \in DOMAIN stage |-> IF x = Runner THEN "watching" ELSE "top"]
    BY <1>6, <2>1 DEF Stage
  <2>2. CASE Moves(a, "top") \/ Moves(a, "rejoining")
    BY <1>6, <2>2 DEF Moves, Stage
  <2> QED
    BY <2>1, <2>2 DEF SyncReply, Iterates
<1> QED
  BY <1>1, <1>5, <1>7, <1>8, <1>9, JoiningKeeps

\* The group is joined once more.
LEMMA RejoinKeeps ==
    ASSUME OffsetsInv, NEW a \in Actor, Rejoin(a)
    PROVE  OffsetsInv'
<1>1. /\ LogKept /\ assigned' = assigned /\ owned' = owned /\ generation' = generation
      /\ groupGeneration' = groupGeneration /\ groupOffset' = groupOffset
      /\ paused' = paused /\ seekOffset' = seekOffset /\ sincePause' = sincePause
      /\ after' = after /\ fetchOffset' = fetchOffset /\ batch' = batch
      /\ message' = message /\ replies' = replies
      /\ resolvedOffsets' = resolvedOffsets /\ committedOffsets' = committedOffsets
      /\ Sends(a, "join", <<>>, None) /\ Moves(a, "joining")
  BY DEF Rejoin, LogKept, groupVars, coordVars, ghostVars, appVars, offsetVars
<1>2. Grows /\ PositionsStay
  BY <1>1, LogKeptGrows
<1>3. OffsetsGood
  BY <1>1, <1>2 DEF OffsetsInv, OffsetTypes, PositionsOK, PositionsStay, OffsetsGood
<1>4. None \in Position
  BY DEF Position
<1>5. NetGood
  BY <1>1, <1>2, <1>4, CarriesNothing, SendsKeeps, RepliesKept DEF OffsetsInv, NetGood
<1>6. /\ stage' \in [Actor -> Stage]
      /\ \A q \in Partitions : stage'[q] = stage[q] \/ stage'[q] = "joining"
      /\ generation \in Position /\ assigned \subseteq Partitions
  BY <1>1 DEF Moves, OffsetsInv, OffsetTypes, Actor, Stage
<1> QED
  BY <1>1, <1>3, <1>5, <1>6, JoiningKeeps
\* A step of the application, the coordinator or the other member: every loop
\* is where it was.
LEMMA EnvironmentKeeps ==
    ASSUME OffsetsInv, Grows, OffsetTypes', PositionsOK', RequestsOK', RepliesOK', QuietOK',
           UNCHANGED loopVars
    PROVE  OffsetsInv'
<1>1. \A q \in Partitions : LoopKept(q)
  BY DEF LoopKept, loopVars
<1>2. \A q \in Partitions : LoopOK(q)'
  BY <1>1, LoopStays DEF OffsetsInv
<1> QED
  BY <1>2 DEF OffsetsInv

\* seek(): what is below its offset is skipped.
LEMMA SeekKeeps ==
    ASSUME OffsetsInv, NEW p \in Partitions, NEW o \in SeekTargets, Seek(p, o)
    PROVE  OffsetsInv'
<1>1. o \in Int
  BY ConsumerOffsetsAssumption
<1>2. /\ seekOffset \in [Partitions -> Position] /\ skippable \in [Partitions -> Int]
      /\ logStart \in [Partitions -> Nat]
  BY DEF OffsetsInv, OffsetTypes
<1>3. /\ seekOffset' = [seekOffset EXCEPT ![p] = o]
      /\ skippable' = [skippable EXCEPT ![p] = IF o > @ THEN o ELSE @]
      /\ handled' = handled /\ logStart' = logStart
      /\ requests' = requests /\ replies' = replies
      /\ paused' = paused /\ sincePause' = sincePause
      /\ UNCHANGED loopVars /\ UNCHANGED groupVars /\ UNCHANGED offsetVars
      /\ UNCHANGED coordVars
  BY DEF Seek, netVars
<1>4. /\ skippable' \in [Partitions -> Int]
      /\ \A q \in Partitions : skippable[q] <= skippable'[q]
      /\ skippable'[p] >= o
  BY <1>1, <1>2, <1>3
<1>5. Grows
  BY <1>2, <1>3, <1>4 DEF Grows
<1>6. PositionsStay
  BY <1>5, CommittableStays DEF OffsetsInv, PositionsStay
<1>7. NetGood
  BY <1>3, <1>6, RequestsKept, RepliesKept DEF OffsetsInv, NetGood
<1>8. OffsetTypes'
  BY <1>1, <1>3, <1>4, <1>7 DEF OffsetsInv, OffsetTypes, NetGood, Position, loopVars,
     groupVars, offsetVars, coordVars
<1>9. o \in Committable'[p]
  <2>1. \A x \in 0..(o - 1) : Settled(p, x)'
    BY <1>1, <1>4 DEF Settled
  <2> QED
    BY <1>1, <2>1 DEF Committable
<1>10. PositionsOK'
  <2>1. \A q \in Partitions : seekOffset'[q] \in Committable'[q]
    BY <1>2, <1>3, <1>6, <1>9 DEF OffsetsInv, PositionsOK, PositionsStay
  <2> QED
    BY <1>3, <1>6, <2>1 DEF OffsetsInv, PositionsOK, PositionsStay, loopVars, offsetVars,
       coordVars
<1>11. QuietOK'
  BY <1>3, QuietStays DEF OffsetsInv, loopVars
<1> QED
  BY <1>3, <1>5, <1>7, <1>8, <1>10, <1>11, EnvironmentKeeps DEF NetGood

\* pause() and resume().
LEMMA PauseKeeps ==
    ASSUME OffsetsInv, NEW p \in Partitions, Pause(p) \/ Resume(p)
    PROVE  OffsetsInv'
<1>1. /\ LogKept /\ UNCHANGED loopVars /\ UNCHANGED groupVars /\ UNCHANGED offsetVars
      /\ UNCHANGED coordVars /\ UNCHANGED netVars /\ seekOffset' = seekOffset
  BY DEF Pause, Resume, LogKept, ghostVars
<1>2. Grows /\ PositionsStay
  BY <1>1, LogKeptGrows
<1>3. NetGood
  BY <1>1, <1>2, RequestsKept, RepliesKept DEF OffsetsInv, NetGood, netVars
<1>4. paused \in [Partitions -> BOOLEAN] /\ sincePause \in [Partitions -> Nat]
  BY DEF OffsetsInv, OffsetTypes
<1>5. /\ paused' \in [Partitions -> BOOLEAN] /\ sincePause' \in [Partitions -> Nat]
      /\ QuietOK'
  <2>1. CASE Pause(p)
    BY <1>1, <1>4, <2>1 DEF Pause, ghostVars, OffsetsInv, QuietOK, loopVars
  <2>2. CASE Resume(p)
    <3>1. /\ paused' = [paused EXCEPT ![p] = FALSE]
          /\ sincePause' = [sincePause EXCEPT ![p] = 0]
      BY <2>2 DEF Resume
    <3> QED
      BY <1>1, <1>4, <3>1 DEF OffsetsInv, QuietOK, loopVars
  <2> QED
    BY <2>1, <2>2
<1>6. OffsetTypes'
  BY <1>1, <1>3, <1>5 DEF OffsetsInv, OffsetTypes, NetGood, loopVars, groupVars,
     offsetVars, coordVars, LogKept
<1>7. PositionsOK'
  BY <1>1, <1>2 DEF OffsetsInv, PositionsOK, PositionsStay, loopVars, offsetVars, coordVars
<1> QED
  BY <1>1, <1>2, <1>3, <1>5, <1>6, <1>7, EnvironmentKeeps DEF NetGood

\* A position of the group from which the coordinator lets a member go on.
LEMMA GroupPositionGood ==
    ASSUME OffsetsInv, NEW p \in Partitions
    PROVE  GroupPosition(p) \in Committable[p] /\ GroupPosition(p) \in Int
<1>1. /\ groupOffset[p] \in Position /\ groupOffset[p] \in Committable[p]
      /\ logStart[p] \in Nat
  BY DEF OffsetsInv, OffsetTypes, PositionsOK
<1>2. \A x \in 0..(logStart[p] - 1) : Settled(p, x)
  BY <1>1 DEF Settled
<1>3. logStart[p] \in Committable[p]
  BY <1>1, <1>2 DEF Committable
<1> QED
  BY <1>1, <1>3 DEF GroupPosition, IsInvalidOffset, Position

\* The coordinator handles the oldest request, however old it is.
LEMMA CoordinatorHandlesKeeps ==
    ASSUME OffsetsInv, NEW refuse \in BOOLEAN, CoordinatorHandles(refuse)
    PROVE  OffsetsInv'
<1>1. /\ LogKept /\ UNCHANGED loopVars /\ UNCHANGED groupVars /\ UNCHANGED offsetVars
      /\ UNCHANGED appVars /\ sincePause' = sincePause
  BY DEF CoordinatorHandles, LogKept
<1>2. Grows /\ PositionsStay /\ Committable' = Committable
  BY <1>1, LogKeptGrows, CommittableSame DEF LogKept
<1> DEFINE req == Head(requests)
           ok == (req.op \in {"join", "fetch"} \/ req.gen = groupGeneration) /\ ~refuse
           offs == CASE req.op = "fetch" -> [p \in DOMAIN req.offs |-> GroupPosition(p)]
                     [] req.op = "sync" -> [p \in owned' |-> None]
                     [] OTHER -> req.offs
           rep == [who |-> req.who, ok |-> ok,
                   error |-> IF refuse THEN "retry" ELSE "rebalance",
                   gen |-> IF req.op = "join" THEN groupGeneration' ELSE req.gen,
                   offs |-> offs]
<1>3. /\ requests # <<>> /\ requests' = Tail(requests)
      /\ groupGeneration' = IF req.op = "join" THEN groupGeneration + 1 ELSE groupGeneration
      /\ groupOffset' = IF req.op = "commit" /\ ok THEN Overridden(groupOffset, req.offs)
                        ELSE groupOffset
      /\ owned' \in IF req.op = "sync" /\ ok THEN Assignments ELSE {owned}
      /\ replies' = IF ~req.heard THEN replies ELSE Append(replies, rep)
  BY DEF CoordinatorHandles
<1>4. /\ requests \in Seq(Request) /\ replies \in Seq(Reply) /\ groupGeneration \in Int
      /\ groupOffset \in [Partitions -> Position] /\ owned \subseteq Partitions
  BY DEF OffsetsInv, OffsetTypes
<1>5. /\ req \in Request /\ requests' \in Seq(Request)
      /\ 1 \in DOMAIN requests /\ req = requests[1]
  BY <1>3, <1>4
<1>6. /\ req.who \in Actor /\ req.offs \in OffsetMap /\ req.gen \in Position
      /\ req.op \in {"commit", "fetch", "join", "sync"}
  BY <1>5 DEF Request
<1>7. Carries(req.offs) /\ DOMAIN req.offs \subseteq Partitions
  <2>1. \A p \in DOMAIN req.offs : req.offs[p] \in Committable[p]
    BY <1>5 DEF OffsetsInv, RequestsOK
  <2> QED
    BY <1>2, <1>6, <2>1, CarriesShape DEF Carries
<1>8. RequestsOK'
  <2>1. SUFFICES ASSUME NEW i \in DOMAIN requests', NEW p \in DOMAIN requests'[i].offs
                 PROVE  requests'[i].offs[p] \in Committable'[p]
    BY DEF RequestsOK
  <2>2. i + 1 \in DOMAIN requests /\ requests'[i] = requests[i + 1]
    BY <1>3, <1>4, <2>1
  <2> QED
    BY <1>2, <2>1, <2>2 DEF OffsetsInv, RequestsOK
<1>9. owned' \subseteq Partitions /\ groupGeneration' \in Int
  BY <1>3, <1>4, ConsumerOffsetsAssumption
<1>10. Carries(offs)
  <2>1. CASE req.op = "fetch"
    <3>1. offs = [p \in DOMAIN req.offs |-> GroupPosition(p)]
      BY <2>1
    <3>2. \A p \in DOMAIN req.offs : /\ GroupPosition(p) \in Committable'[p]
                                     /\ GroupPosition(p) \in Position
      BY <1>2, <1>7, GroupPositionGood DEF Position
    <3> HIDE DEF offs
    <3>3. /\ offs \in [DOMAIN req.offs -> Position]
          /\ \A p \in DOMAIN req.offs : offs[p] \in Committable'[p]
      BY <3>1, <3>2
    <3> QED
      BY <1>7, <3>3, CarriesMap
  <2>2. CASE req.op = "sync"
    <3>1. offs = [p \in owned' |-> None]
      BY <2>2
    <3> HIDE DEF offs
    <3>2. /\ offs \in [owned' -> Position]
          /\ \A p \in owned' : offs[p] \in Committable'[p]
      BY <1>9, <3>1 DEF Position, Committable
    <3> QED
      BY <1>9, <3>2, CarriesMap
  <2>3. CASE req.op \in {"commit", "join"}
    BY <1>7, <2>3
  <2> QED
    BY <1>6, <2>1, <2>2, <2>3
<1> HIDE DEF offs
<1>11. rep \in Reply /\ rep.offs = offs
  <2>1. (IF req.op = "join" THEN groupGeneration' ELSE req.gen) \in Position
    BY <1>6, <1>9 DEF Position
  <2>2. ok \in BOOLEAN
    OBVIOUS
  <2>3. offs \in OffsetMap
    BY <1>10 DEF Carries
  <2> HIDE DEF ok
  <2> QED
    BY <1>6, <2>1, <2>2, <2>3 DEF Reply
<1> HIDE DEF rep
<1>12. replies' \in Seq(Reply) /\ RepliesOK'
  <2>1. CASE replies' = replies
    BY <1>2, <2>1, RepliesKept DEF OffsetsInv
  <2>2. CASE replies' = Append(replies, rep)
    <3>1. replies' \in Seq(Reply)
      BY <1>4, <1>11, <2>2
    <3>2. SUFFICES ASSUME NEW i \in DOMAIN replies', NEW p \in DOMAIN replies'[i].offs
                   PROVE  replies'[i].offs[p] \in Committable'[p]
      BY <3>1 DEF RepliesOK
    <3>3. CASE i \in DOMAIN replies
      <4>1. replies'[i] = replies[i]
        BY <1>4, <2>2, <3>3
      <4> QED
        BY <1>2, <3>2, <3>3, <4>1 DEF OffsetsInv, RepliesOK
    <3>4. CASE i = Len(replies) + 1
      <4>1. replies'[i] = rep
        BY <1>4, <2>2, <3>4
      <4> QED
        BY <1>10, <1>11, <3>2, <4>1 DEF Carries
    <3> QED
      BY <1>4, <2>2, <3>2, <3>3, <3>4
  <2> QED
    BY <1>3, <2>1, <2>2
<1>13. /\ groupOffset' \in [Partitions -> Position]
       /\ \A p \in Partitions : groupOffset'[p] \in Committable'[p]
  <2>1. \A p \in Partitions : groupOffset[p] \in Committable'[p]
    BY <1>2 DEF OffsetsInv, PositionsOK
  <2>2. /\ Overridden(groupOffset, req.offs) \in [Partitions -> Position]
        /\ \A p \in Partitions : Overridden(groupOffset, req.offs)[p] \in Committable'[p]
    BY <1>4, <1>7, <2>1, OverriddenGood
  <2> QED
    BY <1>3, <1>4, <2>1, <2>2
<1>14. OffsetTypes'
  BY <1>1, <1>5, <1>9, <1>12, <1>13 DEF OffsetsInv, OffsetTypes, loopVars, groupVars,
     offsetVars, appVars, LogKept
<1>15. PositionsOK'
  BY <1>1, <1>2, <1>13 DEF OffsetsInv, PositionsOK, loopVars, offsetVars, appVars
<1>16. QuietOK'
  BY <1>1, QuietStays DEF OffsetsInv, loopVars, appVars
<1> QED
  BY <1>1, <1>2, <1>8, <1>12, <1>14, <1>15, <1>16, EnvironmentKeeps

\* The coordinator takes this member for dead.
LEMMA EvictKeeps ==
    ASSUME OffsetsInv, Evict
    PROVE  OffsetsInv'
<1>1. /\ LogKept /\ UNCHANGED loopVars /\ UNCHANGED groupVars /\ UNCHANGED offsetVars
      /\ UNCHANGED netVars /\ UNCHANGED appVars /\ sincePause' = sincePause
      /\ groupOffset' = groupOffset /\ owned' = {} /\ groupGeneration' = groupGeneration + 1
  BY DEF Evict, LogKept
<1>2. Grows /\ PositionsStay
  BY <1>1, LogKeptGrows
<1>3. NetGood
  BY <1>1, <1>2, RequestsKept, RepliesKept DEF OffsetsInv, NetGood, netVars
<1>4. OffsetTypes'
  BY <1>1, <1>3 DEF OffsetsInv, OffsetTypes, NetGood, loopVars, groupVars,
     offsetVars, appVars, LogKept
<1>5. PositionsOK'
  BY <1>1, <1>2 DEF OffsetsInv, PositionsOK, PositionsStay, loopVars, offsetVars, appVars
<1>6. QuietOK'
  BY <1>1, QuietStays DEF OffsetsInv, loopVars, appVars
<1> QED
  BY <1>1, <1>2, <1>3, <1>4, <1>5, <1>6, EnvironmentKeeps DEF NetGood

\* The other member handles a record, and commits.
LEMMA OtherMemberKeeps ==
    ASSUME OffsetsInv, NEW p \in Partitions, OtherMember(p)
    PROVE  OffsetsInv'
<1>1. PICK o : o = Max({GroupPosition(p), logStart[p]})
  OBVIOUS
<1>2. /\ handled' = IF <<p, o>> \in Control THEN handled
                    ELSE [handled EXCEPT ![p] = @ \cup {o}]
      /\ groupOffset' = [groupOffset EXCEPT ![p] = o + 1]
      /\ skippable' = skippable /\ logStart' = logStart
      /\ UNCHANGED loopVars /\ UNCHANGED groupVars /\ UNCHANGED offsetVars
      /\ UNCHANGED netVars /\ UNCHANGED appVars /\ sincePause' = sincePause
      /\ owned' = owned /\ groupGeneration' = groupGeneration
  BY <1>1 DEF OtherMember
<1>3. /\ handled \in [Partitions -> SUBSET Int] /\ logStart \in [Partitions -> Nat]
      /\ skippable \in [Partitions -> Int] /\ groupOffset \in [Partitions -> Position]
  BY DEF OffsetsInv, OffsetTypes
<1>4. GroupPosition(p) \in Committable[p] /\ GroupPosition(p) \in Int
  BY GroupPositionGood
<1>5. o \in {GroupPosition(p), logStart[p]} /\ o \in Int
  <2>1. \E x \in {GroupPosition(p), logStart[p]} :
           \A y \in {GroupPosition(p), logStart[p]} : x >= y
    BY <1>3, <1>4
  <2> QED
    BY <1>1, <1>3, <1>4, <2>1 DEF Max
<1>6. \A x \in 0..(o - 1) : Settled(p, x)
  <2>1. CASE o = GroupPosition(p)
    BY <1>4, <2>1, ConsumerOffsetsAssumption DEF Committable
  <2>2. CASE o = logStart[p]
    BY <1>3, <2>2 DEF Settled
  <2> QED
    BY <1>5, <2>1, <2>2
<1>7. /\ handled' \in [Partitions -> SUBSET Int]
      /\ \A q \in Partitions : handled[q] \subseteq handled'[q]
      /\ <<p, o>> \in Control \/ o \in handled'[p]
  BY <1>2, <1>3, <1>5
<1>8. Grows
  BY <1>2, <1>3, <1>7 DEF Grows
<1>9. PositionsStay
  BY <1>8, CommittableStays DEF OffsetsInv, PositionsStay
<1>10. \A x \in Int : Settled(p, x) => Settled(p, x)'
  BY <1>8, SettledStays DEF OffsetsInv
<1>11. Settled(p, o)'
  BY <1>7 DEF Settled
<1>12. \A x \in 0..((o + 1) - 1) : Settled(p, x)'
  BY <1>5, <1>6, <1>10, <1>11
<1>13. o + 1 \in Committable'[p] /\ o + 1 \in Position
  BY <1>5, <1>12 DEF Committable, Position
<1>14. NetGood
  BY <1>2, <1>9, RequestsKept, RepliesKept DEF OffsetsInv, NetGood, netVars
<1>15. /\ groupOffset' \in [Partitions -> Position]
       /\ \A q \in Partitions : groupOffset'[q] \in Committable'[q]
  BY <1>2, <1>3, <1>9, <1>13 DEF OffsetsInv, PositionsOK, PositionsStay
<1>16. OffsetTypes'
  BY <1>2, <1>7, <1>14, <1>15 DEF OffsetsInv, OffsetTypes, NetGood, loopVars, groupVars,
     offsetVars, appVars
<1>17. PositionsOK'
  BY <1>2, <1>9, <1>15 DEF OffsetsInv, PositionsOK, PositionsStay, loopVars, offsetVars, appVars
<1>18. QuietOK'
  BY <1>2, QuietStays DEF OffsetsInv, loopVars, appVars
<1> QED
  BY <1>2, <1>8, <1>14, <1>16, <1>17, <1>18, EnvironmentKeeps DEF NetGood

\* Retention deletes a record.
LEMMA RetentionKeeps ==
    ASSUME OffsetsInv, NEW p \in Partitions, Retention(p)
    PROVE  OffsetsInv'
<1>1. /\ logStart' = [logStart EXCEPT ![p] = @ + 1]
      /\ handled' = handled /\ skippable' = skippable
      /\ UNCHANGED loopVars /\ UNCHANGED groupVars /\ UNCHANGED offsetVars
      /\ UNCHANGED netVars /\ UNCHANGED appVars /\ UNCHANGED coordVars
      /\ sincePause' = sincePause
  BY DEF Retention
<1>2. /\ logStart \in [Partitions -> Nat] /\ handled \in [Partitions -> SUBSET Int]
      /\ skippable \in [Partitions -> Int]
  BY DEF OffsetsInv, OffsetTypes
<1>3. logStart' \in [Partitions -> Nat] /\ Grows
  BY <1>1, <1>2 DEF Grows
<1>4. PositionsStay
  BY <1>3, CommittableStays DEF OffsetsInv, PositionsStay
<1>5. NetGood
  BY <1>1, <1>4, RequestsKept, RepliesKept DEF OffsetsInv, NetGood, netVars
<1>6. OffsetTypes'
  BY <1>1, <1>3, <1>5 DEF OffsetsInv, OffsetTypes, NetGood, loopVars, groupVars,
     offsetVars, appVars, coordVars
<1>7. PositionsOK'
  BY <1>1, <1>4 DEF OffsetsInv, PositionsOK, PositionsStay, loopVars, offsetVars, appVars,
     coordVars
<1>8. QuietOK'
  BY <1>1, QuietStays DEF OffsetsInv, loopVars, appVars
<1> QED
  BY <1>1, <1>3, <1>5, <1>6, <1>7, <1>8, EnvironmentKeeps DEF NetGood

\* Nothing happens.
LEMMA OffsetsStutter ==
    ASSUME OffsetsInv, UNCHANGED vars
    PROVE  OffsetsInv'
<1>1. /\ LogKept /\ UNCHANGED loopVars /\ UNCHANGED groupVars /\ UNCHANGED offsetVars
      /\ UNCHANGED netVars /\ UNCHANGED appVars /\ UNCHANGED coordVars
      /\ sincePause' = sincePause
  BY DEF vars, LogKept, ghostVars
<1>2. Grows /\ PositionsStay
  BY <1>1, LogKeptGrows
<1>3. NetGood
  BY <1>1, <1>2, RequestsKept, RepliesKept DEF OffsetsInv, NetGood, netVars
<1>4. OffsetTypes'
  BY <1>1, <1>3 DEF OffsetsInv, OffsetTypes, NetGood, loopVars, groupVars,
     offsetVars, appVars, coordVars, LogKept
<1>5. PositionsOK'
  BY <1>1, <1>2 DEF OffsetsInv, PositionsOK, PositionsStay, loopVars, offsetVars, appVars,
     coordVars
<1>6. QuietOK'
  BY <1>1, QuietStays DEF OffsetsInv, loopVars, appVars
<1> QED
  BY <1>1, <1>2, <1>3, <1>4, <1>5, <1>6, EnvironmentKeeps DEF NetGood

\* Every step keeps the invariant.
LEMMA OffsetsStep ==
    ASSUME OffsetsInv, [Next]_vars
    PROVE  OffsetsInv'
<1>1. ASSUME NEW p \in Partitions, LoopStep(p) PROVE OffsetsInv'
  BY <1>1, FetchBeginsKeeps, LoopStopsKeeps, SeekReplyKeeps, ResolveReplyKeeps,
     FetchReplyKeeps, OffsetOutOfRangeKeeps, FilteredBatchKeeps, FirstMessageKeeps,
     NextMessageKeeps, HandlerResolvesKeeps, CommitReplyKeeps DEF LoopStep
<1>2. ASSUME NEW a \in Partitions \cup {Runner}, JoinStep(a) PROVE OffsetsInv'
  BY <1>2, JoinReplyKeeps, SyncReplyKeeps, RejoinKeeps DEF JoinStep, Actor
<1>3. CASE Fault
  BY <1>3, StaleMetadataKeeps, HandlerResolvesInRebalanceKeeps, HandlerRejectsKeeps,
     HeartbeatFailsKeeps, RequestFailsKeeps, RetentionKeeps, CoordinatorHandlesKeeps,
     EvictKeeps DEF Fault
<1>4. CASE Application
  <2>1. Steered \subseteq Partitions
    BY ConsumerOffsetsAssumption
  <2> QED
    BY <1>4, <2>1, SeekKeeps, PauseKeeps DEF Application
<1>5. CASE UNCHANGED vars
  BY <1>5, OffsetsStutter
<1> QED
  BY <1>1, <1>2, <1>3, <1>4, <1>5, OtherMemberKeeps, RestartKeeps, CoordinatorHandlesKeeps
     DEF Next

-----------------------------------------------------------------------------
(* Theorems                                                                *)

\* Every offset of the member, the coordinator or a message between them may be
\* committed, whatever fails and however late it arrives.
THEOREM OffsetsInvariant == Spec => []OffsetsInv
<1>1. Init => OffsetsInv
  BY OffsetsInit
<1>2. OffsetsInv /\ [Next]_vars => OffsetsInv'
  BY OffsetsStep
<1> QED
  BY <1>1, <1>2, PTL DEF Spec

\* At least once: the group's offset never passes a message that no handler has
\* completed, unless a seek or retention skipped it (offsetManager/index.js
\* commitOffsets with runner.js processEachMessage).
THEOREM AtLeastOnce == Spec => []HandledBeforeCommitted
<1>1. OffsetsInv => HandledBeforeCommitted
  <2>1. SUFFICES ASSUME OffsetsInv, NEW p \in Partitions, ~IsInvalidOffset(groupOffset[p]),
                        NEW o \in 0..(groupOffset[p] - 1)
                 PROVE  Settled(p, o)
    BY DEF HandledBeforeCommitted, Settled
  <2>2. groupOffset[p] \in Committable[p]
    BY <2>1 DEF OffsetsInv, PositionsOK
  <2> QED
    BY <2>1, <2>2 DEF Committable, IsInvalidOffset
<1> QED
  BY <1>1, OffsetsInvariant, PTL

\* A paused partition gets at most one message, of a batch that was in the queue
\* when it was paused (runner.js processEachMessage).
THEOREM PausesAreQuiet == Spec => []PausedIsQuiet
<1>1. OffsetsInv => PausedIsQuiet
  BY DEF OffsetsInv, QuietOK, PausedIsQuiet
<1> QED
  BY <1>1, OffsetsInvariant, PTL
=============================================================================

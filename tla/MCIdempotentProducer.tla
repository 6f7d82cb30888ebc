------------------------ MODULE MCIdempotentProducer ------------------------
(***************************************************************************)
(* Applications of the idempotent producer: which calls, of which messages,*)
(* awaited or not, on which partitions.                                    *)
(***************************************************************************)
EXTENDS IdempotentProducer, TLC

CONSTANTS A, B,          \* brokers
          p, q,          \* partitions
          s1, s2, s3,    \* calls of send()
          m1, m2, m3     \* messages

MCLeader == (p :> A) @@ (q :> A)

\* s1 then s2 to partition p, each awaited; s3 at any time to partition q.
AwaitedMessages == (s1 :> {m1}) @@ (s2 :> {m2}) @@ (s3 :> {m3})
AwaitedTargets == (m1 :> {p}) @@ (m2 :> {p}) @@ (m3 :> {q})
AwaitedBefore == (s1 :> {}) @@ (s2 :> {s1}) @@ (s3 :> {})

\* The theorems of IdempotentProducerProofs are about this instance.
ASSUME UsedSequentially == SequentialUse
=============================================================================

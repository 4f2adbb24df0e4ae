----------------------------- MODULE Distribute -----------------------------
(***************************************************************************)
(* The distributing producers of src/v2/distributing_producer.go: which    *)
(* partition the messages of a Distribute call go to, with several         *)
(* goroutines that share a producer.                                       *)
(*                                                                         *)
(* The hash of a key is any number of Bits bits; int32(hasher.Sum32()) has *)
(* 32 of them.                                                             *)
(*                                                                         *)
(* An operator that nothing uses and that stands right before another one  *)
(* is the other one with a slip in it.                                     *)
(***************************************************************************)
EXTENDS Integers, Sequences

CONSTANTS
    Callers,         \* the goroutines
    PartitionCounts, \* the numbers of partitions of topics
    Keys,            \* message keys
    nil,             \* no key
    Batches,         \* the keys of the messages of a Distribute call
    MinInt,          \* the smallest number: math.MinInt32
    MaxCalls         \* bound: Distribute calls

ASSUME DistributeAssumption ==
    /\ PartitionCounts \subseteq Nat /\ nil \notin Keys
    /\ Batches \subseteq Seq(Keys \cup {nil})
    /\ MinInt \in Int /\ MinInt < 0 /\ MaxCalls \in Nat

VARIABLES
    kind,        \* which of the three producers it is
    partitions,  \* numPartitions
    sum,         \* the hash of each key, as a signed number
    next,        \* of the round robin producer
    pc, keys, part,  \* of each goroutine: where it is, the keys of its messages and
                     \* their destination
    picked,      \* how often each partition was chosen
    calls,
    panicked

vars == <<kind, partitions, sum, next, pc, keys, part, picked, calls, panicked>>

Numbers == MinInt..(-MinInt - 1)

\* The partitions there are; 0 will be made when there are none.
Destinations == IF partitions = 0 THEN {0} ELSE 0..(partitions - 1)

Init ==
    /\ kind \in {"random", "roundRobin", "hash"}
    /\ partitions \in PartitionCounts
    /\ sum \in IF kind = "hash" THEN [Keys -> Numbers] ELSE [Keys -> {0}]
    /\ next = 0 /\ calls = 0 /\ panicked = FALSE
    /\ pc = [c \in Callers |-> "idle"] /\ keys = [c \in Callers |-> <<>>] /\ part = [c \in Callers |-> 0]
    /\ picked = [p \in Destinations |-> 0]

\* producer.Produce is called with the messages and the partition p.
Produce(c, ks, p) ==
    /\ pc' = [pc EXCEPT ![c] = "produce"]
    /\ part' = [part EXCEPT ![c] = p] /\ keys' = [keys EXCEPT ![c] = ks]
    /\ UNCHANGED panicked

Panic == panicked' = TRUE /\ UNCHANGED <<pc, keys, part>>

\* Distribute returns an error.
Refuse == UNCHANGED <<pc, keys, part, panicked>>

-----------------------------------------------------------------------------

\* rand.Intn panics with 0.
Intn(c, ks, n) == IF n <= 0 THEN Panic ELSE \E p \in 0..(n - 1) : Produce(c, ks, p)

RandomUnguarded(c, ks) == Intn(c, ks, partitions)

RandomDistribute(c, ks) == IF partitions > 0 THEN Intn(c, ks, partitions) ELSE Produce(c, ks, 0)

\* The goroutine comes to p.mu.Lock().
RoundRobinDistribute(c, ks) ==
    /\ pc' = [pc EXCEPT ![c] = "lock"] /\ keys' = [keys EXCEPT ![c] = ks]
    /\ UNCHANGED <<part, panicked>>

MayLockAlways == TRUE

\* Nobody is between p.mu.Lock() and p.mu.Unlock().
MayLock == \A d \in Callers : pc[d] \notin {"read", "advance"}

Lock(c) ==
    /\ pc[c] = "lock" /\ MayLock
    /\ pc' = [pc EXCEPT ![c] = "read"]
    /\ UNCHANGED <<kind, partitions, sum, next, keys, part, picked, calls, panicked>>

\* part := p.next
Read(c) ==
    /\ pc[c] = "read"
    /\ pc' = [pc EXCEPT ![c] = "advance"]
    /\ part' = [part EXCEPT ![c] = next] /\ picked' = [picked EXCEPT ![next] = @ + 1]
    /\ UNCHANGED <<kind, partitions, sum, next, keys, calls, panicked>>

NextLate(n) == IF n + 1 > partitions THEN 0 ELSE n + 1

NextAfter(n) == IF n + 1 >= partitions THEN 0 ELSE n + 1

\* p.next++ ... p.mu.Unlock(), and producer.Produce is called.
Advance(c) ==
    /\ pc[c] = "advance"
    /\ pc' = [pc EXCEPT ![c] = "produce"]
    /\ next' = NextAfter(next)
    /\ UNCHANGED <<kind, partitions, sum, keys, part, picked, calls, panicked>>

-----------------------------------------------------------------------------

\* -sum of the smallest number is that number.
Negated(n) == IF n = MinInt THEN n ELSE -n

\* Go's % has the sign of the dividend.
Rem(a, n) == IF a >= 0 THEN a % n ELSE -((-a) % n)

SignKept(n) == Rem(n, partitions)

\* The destination for a hash.
HashPartition(n) == Rem(IF n < 0 THEN Negated(n) ELSE n, partitions)

\* for i := 2; i < len(messages); i++
Compared(ks) ==
    \A i \in 3..Len(ks) : ks[i] # nil /\ HashPartition(sum[ks[i]]) = HashPartition(sum[ks[1]])

HashDistribute(c, ks) ==
    IF ks = <<>> THEN Refuse
    ELSE IF ks[1] = nil THEN Refuse
    ELSE IF partitions = 0 THEN Panic
    ELSE IF Compared(ks) THEN Produce(c, ks, HashPartition(sum[ks[1]]))
    ELSE Refuse

Distribute(c) ==
    /\ pc[c] = "idle" /\ calls < MaxCalls /\ ~panicked
    /\ calls' = calls + 1
    /\ \E ks \in Batches :
          \/ kind = "random" /\ RandomDistribute(c, ks)
          \/ kind = "roundRobin" /\ RoundRobinDistribute(c, ks)
          \/ kind = "hash" /\ HashDistribute(c, ks)
    /\ UNCHANGED <<kind, partitions, sum, next, picked>>

\* Produce returns, with or without an error.
Return(c) ==
    /\ pc[c] = "produce"
    /\ pc' = [pc EXCEPT ![c] = "idle"] /\ keys' = [keys EXCEPT ![c] = <<>>] /\ part' = [part EXCEPT ![c] = 0]
    /\ UNCHANGED <<kind, partitions, sum, next, picked, calls, panicked>>

Next == \E c \in Callers : Distribute(c) \/ Lock(c) \/ Read(c) \/ Advance(c) \/ Return(c)

Spec == Init /\ [][Next]_vars

-----------------------------------------------------------------------------
(* Properties.                                                             *)

\* Types; the next partition of the round robin producer is one there is.
TypeOK ==
    /\ kind \in {"random", "roundRobin", "hash"} /\ partitions \in PartitionCounts
    /\ sum \in [Keys -> Numbers] /\ next \in Destinations /\ calls \in Nat /\ panicked \in BOOLEAN
    /\ pc \in [Callers -> {"idle", "lock", "read", "advance", "produce"}] /\ keys \in [Callers -> Batches \cup {<<>>}]
    /\ part \in [Callers -> Int] /\ picked \in [Destinations -> Nat]

\* "[0, numPartitions) range" (NewRandomProducer, NewRoundRobinProducer,
\* NewHashProducer): messages go to a partition there is.  The exception is a key
\* whose hash is math.MinInt32, which has no positive counterpart.
InRange ==
    \A c \in Callers : pc[c] = "produce" =>
        part[c] \in Destinations \/ (kind = "hash" /\ sum[keys[c][1]] = MinInt)

\* However many goroutines call Distribute of a round robin producer at a time, no
\* partition is chosen more than once more often than another: p.mu keeps two of
\* them from reading the same p.next.
Balanced == \A p, q \in Destinations : picked[p] <= picked[q] + 1

\* "All messages passed within single Produce call must hash to the same
\* destination, otherwise no message is written and error is returned."
\* (hashProducer.Distribute)
OneDestination ==
    \A c \in Callers : kind = "hash" /\ pc[c] = "produce" =>
        \A i \in 1..Len(keys[c]) : keys[c][i] # nil /\ HashPartition(sum[keys[c][i]]) = part[c]

\* "In the case there are no partitions, which may happen for new topics when
\* AllowTopicCreation is passed, we will write to partition 0 since rand.Intn
\* panics with 0" (randomProducer.Distribute): a topic without partitions ends the
\* program only with the hash producer, whose sum % partitions has no such guard.
NewTopicAllowed == panicked => kind = "hash" /\ partitions = 0
=============================================================================

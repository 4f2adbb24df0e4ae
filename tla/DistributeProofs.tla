-------------------------- MODULE DistributeProofs --------------------------
(***************************************************************************)
(* Proofs about the distributing producers, for any number of goroutines   *)
(* and partitions, any hash of the keys and any width of it.               *)
(***************************************************************************)
EXTENDS Distribute, TLAPS

\* Go's % stays below the divisor.
LEMMA RemRange == \A a \in Nat, n \in Nat \ {0} : Rem(a, n) \in 0..(n - 1)
  BY DEF Rem

\* A hash other than the smallest number gives a partition there is.
LEMMA HashPartitionRange ==
    ASSUME partitions \in Nat \ {0}, NEW n \in Numbers, n # MinInt
    PROVE  HashPartition(n) \in Destinations
  <1>1. (IF n < 0 THEN Negated(n) ELSE n) \in Nat
    BY DistributeAssumption DEF Numbers, Negated
  <1> QED  BY <1>1, RemRange DEF HashPartition, Destinations

\* A destination is an integer, whatever the hash.
LEMMA HashPartitionInt ==
    ASSUME partitions \in Nat \ {0}, NEW n \in Numbers
    PROVE  HashPartition(n) \in Int
  BY DistributeAssumption DEF HashPartition, Rem, Numbers, Negated

-----------------------------------------------------------------------------

\* A new producer is of its type.
LEMMA TypeInit == Init => TypeOK
  <1> SUFFICES ASSUME Init PROVE TypeOK
    OBVIOUS
  <1>1. partitions \in Nat
    BY DistributeAssumption DEF Init
  <1>2. 0 \in Destinations
    BY <1>1 DEF Destinations
  <1>3. 0 \in Numbers
    BY DistributeAssumption DEF Numbers
  <1>4. sum \in [Keys -> Numbers]
    BY <1>3 DEF Init
  <1>5. picked \in [Destinations -> Nat]
    BY DEF Init
  <1> QED  BY <1>2, <1>4, <1>5 DEF Init, TypeOK

\* Types are kept.
LEMMA TypeStep == TypeOK /\ [Next]_vars => TypeOK'
  <1> SUFFICES ASSUME TypeOK, [Next]_vars PROVE TypeOK'
    OBVIOUS
  <1> USE DistributeAssumption
  <1>1. ASSUME NEW c \in Callers, Distribute(c) PROVE TypeOK'
    <2>0. PICK ks \in Batches :
             \/ kind = "random" /\ RandomDistribute(c, ks)
             \/ kind = "roundRobin" /\ RoundRobinDistribute(c, ks)
             \/ kind = "hash" /\ HashDistribute(c, ks)
      BY <1>1 DEF Distribute
    <2>1. calls' \in Nat /\ UNCHANGED <<kind, partitions, sum, next, picked, Destinations>>
      BY <1>1 DEF Distribute, TypeOK, Destinations
    <2>2. ASSUME NEW p \in Int, Produce(c, ks, p) PROVE TypeOK'
      BY <2>1, <2>2 DEF Produce, TypeOK
    <2>3. CASE RandomDistribute(c, ks)
      <3>1. \E p \in Int : Produce(c, ks, p)
        BY <2>3 DEF RandomDistribute, Intn, TypeOK
      <3> QED  BY <2>2, <3>1
    <2>4. CASE RoundRobinDistribute(c, ks)
      BY <2>1, <2>4 DEF RoundRobinDistribute, TypeOK
    <2>5. CASE HashDistribute(c, ks)
      <3>1. CASE Refuse
        BY <2>1, <3>1 DEF Refuse, TypeOK
      <3>2. CASE Panic
        BY <2>1, <3>2 DEF Panic, TypeOK
      <3>3. CASE /\ ks # <<>> /\ ks[1] # nil /\ partitions # 0
                 /\ Produce(c, ks, HashPartition(sum[ks[1]]))
        <4>1. ks[1] \in Keys
          BY <3>3
        <4>2. HashPartition(sum[ks[1]]) \in Int
          BY <3>3, <4>1, HashPartitionInt DEF TypeOK
        <4> QED  BY <2>2, <3>3, <4>2
      <3> QED  BY <2>5, <3>1, <3>2, <3>3 DEF HashDistribute
    <2> QED  BY <2>0, <2>3, <2>4, <2>5
  <1>2. ASSUME NEW c \in Callers, Lock(c) \/ Return(c) PROVE TypeOK'
    <2>1. CASE Lock(c)
      BY <2>1 DEF Lock, TypeOK, Destinations
    <2>2. CASE Return(c)
      BY <2>2 DEF Return, TypeOK, Destinations
    <2> QED  BY <1>2, <2>1, <2>2
  <1>3. ASSUME NEW c \in Callers, Read(c) PROVE TypeOK'
    <2>1. Destinations' = Destinations /\ next \in Int
      BY <1>3 DEF Read, TypeOK, Destinations
    <2>2. picked' \in [Destinations -> Nat]
      BY <1>3 DEF Read, TypeOK
    <2> QED  BY <1>3, <2>1, <2>2 DEF Read, TypeOK
  <1>4. ASSUME NEW c \in Callers, Advance(c) PROVE TypeOK'
    <2>1. Destinations' = Destinations
      BY <1>4 DEF Advance, Destinations
    <2>2. next' \in Destinations
      BY <1>4 DEF Advance, NextAfter, TypeOK, Destinations
    <2> QED  BY <1>4, <2>1, <2>2 DEF Advance, TypeOK
  <1>5. CASE UNCHANGED vars
    BY <1>5 DEF vars, TypeOK, Destinations
  <1> QED  BY <1>1, <1>2, <1>3, <1>4, <1>5 DEF Next

\* TypeOK holds for every number of goroutines and partitions.
THEOREM TypeCorrect == Spec => []TypeOK
  BY TypeInit, TypeStep, PTL DEF Spec

-----------------------------------------------------------------------------

\* The goroutines between p.mu.Lock() and p.mu.Unlock().
Holders == {c \in Callers : pc[c] \in {"read", "advance"}}

\* p.mu is a mutex.
OneHolder == \A c, d \in Holders : c = d

\* The first partition that was not yet chosen in this round: the next one, or the
\* one after it when a goroutine has read p.next and not yet advanced it.
Front == IF \E c \in Callers : pc[c] = "advance" THEN next + 1 ELSE next

\* Rounds are complete up to Front: the partitions before it were chosen once more
\* often.
Rounds == \E r \in Nat : \A p \in Destinations : picked[p] = IF p < Front THEN r + 1 ELSE r

\* A new producer has completed no round, and nobody has its lock.
LEMMA RoundsInit == Init => OneHolder /\ Rounds
  <1> SUFFICES ASSUME Init PROVE OneHolder /\ Rounds
    OBVIOUS
  <1>1. partitions \in Nat
    BY DistributeAssumption DEF Init
  <1>2. \A c \in Callers : pc[c] = "idle"
    BY DEF Init
  <1>3. Front = 0 /\ Holders = {}
    BY <1>2 DEF Init, Front, Holders
  <1>4. \A p \in Destinations : picked[p] = 0 /\ ~(p < Front)
    BY <1>1, <1>3 DEF Init, Destinations
  <1> QED  BY <1>3, <1>4 DEF Rounds, OneHolder

\* The mutex excludes, since Lock waits for the other holder.
LEMMA HolderStep == TypeOK /\ OneHolder /\ [Next]_vars => OneHolder'
  <1> SUFFICES ASSUME TypeOK, OneHolder, [Next]_vars PROVE OneHolder'
    OBVIOUS
  <1>1. ASSUME Holders' \subseteq Holders PROVE OneHolder'
    BY <1>1 DEF OneHolder
  <1>2. ASSUME NEW c \in Callers, Distribute(c) PROVE OneHolder'
    <2>1. \A d \in Callers : pc'[d] \in {"read", "advance"} => pc[d] \in {"read", "advance"}
      BY <1>2 DEF Distribute, RandomDistribute, Intn, RoundRobinDistribute, HashDistribute,
                  Produce, Panic, Refuse, TypeOK
    <2> QED  BY <1>1, <2>1 DEF Holders
  <1>3. ASSUME NEW c \in Callers, Lock(c) PROVE OneHolder'
    <2>1. Holders = {}
      BY <1>3 DEF Lock, MayLock, Holders
    <2>2. Holders' \subseteq Holders \cup {c}
      BY <1>3 DEF Lock, Holders, TypeOK
    <2> QED  BY <2>1, <2>2 DEF OneHolder
  <1>4. ASSUME NEW c \in Callers, Read(c) \/ Advance(c) \/ Return(c) PROVE OneHolder'
    <2>1. Holders' \subseteq Holders
      BY <1>4 DEF Read, Advance, Return, Holders, TypeOK
    <2> QED  BY <1>1, <2>1
  <1>5. CASE UNCHANGED vars
    BY <1>1, <1>5 DEF vars, Holders
  <1> QED  BY <1>2, <1>3, <1>4, <1>5 DEF Next

\* The round robin producer goes on to the next partition, or begins a new round
\* after the last one.
LEMMA RoundsStep == TypeOK /\ OneHolder /\ Rounds /\ [Next]_vars => Rounds'
  <1> SUFFICES ASSUME TypeOK, OneHolder, Rounds, [Next]_vars PROVE Rounds'
    OBVIOUS
  <1>0. partitions \in Nat /\ next \in Destinations /\ next \in Nat /\ picked \in [Destinations -> Nat]
    BY DistributeAssumption DEF TypeOK, Destinations
  <1>1. PICK r \in Nat : \A p \in Destinations : picked[p] = IF p < Front THEN r + 1 ELSE r
    BY DEF Rounds
  <1>2. ASSUME UNCHANGED <<partitions, next, picked>>,
               \A d \in Callers : pc'[d] = "advance" <=> pc[d] = "advance"
        PROVE  Rounds'
    <2>1. Front' = Front /\ Destinations' = Destinations
      BY <1>2 DEF Front, Destinations
    <2> QED  BY <1>1, <1>2, <2>1 DEF Rounds
  <1>3. ASSUME NEW c \in Callers, Distribute(c) PROVE Rounds'
    <2>1. \A d \in Callers : pc'[d] = "advance" <=> pc[d] = "advance"
      BY <1>3 DEF Distribute, RandomDistribute, Intn, RoundRobinDistribute, HashDistribute,
                  Produce, Panic, Refuse, TypeOK
    <2> QED  BY <1>2, <1>3, <2>1 DEF Distribute
  <1>4. ASSUME NEW c \in Callers, Lock(c) \/ Return(c) PROVE Rounds'
    <2>1. \A d \in Callers : pc'[d] = "advance" <=> pc[d] = "advance"
      BY <1>4 DEF Lock, Return, TypeOK
    <2> QED  BY <1>2, <1>4, <2>1 DEF Lock, Return
  <1>5. ASSUME NEW c \in Callers, Read(c) PROVE Rounds'
    <2>1. \A d \in Callers : pc[d] # "advance"
      BY <1>5 DEF Read, OneHolder, Holders
    <2>2. pc'[c] = "advance" /\ next' = next /\ Destinations' = Destinations
      BY <1>5 DEF Read, TypeOK, Destinations
    <2>3. Front = next /\ Front' = next + 1
      BY <2>1, <2>2 DEF Front
    <2>4. \A p \in Destinations : picked'[p] = IF p < next + 1 THEN r + 1 ELSE r
      BY <1>0, <1>1, <1>5, <2>3 DEF Read, Destinations
    <2> QED  BY <2>2, <2>3, <2>4 DEF Rounds
  <1>6. ASSUME NEW c \in Callers, Advance(c) PROVE Rounds'
    <2>1. \A d \in Callers : pc'[d] # "advance"
      BY <1>6 DEF Advance, OneHolder, Holders, TypeOK
    <2>2. Front = next + 1 /\ Front' = next' /\ Destinations' = Destinations /\ picked' = picked
      BY <1>6, <2>1 DEF Advance, Front, Destinations
    <2>3. CASE next + 1 >= partitions
      <3>1. next' = 0 /\ \A p \in Destinations : p < next + 1 /\ ~(p < 0)
        BY <1>0, <1>6, <2>3 DEF Advance, NextAfter, Destinations
      <3>2. \A p \in Destinations' : picked'[p] = IF p < Front' THEN r + 2 ELSE r + 1
        BY <1>1, <2>2, <3>1
      <3>3. r + 1 \in Nat /\ (r + 1) + 1 = r + 2
        OBVIOUS
      <3> QED  BY <3>2, <3>3 DEF Rounds
    <2>4. CASE next + 1 < partitions
      <3>1. next' = next + 1
        BY <1>0, <1>6, <2>4 DEF Advance, NextAfter
      <3> QED  BY <1>1, <2>2, <3>1 DEF Rounds
    <2> QED  BY <1>0, <2>3, <2>4
  <1>7. CASE UNCHANGED vars
    BY <1>2, <1>7 DEF vars
  <1> QED  BY <1>3, <1>4, <1>5, <1>6, <1>7 DEF Next

\* The round robin producer chooses all partitions equally often, up to one.
THEOREM RoundRobinBalanced == Spec => []Balanced
  <1>1. TypeOK /\ Rounds => Balanced
    <2> SUFFICES ASSUME TypeOK, Rounds, NEW p \in Destinations, NEW q \in Destinations
                 PROVE  picked[p] <= picked[q] + 1
      BY DEF Balanced
    <2>1. PICK r \in Nat : \A d \in Destinations : picked[d] = IF d < Front THEN r + 1 ELSE r
      BY DEF Rounds
    <2>2. picked[p] \in {r, r + 1} /\ picked[q] \in {r, r + 1}
      BY <2>1
    <2> QED  BY <2>2
  <1> QED  BY <1>1, TypeCorrect, RoundsInit, HolderStep, RoundsStep, PTL DEF Spec

-----------------------------------------------------------------------------

\* What the goroutines that have a destination were told, also those that have not
\* released p.mu yet; and who panics.
Chosen ==
    /\ \A c \in Callers : pc[c] \in {"advance", "produce"} =>
          part[c] \in Destinations \/ (kind = "hash" /\ sum[keys[c][1]] = MinInt)
    /\ NewTopicAllowed

\* Nobody is in Produce at first.
LEMMA ChosenInit == Init => Chosen
  BY DEF Init, Chosen, NewTopicAllowed

\* Each of the three producers makes a right choice.
LEMMA ChosenStep == TypeOK /\ Chosen /\ [Next]_vars => Chosen'
  <1> SUFFICES ASSUME TypeOK, Chosen, [Next]_vars PROVE Chosen'
    OBVIOUS
  <1> USE DistributeAssumption
  <1>0. partitions \in Nat
    BY DEF TypeOK
  \* A goroutine that gets a destination leaves the others theirs.
  <1>1. ASSUME NEW c \in Callers, NEW ks \in Batches, NEW p \in Int, Produce(c, ks, p),
               UNCHANGED <<kind, partitions, sum>>,
               p \in Destinations \/ (kind = "hash" /\ sum[ks[1]] = MinInt)
        PROVE  Chosen'
    <2>1. \A d \in Callers \ {c} : pc'[d] = pc[d] /\ keys'[d] = keys[d] /\ part'[d] = part[d]
      BY <1>1 DEF Produce, TypeOK
    <2>2. keys'[c] = ks /\ part'[c] = p
      BY <1>1 DEF Produce, TypeOK
    <2>3. Destinations' = Destinations
      BY <1>1 DEF Destinations
    <2> QED  BY <1>1, <2>1, <2>2, <2>3 DEF Chosen, NewTopicAllowed, Produce
  \* So does one that gets none.
  <1>2. ASSUME UNCHANGED <<kind, partitions, sum, panicked>>,
               \A d \in Callers : pc'[d] \in {"advance", "produce"} =>
                   /\ pc[d] \in {"advance", "produce"}
                   /\ keys'[d] = keys[d] /\ part'[d] = part[d]
        PROVE  Chosen'
    BY <1>2 DEF Chosen, NewTopicAllowed, Destinations
  <1>3. ASSUME NEW c \in Callers, Distribute(c) PROVE Chosen'
    <2>0. PICK ks \in Batches :
             \/ kind = "random" /\ RandomDistribute(c, ks)
             \/ kind = "roundRobin" /\ RoundRobinDistribute(c, ks)
             \/ kind = "hash" /\ HashDistribute(c, ks)
      BY <1>3 DEF Distribute
    <2>1. UNCHANGED <<kind, partitions, sum>>
      BY <1>3 DEF Distribute
    <2>2. CASE kind = "random" /\ RandomDistribute(c, ks)
      <3>1. \E p \in Destinations : p \in Int /\ Produce(c, ks, p)
        BY <1>0, <2>2 DEF RandomDistribute, Intn, Destinations
      <3> QED  BY <1>1, <2>1, <3>1
    <2>3. CASE kind = "roundRobin" /\ RoundRobinDistribute(c, ks)
      <3>1. \A d \in Callers : pc'[d] \in {"advance", "produce"} =>
               pc[d] \in {"advance", "produce"} /\ keys'[d] = keys[d] /\ part'[d] = part[d]
        BY <2>3 DEF RoundRobinDistribute, TypeOK
      <3> QED  BY <1>2, <2>1, <2>3, <3>1 DEF RoundRobinDistribute
    <2>4. CASE kind = "hash" /\ HashDistribute(c, ks)
      <3>1. CASE Refuse
        BY <1>2, <2>1, <3>1 DEF Refuse
      <3>2. CASE Panic /\ partitions = 0
        BY <2>1, <2>4, <3>2 DEF Panic, Chosen, NewTopicAllowed, Destinations
      <3>3. CASE /\ ks # <<>> /\ ks[1] # nil /\ partitions # 0
                 /\ Produce(c, ks, HashPartition(sum[ks[1]]))
        <4>1. ks[1] \in Keys /\ sum[ks[1]] \in Numbers
          BY <3>3 DEF TypeOK
        <4>2. HashPartition(sum[ks[1]]) \in Int
          BY <1>0, <3>3, <4>1, HashPartitionInt
        <4>3. HashPartition(sum[ks[1]]) \in Destinations \/ sum[ks[1]] = MinInt
          BY <1>0, <3>3, <4>1, HashPartitionRange
        <4> QED  BY <1>1, <2>1, <2>4, <3>3, <4>2, <4>3
      <3> QED  BY <2>4, <3>1, <3>2, <3>3 DEF HashDistribute
    <2> QED  BY <2>0, <2>2, <2>3, <2>4
  <1>4. ASSUME NEW c \in Callers, Lock(c) \/ Advance(c) \/ Return(c) PROVE Chosen'
    <2>1. \A d \in Callers : pc'[d] \in {"advance", "produce"} =>
             pc[d] \in {"advance", "produce"} /\ keys'[d] = keys[d] /\ part'[d] = part[d]
      BY <1>4 DEF Lock, Advance, Return, TypeOK
    <2> QED  BY <1>2, <1>4, <2>1 DEF Lock, Advance, Return
  <1>5. ASSUME NEW c \in Callers, Read(c) PROVE Chosen'
    <2>1. \A d \in Callers \ {c} : pc'[d] = pc[d] /\ part'[d] = part[d]
      BY <1>5 DEF Read, TypeOK
    <2>2. part'[c] \in Destinations /\ Destinations' = Destinations
      BY <1>5 DEF Read, TypeOK, Destinations
    <2> QED  BY <1>5, <2>1, <2>2 DEF Read, Chosen, NewTopicAllowed
  <1>6. CASE UNCHANGED vars
    BY <1>2, <1>6 DEF vars
  <1> QED  BY <1>3, <1>4, <1>5, <1>6 DEF Next

\* Messages go to partitions there are, except for the hash math.MinInt32.
THEOREM DestinationInRange == Spec => []InRange
  <1>1. Chosen => InRange
    BY DEF Chosen, InRange
  <1> QED  BY <1>1, TypeCorrect, ChosenInit, ChosenStep, PTL DEF Spec

\* Only the hash producer panics for a topic without partitions: the random one does
\* not come to rand.Intn then.
THEOREM NewTopics == Spec => []NewTopicAllowed
  <1>1. Chosen => NewTopicAllowed
    BY DEF Chosen
  <1> QED  BY <1>1, TypeCorrect, ChosenInit, ChosenStep, PTL DEF Spec
=============================================================================

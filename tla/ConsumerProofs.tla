--------------------------- MODULE ConsumerProofs ---------------------------
(***************************************************************************)
(* Theorems about Consumer, for any numbers of producers, messages, faults *)
(* and retries.                                                            *)
(***************************************************************************)
EXTENDS Consumer, TLAPS

\* The leaves are Zenon's, but those that cite SMT.
USE Zenon

-----------------------------------------------------------------------------
(* The log and its producers.                                              *)

Entry == [offset : Nat, payload : Payloads, ok : BOOLEAN, entry : Nat]

\* What a write has to do with the log.
WriteInv(w, messages) ==
    /\ w.pc = "send" => w.msgs # <<>>
    /\ w.pc = "ok" => \A i \in 1..Len(w.msgs) : /\ w.offsets[i] \in 0..(Len(messages) - 1)
                                                /\ messages[w.offsets[i] + 1].payload = w.msgs[i]

\* Messages have consecutive offsets and belong to entries that begin at or before
\* them; an entry is damaged only where that can happen.
LogShape ==
    /\ log \in Seq(Entry) /\ start \in Nat
    /\ \A i \in 1..Len(log) : log[i].offset = i - 1 /\ log[i].entry <= i - 1
    /\ format \notin CorruptFormats => \A i \in 1..Len(log) : log[i].ok = TRUE

Writes == [pc : {"idle", "send", "ok", "sent", "stored", "error"}, msgs : Seq(Payloads), retry : Nat,
           offsets : Seq(Int)]

\* The inductive invariant of the log and its producers: a Produce that succeeded
\* knows where its messages are.
LogInv ==
    /\ LogShape
    /\ writes \in [Producers -> Writes]
    /\ \A p \in Producers : WriteInv(writes[p], log)

\* The messages that are in the log stay there.
Extends(new, old) ==
    /\ Len(old) \in Nat /\ Len(new) \in Nat /\ Len(old) <= Len(new)
    /\ \A i \in 1..Len(old) : new[i].payload = old[i].payload

\* c is a followed by b.
Joins(c, a, b) ==
    /\ Len(c) = Len(a) + Len(b) /\ Len(a) \in Nat /\ Len(b) \in Nat
    /\ \A i \in 1..Len(a) : c[i] = a[i]
    /\ \A i \in 1..Len(b) : c[Len(a) + i] = b[i]

LEMMA Concatenation ==
    ASSUME NEW S, NEW a \in Seq(S), NEW b \in Seq(S)
    PROVE  a \o b \in Seq(S) /\ Joins(a \o b, a, b)
<1>1. PICK c : c = a \o b  OBVIOUS
<1>2. /\ c \in Seq(S) /\ Len(c) = Len(a) + Len(b) /\ Len(a) \in Nat /\ Len(b) \in Nat
      /\ \A i \in 1..(Len(a) + Len(b)) : c[i] = IF i <= Len(a) THEN a[i] ELSE b[i - Len(a)]
  BY <1>1, SMT
<1>3. \A i \in 1..Len(b) : Len(a) + i \in 1..(Len(a) + Len(b)) /\ ~(Len(a) + i <= Len(a)) /\ (Len(a) + i) - Len(a) = i
  BY <1>2, SMT
<1>4. \A i \in 1..Len(b) : c[Len(a) + i] = b[i]  BY <1>2, <1>3
<1>5. \A i \in 1..Len(a) : c[i] = a[i]  BY <1>2, SMT
<1> QED BY <1>1, <1>2, <1>4, <1>5 DEF Joins

\* new is old, followed by messages with the payloads msgs.
Follow(new, old, msgs) ==
    /\ new \in Seq(Entry) /\ Len(new) = Len(old) + Len(msgs) /\ Len(old) \in Nat /\ Len(msgs) \in Nat
    /\ \A i \in 1..Len(old) : new[i] = old[i]
    /\ \A i \in 1..Len(msgs) : LET m == new[Len(old) + i]
                               IN /\ m.offset = Len(old) + i - 1 /\ m.entry <= Len(old) + i - 1
                                  /\ m.payload = msgs[i] /\ m.ok = TRUE

LEMMA StoredAtEnd ==
    ASSUME LogShape, NEW msgs \in Seq(Payloads) PROVE Follow(log \o Stored(msgs), log, msgs)
<1>0. PICK new : new = log \o Stored(msgs)  OBVIOUS
<1>1. log \in Seq(Entry) /\ Len(log) \in Nat /\ Len(msgs) \in Nat  BY SMT DEF LogShape
<1> DEFINE k == Len(log)
           n == Len(msgs)
           e(i) == IF format = "set" THEN k + i - 1 ELSE k
           m(i) == [offset |-> k + i - 1, payload |-> msgs[i], ok |-> TRUE, entry |-> e(i)]
           stored == [i \in 1..n |-> m(i)]
<1>2. new = log \o stored  BY <1>0 DEF Stored, End
<1>3. k \in Nat /\ n \in Nat  BY <1>1
<1>4. \A i \in 1..n : msgs[i] \in Payloads  BY SMT
<1> HIDE DEF k, n
<1>5. \A i \in 1..n : k + i - 1 \in Nat /\ e(i) \in Nat /\ e(i) <= k + i - 1  BY <1>3, SMT
<1> HIDE DEF e
<1>6. \A i \in 1..n : m(i) \in Entry  BY <1>4, <1>5 DEF Entry
<1>7. \A i \in 1..n : /\ m(i).offset = k + i - 1 /\ m(i).entry <= k + i - 1
                      /\ m(i).payload = msgs[i] /\ m(i).ok = TRUE
  BY <1>5
<1> HIDE DEF m
<1>8. stored \in [1..n -> Entry] /\ \A i \in 1..n : stored[i] = m(i)  BY <1>6
<1> HIDE DEF stored
<1>9. stored \in Seq(Entry) /\ Len(stored) = n  BY <1>3, <1>8, SMT
<1>10. new \in Seq(Entry) /\ Joins(new, log, stored)  BY <1>1, <1>2, <1>9, Concatenation
<1>11. /\ Len(new) = k + n /\ \A i \in 1..k : new[i] = log[i]
       /\ \A i \in 1..n : new[k + i] = m(i)
  BY <1>8, <1>9, <1>10 DEF Joins, k
<1>12. Follow(new, log, msgs)  BY <1>1, <1>7, <1>10, <1>11 DEF Follow, k, n
<1> QED BY <1>0, <1>12

LEMMA WriteKept ==
    ASSUME NEW w \in Writes, NEW old, NEW new, WriteInv(w, old), Extends(new, old)
    PROVE  WriteInv(w, new)
<1>1. ASSUME w.pc = "ok", NEW i \in 1..Len(w.msgs)
      PROVE  w.offsets[i] \in 0..(Len(new) - 1) /\ new[w.offsets[i] + 1].payload = w.msgs[i]
  <2>1. PICK k : k = w.offsets[i]  OBVIOUS
  <2>2. k \in 0..(Len(old) - 1) /\ old[k + 1].payload = w.msgs[i]  BY <1>1, <2>1 DEF WriteInv
  <2>3. k \in 0..(Len(new) - 1) /\ k + 1 \in 1..Len(old)  BY <2>2, SMT DEF Extends
  <2>4. new[k + 1].payload = old[k + 1].payload  BY <2>3 DEF Extends
  <2> QED BY <2>1, <2>2, <2>3, <2>4
<1> QED BY <1>1 DEF WriteInv

\* A step in which one producer, at most, changes what it does.
LEMMA OneWrites ==
    ASSUME LogInv, LogShape', Extends(log', log), NEW p \in Producers, NEW w \in Writes,
           writes' = [writes EXCEPT ![p] = w], WriteInv(w, log')
    PROVE  LogInv'
<1>1. writes \in [Producers -> Writes]  BY DEF LogInv
<1>2. /\ writes' \in [Producers -> Writes] /\ writes'[p] = w
      /\ \A q \in Producers : q # p => writes'[q] = writes[q]
  BY <1>1
<1>3. ASSUME NEW q \in Producers PROVE WriteInv(writes'[q], log')
  <2>1. CASE q = p  BY <1>2, <2>1
  <2>2. CASE q # p
    <3>1. writes[q] \in Writes /\ WriteInv(writes[q], log)  BY <1>1 DEF LogInv
    <3>2. WriteInv(writes[q], log')  BY <3>1, WriteKept
    <3> QED BY <1>2, <2>2, <3>2
  <2> QED BY <2>1, <2>2
<1> QED BY <1>2, <1>3 DEF LogInv

\* A step in which the log loses nothing and no producer does anything.
LEMMA NobodyWrites ==
    ASSUME LogInv, LogShape', Extends(log', log), UNCHANGED writes PROVE LogInv'
<1>1. \A p \in Producers : WriteInv(writes[p], log')  BY WriteKept DEF LogInv
<1> QED BY <1>1 DEF LogInv

LEMMA AppendStep ==
    ASSUME LogShape, NEW msgs \in Seq(Payloads), log' = log \o Stored(msgs), UNCHANGED <<format, start>>
    PROVE  LogShape' /\ Extends(log', log)
<1>1. PICK new, k, n : new = log \o Stored(msgs) /\ k = Len(log) /\ n = Len(msgs)  OBVIOUS
<1>2. Follow(new, log, msgs)  BY <1>1, StoredAtEnd
<1>3. /\ new \in Seq(Entry) /\ Len(new) = k + n /\ k \in Nat /\ n \in Nat
      /\ \A i \in 1..k : new[i] = log[i]
      /\ \A i \in 1..n : /\ new[k + i].offset = k + i - 1
                         /\ new[k + i].entry <= k + i - 1
                         /\ new[k + i].payload = msgs[i] /\ new[k + i].ok = TRUE
  BY <1>1, <1>2 DEF Follow
<1>4. ASSUME NEW i \in 1..(k + n)
      PROVE  new[i].offset = i - 1 /\ new[i].entry <= i - 1 /\ (format \notin CorruptFormats => new[i].ok = TRUE)
  <2>1. CASE i \in 1..k  BY <1>1, <1>3, <2>1, SMT DEF LogShape
  <2>2. CASE i \notin 1..k
    <3>1. PICK j \in 1..n : i = k + j
      <4>1. i - k \in 1..n /\ i = k + (i - k)  BY <1>3, <2>2, SMT
      <4> QED BY <4>1
    <3>2. new[k + j].offset = k + j - 1 /\ new[k + j].entry <= k + j - 1 /\ new[k + j].ok = TRUE  BY <1>3
    <3> QED BY <1>3, <3>1, <3>2, SMT
  <2> QED BY <2>1, <2>2
<1>5. LogShape'  BY <1>1, <1>3, <1>4 DEF LogShape
<1> QED BY <1>1, <1>3, <1>5, SMT DEF Extends

LEMMA LogStays ==
    ASSUME LogShape, UNCHANGED <<log, format>>, start' \in Nat PROVE LogShape' /\ Extends(log', log)
  BY SMT DEF LogShape, Extends

LEMMA ProducedStep ==
    ASSUME LogInv, NEW p \in Producers, Produced(p) PROVE LogInv' /\ Extends(log', log)
<1>1. writes[p] \in Writes /\ writes[p].pc = "send" /\ LogShape  BY DEF LogInv, Produced
<1>2. PICK msgs \in Seq(Payloads) : msgs = writes[p].msgs  BY <1>1 DEF Writes
<1>3. LogShape' /\ Extends(log', log)  BY <1>1, <1>2, AppendStep DEF Produced
<1>4. PICK k, n, new : k = Len(log) /\ n = Len(msgs) /\ new = log \o Stored(msgs)  OBVIOUS
<1>5. PICK offsets : offsets = [i \in 1..n |-> k + i - 1]  OBVIOUS
<1>6. PICK w : w = [writes[p] EXCEPT !.pc = "ok", !.offsets = offsets]  OBVIOUS
<1>7. k \in Nat /\ n \in Nat  BY <1>1, <1>2, <1>4, SMT DEF LogShape
<1>8. offsets \in Seq(Int) /\ \A i \in 1..n : offsets[i] = k + i - 1
  <2>1. \A i \in 1..n : k + i - 1 \in Int  BY <1>7, SMT
  <2>2. offsets \in [1..n -> Int] /\ \A i \in 1..n : offsets[i] = k + i - 1  BY <1>5, <2>1
  <2> QED BY <1>7, <2>2, SMT
<1>9. w \in Writes /\ w.pc = "ok" /\ w.msgs = msgs /\ w.offsets = offsets
  BY <1>1, <1>2, <1>6, <1>8 DEF Writes
<1>10. WriteInv(w, new)
  <2>1. Len(new) = k + n /\ \A i \in 1..n : new[k + i].payload = msgs[i]
    <3>1. Follow(new, log, msgs)  BY <1>1, <1>4, StoredAtEnd
    <3> QED BY <1>4, <3>1 DEF Follow
  <2>2. \A i \in 1..n : offsets[i] \in 0..(Len(new) - 1) /\ offsets[i] + 1 = k + i  BY <1>7, <1>8, <2>1, SMT
  <2>3. \A i \in 1..n : new[offsets[i] + 1].payload = msgs[i]  BY <2>1, <2>2
  <2> QED BY <1>4, <1>9, <2>2, <2>3, SMT DEF WriteInv
<1>11. writes' = [writes EXCEPT ![p] = w] /\ log' = new
  BY <1>2, <1>4, <1>5, <1>6 DEF Produced, Offsets, End
<1> QED BY <1>3, <1>9, <1>10, <1>11, OneWrites

LEMMA SentStep ==
    ASSUME LogInv, NEW p \in Producers, Sent(p) PROVE LogInv' /\ Extends(log', log)
<1>1. writes[p] \in Writes /\ LogShape  BY DEF LogInv
<1>2. LogShape' /\ Extends(log', log)  BY <1>1, LogStays DEF Sent, LogShape
<1>3. PICK n, offsets : n = Len(writes[p].msgs) /\ offsets = [i \in 1..n |-> 0 + i - 1]  OBVIOUS
<1>4. offsets \in Seq(Int)
  <2>1. n \in Nat  BY <1>1, <1>3, SMT DEF Writes
  <2> QED BY <1>3, <2>1, SMT
<1>5. PICK w : w = [writes[p] EXCEPT !.pc = "sent", !.offsets = offsets]  OBVIOUS
<1>6. w \in Writes /\ w.pc = "sent"  BY <1>1, <1>4, <1>5 DEF Writes
<1>7. WriteInv(w, log')  BY <1>6 DEF WriteInv
<1>8. writes' = [writes EXCEPT ![p] = w]  BY <1>3, <1>5 DEF Sent, Offsets
<1> QED BY <1>2, <1>6, <1>7, <1>8, OneWrites

LEMMA NodeWritesStep ==
    ASSUME LogInv, NEW p \in Producers, NodeWrites(p) PROVE LogInv' /\ Extends(log', log)
<1>1. writes[p] \in Writes /\ LogShape  BY DEF LogInv
<1>2. writes[p].msgs \in Seq(Payloads)  BY <1>1 DEF Writes
<1>3. LogShape' /\ Extends(log', log)  BY <1>1, <1>2, AppendStep DEF NodeWrites
<1>4. PICK w : w = [writes[p] EXCEPT !.pc = "stored"]  OBVIOUS
<1>5. w \in Writes /\ w.pc = "stored"  BY <1>1, <1>4 DEF Writes
<1>6. WriteInv(w, log')  BY <1>5 DEF WriteInv
<1>7. writes' = [writes EXCEPT ![p] = w]  BY <1>4 DEF NodeWrites
<1> QED BY <1>3, <1>5, <1>6, <1>7, OneWrites

LEMMA ProduceFailsStep ==
    ASSUME LogInv, NEW p \in Producers, ProduceFails(p) PROVE LogInv' /\ Extends(log', log)
<1>1. writes[p] \in Writes /\ writes[p].pc = "send" /\ LogShape /\ WriteInv(writes[p], log)
  BY DEF LogInv, ProduceFails
<1>2. PICK msgs \in Seq(Payloads) : msgs = writes[p].msgs  BY <1>1 DEF Writes
<1>3. LogShape' /\ Extends(log', log)
  <2>1. CASE log' = log \o Stored(msgs)  BY <1>1, <2>1, AppendStep DEF ProduceFails
  <2>2. CASE UNCHANGED log  BY <1>1, <2>2, LogStays DEF ProduceFails, LogShape
  <2> QED BY <1>2, <2>1, <2>2 DEF ProduceFails
<1>4. PICK then \in {"send", "error"} : then = IF MoreTries(writes[p].retry + 1) THEN "send" ELSE "error"  OBVIOUS
<1>5. PICK w : w = [writes[p] EXCEPT !.retry = @ + 1, !.pc = then]  OBVIOUS
<1>6. writes[p].retry \in Nat /\ writes[p].retry + 1 \in Nat  BY <1>1, SMT DEF Writes
<1>7. w \in Writes /\ w.pc = then /\ w.msgs = writes[p].msgs  BY <1>1, <1>5, <1>6 DEF Writes
<1>8. WriteInv(w, log')  BY <1>1, <1>7 DEF WriteInv
<1>9. writes' = [writes EXCEPT ![p] = w]  BY <1>4, <1>5 DEF ProduceFails
<1> QED BY <1>3, <1>7, <1>8, <1>9, OneWrites

LEMMA ProduceStep ==
    ASSUME LogInv, NEW p \in Producers, Produce(p) PROVE LogInv' /\ Extends(log', log)
<1>1. writes[p] \in Writes /\ LogShape  BY DEF LogInv
<1>2. LogShape' /\ Extends(log', log)  BY <1>1, LogStays DEF Produce, LogShape
<1>3. PICK s \in Batches : writes' = [writes EXCEPT ![p].pc = "send", ![p].msgs = s]  BY DEF Produce
<1>4. s \in Seq(Payloads) /\ s # <<>>  BY ConsumerAssumption
<1>5. PICK w : w = [writes[p] EXCEPT !.pc = "send", !.msgs = s]  OBVIOUS
<1>6. w \in Writes /\ w.pc = "send" /\ w.msgs = s  BY <1>1, <1>4, <1>5 DEF Writes
<1>7. WriteInv(w, log')  BY <1>4, <1>6 DEF WriteInv
<1>8. writes' = [writes EXCEPT ![p] = w]  BY <1>3, <1>5
<1> QED BY <1>2, <1>6, <1>7, <1>8, OneWrites

LEMMA DamageStep ==
    ASSUME LogInv, Damage PROVE LogInv' /\ Extends(log', log)
<1>1. /\ LogShape /\ format \in CorruptFormats
      /\ UNCHANGED <<format, start, writes>>
  BY DEF LogInv, Damage
<1>2. PICK e, n : /\ n = Len(log) /\ e \in EntryStarts
                  /\ log' = [i \in 1..n |-> IF log[i].entry = e THEN [log[i] EXCEPT !.ok = FALSE] ELSE log[i]]
  BY DEF Damage, End
<1>3. n \in Nat /\ \A i \in 1..n : log[i] \in Entry  BY <1>1, <1>2, SMT DEF LogShape
<1>4. \A i \in 1..n : LET m == IF log[i].entry = e THEN [log[i] EXCEPT !.ok = FALSE] ELSE log[i]
                      IN /\ m \in Entry /\ m.offset = log[i].offset /\ m.entry = log[i].entry
                         /\ m.payload = log[i].payload
  BY <1>3 DEF Entry
<1>5. /\ log' \in [1..n -> Entry]
      /\ \A i \in 1..n : /\ log'[i].offset = log[i].offset /\ log'[i].entry = log[i].entry
                         /\ log'[i].payload = log[i].payload
  BY <1>2, <1>4
<1>6. log' \in Seq(Entry) /\ Len(log') = n
  <2>1. PICK new : new = log'  OBVIOUS
  <2> QED BY <1>3, <1>5, <2>1, SMT
<1>7. LogShape'  BY <1>1, <1>2, <1>5, <1>6, SMT DEF LogShape
<1>8. Extends(log', log)  BY <1>2, <1>3, <1>5, <1>6, SMT DEF Extends
<1> QED BY <1>1, <1>7, <1>8, NobodyWrites

\* Every other step leaves log and producers alone.
LEMMA LogStep ==
    ASSUME LogInv, [Next]_vars PROVE LogInv' /\ Extends(log', log)
<1>1. CASE \E p \in Producers : Produce(p) \/ Produced(p) \/ Sent(p) \/ NodeWrites(p) \/ ProduceFails(p)
  BY <1>1, ProduceStep, ProducedStep, SentStep, NodeWritesStep, ProduceFailsStep
<1>2. CASE Damage  BY <1>2, DamageStep
<1>3. CASE UNCHANGED <<log, format, writes>> /\ start' \in Nat
  BY <1>3, LogStays, NobodyWrites DEF LogInv
<1>4. CASE Retention
  <2>1. \A i \in 1..Len(log) : log[i].entry \in Nat
    <3>1. \A i \in 1..Len(log) : log[i] \in Entry  BY SMT DEF LogInv, LogShape
    <3> QED BY <3>1 DEF Entry
  <2>2. start' \in Nat  BY <1>4, <2>1 DEF Retention, EntryStarts
  <2> QED BY <1>3, <1>4, <2>2 DEF Retention
<1>5. CASE NodeAnswers \/ Open \/ ConsumeBuffered \/ Consume \/ FetchDies \/ Receive \/ UNCHANGED vars
  <2>1. UNCHANGED <<log, format, writes, start>>
    BY <1>5 DEF NodeAnswers, Open, ConsumeBuffered, Consume, FetchDies, Receive, vars
  <2> QED BY <1>3, <2>1 DEF LogInv, LogShape
<1> QED BY <1>1, <1>2, <1>4, <1>5, SMT DEF Next

LEMMA LogInvariant == Spec => []LogInv
<1>1. Init => LogInv
  <2> SUFFICES ASSUME Init PROVE LogInv  OBVIOUS
  <2>1. log = <<>> /\ start = 0  BY DEF Init
  <2>2. LogShape  BY <2>1, SMT DEF LogShape
  <2>3. <<>> \in Seq(Payloads) /\ <<>> \in Seq(Int)  BY SMT
  <2>4. \A p \in Producers : writes[p] \in Writes /\ writes[p].pc = "idle"  BY <2>3 DEF Init, Writes
  <2>5. writes \in [Producers -> Writes]  BY <2>4 DEF Init
  <2> QED BY <2>2, <2>4, <2>5 DEF LogInv, WriteInv
<1>2. LogInv /\ [Next]_vars => LogInv'  BY LogStep
<1> QED BY <1>1, <1>2, PTL DEF Spec

\* A Produce with acknowledgements that succeeds has written its messages at the
\* offsets it puts into them, for any producers, retries and faults.
THEOREM WrittenWhereSaid == Spec => []ProducedAtOffset
<1>1. LogInv => ProducedAtOffset
  <2> SUFFICES ASSUME LogInv, NEW p \in Producers, writes[p].pc = "ok", NEW i \in 1..Len(writes[p].msgs)
               PROVE  /\ writes[p].offsets[i] < End
                      /\ log[writes[p].offsets[i] + 1].payload = writes[p].msgs[i]
    BY DEF ProducedAtOffset, WrittenAt
  <2>1. PICK k : k = writes[p].offsets[i]  OBVIOUS
  <2>2. k \in 0..(Len(log) - 1) /\ log[k + 1].payload = writes[p].msgs[i]  BY <2>1 DEF LogInv, WriteInv
  <2>3. Len(log) \in Nat  BY SMT DEF LogInv, LogShape
  <2> QED BY <2>1, <2>2, <2>3, SMT DEF End
<1> QED BY <1>1, LogInvariant, PTL

-----------------------------------------------------------------------------
(* The reader.                                                             *)

\* msgs are messages of the log from offset k on.
At(msgs, k, messages) ==
    /\ msgs \in Seq(Entry) /\ k + Len(msgs) <= Len(messages) /\ Len(messages) \in Nat
    /\ \A i \in 1..Len(msgs) : msgs[i].offset = k + i - 1 /\ msgs[i].payload = messages[k + i].payload

LEMMA AtKept ==
    ASSUME NEW msgs, NEW k \in Nat, NEW old, NEW new, At(msgs, k, old), Extends(new, old)
    PROVE  At(msgs, k, new)
<1>1. Len(msgs) \in Nat /\ k + Len(msgs) <= Len(old)  BY SMT DEF At
<1>2. \A i \in 1..Len(msgs) : k + i \in 1..Len(old)  BY <1>1, SMT DEF Extends
<1>3. k + Len(msgs) <= Len(new)  BY <1>1, SMT DEF Extends
<1> QED BY <1>2, <1>3 DEF At, Extends

\* t is the part of s after from and up to to.
IsPart(t, s, from, to) == Len(t) = to - from /\ \A i \in 1..(to - from) : t[i] = s[from + i]

LEMMA Part ==
    ASSUME NEW S, NEW s \in Seq(S), NEW from \in Nat, NEW to \in Nat, from < to, to <= Len(s)
    PROVE  SubSeq(s, from + 1, to) \in Seq(S) /\ IsPart(SubSeq(s, from + 1, to), s, from, to)
<1>1. PICK a, t : a = from + 1 /\ t = SubSeq(s, a, to)  OBVIOUS
<1>2. a \in Nat /\ to \in Nat /\ a <= to /\ to <= Len(s) /\ 1 <= a  BY <1>1, SMT
<1>3. \A i \in a..to : s[i] \in S  BY <1>2, SMT
<1>4. /\ t \in Seq(S) /\ Len(t) = to - a + 1
      /\ \A i \in 1..(to - a + 1) : t[i] = s[a + i - 1]
  BY <1>1, <1>2, <1>3, SMT
<1>5. \A i \in 1..(to - from) : i \in 1..(to - a + 1) /\ a + i - 1 = from + i  BY <1>1, <1>2, SMT
<1>6. \A i \in 1..(to - from) : t[i] = s[from + i]  BY <1>4, <1>5
<1>7. Len(t) = to - from  BY <1>1, <1>4, SMT
<1> QED BY <1>1, <1>4, <1>6, <1>7 DEF IsPart

LEMMA AtRest ==
    ASSUME NEW msgs, NEW k \in Nat, NEW messages, At(msgs, k, messages), NEW from \in Nat, from < Len(msgs)
    PROVE  /\ SubSeq(msgs, from + 1, Len(msgs)) # <<>>
           /\ At(SubSeq(msgs, from + 1, Len(msgs)), k + from, messages)
<1>1. PICK n, t, b : n = Len(msgs) /\ t = SubSeq(msgs, from + 1, n) /\ b = k + from  OBVIOUS
<1>2. /\ msgs \in Seq(Entry) /\ n \in Nat /\ k + n <= Len(messages) /\ Len(messages) \in Nat
      /\ \A i \in 1..n : msgs[i].offset = k + i - 1 /\ msgs[i].payload = messages[k + i].payload
  BY <1>1, SMT DEF At
<1>3. t \in Seq(Entry) /\ IsPart(t, msgs, from, n)
  <2>1. from < n /\ n <= Len(msgs)  BY <1>1, <1>2, SMT
  <2> QED BY <1>1, <1>2, <2>1, Part
<1>4. ASSUME NEW i \in 1..(n - from)
      PROVE  t[i].offset = b + i - 1 /\ t[i].payload = messages[b + i].payload
  <2>1. PICK j \in 1..n : j = from + i  BY <1>1, <1>2, SMT
  <2>2. t[i] = msgs[j]  BY <1>3, <2>1 DEF IsPart
  <2>3. b + i = k + j /\ b + i - 1 = k + j - 1  BY <1>1, <1>2, <2>1, SMT
  <2>4. msgs[j].offset = k + j - 1 /\ msgs[j].payload = messages[k + j].payload  BY <1>2
  <2>5. t[i].offset = b + i - 1  BY <2>2, <2>3, <2>4, SMT
  <2>6. t[i].payload = messages[b + i].payload  BY <2>2, <2>3, <2>4
  <2> QED BY <2>5, <2>6
<1>5. Len(t) = n - from  BY <1>3 DEF IsPart
<1>6. b + Len(t) <= Len(messages) /\ t # <<>>
  <2>1. n - from # 0 /\ b + (n - from) = k + n  BY <1>1, <1>2, SMT
  <2>2. b + Len(t) <= Len(messages)  BY <1>2, <1>5, <2>1
  <2>3. Len(t) # 0  BY <1>5, <2>1
  <2> QED BY <2>2, <2>3, SMT
<1>7. At(t, b, messages)  BY <1>2, <1>3, <1>4, <1>5, <1>6 DEF At
<1> QED BY <1>1, <1>6, <1>7

\* The inductive invariant of the consumer: what is in the buffer follows at its
\* offset, and a response holds the messages around it.
ReaderInv ==
    /\ offset \in Nat \cup {-1} /\ (pc = "closed" <=> offset = -1)
    /\ msgbuf # <<>> => pc = "idle" /\ At(msgbuf, offset, log)
    /\ resp # NoResp => pc = "wait"
    /\ resp.msgs # <<>> => \E k \in 0..offset : offset < k + Len(resp.msgs) /\ At(resp.msgs, k, log)
    /\ format \notin CorruptFormats => \A i \in 1..Len(resp.msgs) : resp.msgs[i].ok = TRUE

\* trimLeadingMessages finds the message at offset.
LEMMA Trimmed ==
    ASSUME NEW msgs, offset \in Nat, NEW k \in 0..offset, offset < k + Len(msgs), At(msgs, k, log)
    PROVE  trimLeadingMessages(msgs) # <<>> /\ At(trimLeadingMessages(msgs), offset, log)
<1>1. msgs \in Seq(Entry) /\ \A i \in 1..Len(msgs) : msgs[i].offset = k + i - 1  BY DEF At
<1>2. PICK from, n : from = offset - k /\ n = Len(msgs)  OBVIOUS
<1>3. from \in Nat /\ n \in Nat /\ from < n  BY <1>1, <1>2, SMT
<1>4. \A i \in 1..n : msgs[i].offset >= offset <=> i >= from + 1
  <2> TAKE i \in 1..n
  <2>1. msgs[i].offset = k + i - 1  BY <1>1, <1>2
  <2> QED BY <1>2, <1>3, <2>1, SMT
<1>5. SelectInSeq(msgs, LAMBDA m : m.offset >= offset) = from + 1
  <2> DEFINE I == {i \in 1..n : msgs[i].offset >= offset}
  <2>1. from + 1 \in I /\ \A i \in I : from + 1 <= i /\ i \in Nat  BY <1>3, <1>4, SMT
  <2> HIDE DEF I
  <2>2. (CHOOSE x \in I : \A y \in I : x <= y) = from + 1
    <3>1. \E x \in I : \A y \in I : x <= y  BY <2>1
    <3>2. \A x \in I : (\A y \in I : x <= y) => x = from + 1  BY <1>3, <2>1, SMT
    <3> QED BY <3>1, <3>2
  <2>3. I # {}  BY <2>1
  <2> QED BY <1>2, <2>2, <2>3 DEF SelectInSeq, Min, I
<1>6. trimLeadingMessages(msgs) = SubSeq(msgs, from + 1, n)
  <2>1. from + 1 # 0  BY <1>3, SMT
  <2> QED BY <1>2, <1>5, <2>1 DEF trimLeadingMessages
<1>7. SubSeq(msgs, from + 1, n) # <<>> /\ At(SubSeq(msgs, from + 1, n), k + from, log)  BY <1>2, <1>3, AtRest, SMT
<1>8. k + from = offset  BY <1>2, SMT
<1> QED BY <1>6, <1>7, <1>8

\* The messages of the partition, as the reader sees them.
Seen == [i \in 1..End |-> log[i].payload]

\* L are the payloads of messages.
Carried(L, messages) ==
    /\ L \in Seq(Payloads) /\ Len(L) = Len(messages) /\ Len(messages) \in Nat
    /\ L = [i \in 1..Len(messages) |-> messages[i].payload]
    /\ \A i \in 1..Len(messages) : L[i] = messages[i].payload

LEMMA PayloadsCarried ==
    ASSUME NEW messages \in Seq(Entry) PROVE Carried([i \in 1..Len(messages) |-> messages[i].payload], messages)
<1>0. PICK n, L : n = Len(messages) /\ L = [i \in 1..n |-> messages[i].payload]  OBVIOUS
<1>1. n \in Nat /\ \A i \in 1..n : messages[i] \in Entry  BY <1>0, SMT
<1>2. \A i \in 1..n : messages[i].payload \in Payloads  BY <1>1 DEF Entry
<1>3. L \in [1..n -> Payloads] /\ \A i \in 1..n : L[i] = messages[i].payload  BY <1>0, <1>2
<1>4. L \in Seq(Payloads) /\ Len(L) = n  BY <1>1, <1>3, SMT
<1> QED BY <1>0, <1>1, <1>3, <1>4 DEF Carried

LEMMA SeenType == ASSUME LogShape PROVE Carried(Seen, log)  BY PayloadsCarried DEF LogShape, Seen, End

\* What the reader sees only grows.
LEMMA SeenGrows ==
    ASSUME LogShape, LogShape', Extends(log', log)
    PROVE  \/ Seen' = Seen
           \/ Seen' \in Seq(Payloads) /\ Len(Seen') > Len(Seen) /\ SubSeq(Seen', 1, Len(Seen)) = Seen
<1>1. Carried(Seen, log)  BY SeenType
<1>2. Carried(Seen', log')  BY PayloadsCarried DEF LogShape, Seen, End
<1>3. PICK L, M, l, m : L = Seen /\ M = Seen' /\ l = Len(log) /\ m = Len(log')  OBVIOUS
<1>4. /\ L \in Seq(Payloads) /\ M \in Seq(Payloads) /\ Len(L) = l /\ Len(M) = m /\ l \in Nat /\ m \in Nat
      /\ L = [i \in 1..l |-> log[i].payload] /\ M = [i \in 1..m |-> log'[i].payload]
      /\ \A i \in 1..l : L[i] = log[i].payload
      /\ \A i \in 1..m : M[i] = log'[i].payload
  BY <1>1, <1>2, <1>3 DEF Carried
<1>5. l <= m /\ \A i \in 1..l : log'[i].payload = log[i].payload  BY <1>3 DEF Extends
<1>6. \A i \in 1..l : i \in 1..m  BY <1>4, <1>5, SMT
<1>7. \A i \in 1..l : M[i] = L[i]  BY <1>4, <1>5, <1>6
<1>8. CASE l = m
  <2>1. M = L  BY <1>4, <1>5, <1>8
  <2> QED BY <1>3, <2>1
<1>9. CASE l < m
  <2>1. SubSeq(M, 1, l) = L
    <3>1. PICK N : N = SubSeq(M, 1, l)  OBVIOUS
    <3>2. /\ Len(M) = m /\ l \in Nat /\ m \in Nat /\ l <= m
          /\ \A i \in 1..l : M[i] \in Payloads
      BY <1>4, <1>5, SMT
    <3>3. Len(N) = l /\ N \in Seq(Payloads) /\ \A i \in 1..l : N[i] = M[i]  BY <1>4, <3>1, <3>2, SMT
    <3>4. N = [i \in 1..l |-> N[i]] /\ L = [i \in 1..l |-> L[i]]  BY <1>4, <3>3, SMT
    <3>5. \A i \in 1..l : N[i] = L[i]  BY <1>7, <3>3, SMT
    <3> QED BY <3>1, <3>4, <3>5
  <2>2. Len(M) > Len(L)  BY <1>4, <1>9
  <2> QED BY <1>3, <1>4, <2>1, <2>2
<1> QED BY <1>4, <1>5, <1>8, <1>9, SMT

\* The caller gets messages that follow.
LEMMA HandOutStep ==
    ASSUME LogShape, offset \in Nat, NEW msgs, msgs # <<>>, At(msgs, offset, log), HandOut(msgs), UNCHANGED log
    PROVE  /\ Reader!HandOut /\ pc' = "idle" /\ offset' \in Nat
           /\ msgbuf' # <<>> => At(msgbuf', offset', log)
<1>1. PICK given : given = IF conf.batch THEN msgs ELSE <<Head(msgs)>>  OBVIOUS
<1>2. PICK n, new : /\ n = Len(given)
                    /\ new = [i \in 1..n |-> [offset |-> given[i].offset, payload |-> given[i].payload]]
  OBVIOUS
<1>3. /\ pc' = "idle" /\ out' = out \o new
      /\ msgbuf' = SubSeq(msgs, n + 1, Len(msgs)) /\ offset' = given[n].offset + 1
  BY <1>1, <1>2 DEF HandOut, Return, Last
<1>4. /\ msgs \in Seq(Entry) /\ Len(msgs) \in Nat /\ offset + Len(msgs) <= Len(log)
      /\ \A i \in 1..Len(msgs) : msgs[i].offset = offset + i - 1 /\ msgs[i].payload = log[offset + i].payload
  BY SMT DEF At
<1>5. n \in 1..Len(msgs) /\ \A i \in 1..n : given[i] = msgs[i]
  <2>1. Len(msgs) > 0  BY <1>4, SMT
  <2>2. CASE conf.batch
    <3>1. given = msgs  BY <1>1, <2>2
    <3> QED BY <1>2, <1>4, <2>1, <3>1, SMT
  <2>3. CASE ~conf.batch
    <3>1. given = <<Head(msgs)>>  BY <1>1, <2>3
    <3>2. Len(given) = 1 /\ given[1] = msgs[1]  BY <1>4, <2>1, <3>1, SMT
    <3> QED BY <1>2, <1>4, <2>1, <3>2, SMT
  <2> QED BY <2>2, <2>3
<1>6. offset' = offset + n
  <2>1. n \in Nat /\ n \in 1..n /\ given[n] = msgs[n] /\ msgs[n].offset = offset + n - 1  BY <1>4, <1>5, SMT
  <2> QED BY <1>3, <2>1, SMT
<1>7. Reader!HandOut
  <2>1. n \in 1..(Len(Seen) - offset)  BY <1>4, <1>5, SeenType, SMT DEF Carried
  <2>2. new = [i \in 1..n |-> [offset |-> offset + i - 1, payload |-> Seen[offset + i]]]
    <3>1. \A i \in 1..n : i \in 1..Len(msgs) /\ offset + i \in 1..Len(log)  BY <1>4, <1>5, SMT
    <3>2. \A i \in 1..n : given[i].offset = offset + i - 1 /\ given[i].payload = Seen[offset + i]
      BY <1>4, <1>5, <3>1, SeenType DEF Carried
    <3>3. \A i \in 1..n : [offset |-> given[i].offset, payload |-> given[i].payload]
                          = [offset |-> offset + i - 1, payload |-> Seen[offset + i]]
      BY <3>2
    <3> QED BY <1>2, <3>3
  <2>3. Seen' = Seen /\ offset # -1  BY SMT DEF Seen, End
  <2> QED BY <1>3, <1>6, <2>1, <2>2, <2>3 DEF Reader!HandOut, Seen
<1>8. ASSUME msgbuf' # <<>> PROVE At(msgbuf', offset', log)
  <2>1. n \in Nat /\ n < Len(msgs)  BY <1>3, <1>4, <1>5, <1>8, SMT
  <2> QED BY <1>3, <1>6, <2>1, AtRest, SMT
<1> QED BY <1>3, <1>5, <1>6, <1>7, <1>8, SMT

\* A step of others: the log may grow.
LEMMA OutsideStep ==
    ASSUME LogShape, LogShape', ReaderInv, Extends(log', log), UNCHANGED <<format, resp, consumerVars>>
    PROVE  ReaderInv' /\ [Reader!Next]_(Reader!vars)
<1>1. UNCHANGED <<format, resp, pc, offset, msgbuf, out>>  BY DEF consumerVars
<1>2. ASSUME msgbuf # <<>> PROVE At(msgbuf, offset, log')
  <2>1. pc = "idle" /\ At(msgbuf, offset, log)  BY <1>2 DEF ReaderInv
  <2>2. offset \in Nat  BY <2>1 DEF ReaderInv
  <2> QED BY <2>1, <2>2, AtKept
<1>3. ASSUME resp.msgs # <<>> PROVE \E k \in 0..offset : offset < k + Len(resp.msgs) /\ At(resp.msgs, k, log')
  <2>1. PICK k \in 0..offset : offset < k + Len(resp.msgs) /\ At(resp.msgs, k, log)  BY <1>3 DEF ReaderInv
  <2>2. k \in Nat  BY SMT DEF ReaderInv
  <2> QED BY <2>1, <2>2, AtKept
<1>4. NoResp' = NoResp  BY DEF NoResp
<1>5. ReaderInv'  BY <1>1, <1>2, <1>3, <1>4 DEF ReaderInv
<1>6. [Reader!Next]_(Reader!vars)
  <2>1. Reader!Write \/ UNCHANGED <<Seen, offset, out>>  BY <1>1, SeenGrows DEF Reader!Write, Seen
  <2> QED BY <2>1 DEF Reader!Next, Reader!vars, Seen
<1> QED BY <1>5, <1>6

\* The node answers with whole entries, from the one that holds the offset on.
LEMMA NodeAnswersStep ==
    ASSUME LogShape, ReaderInv, NodeAnswers
    PROVE  ReaderInv'
<1>1. pc = "wait" /\ UNCHANGED <<format, log, pc, offset, msgbuf>>  BY DEF NodeAnswers, consumerVars
<1>2. ASSUME resp'.msgs = <<>> PROVE ReaderInv'
  <2>1. \A i \in 1..Len(resp'.msgs) : resp'.msgs[i].ok = TRUE  BY <1>2, SMT
  <2> QED BY <1>1, <1>2, <2>1 DEF ReaderInv
<1>3. ASSUME offset \in start..(End - 1),
             NEW to \in EntryStarts \cup {End}, NEW cut, to > offset,
             resp' = [err |-> "nil", msgs |-> SubSeq(log, log[offset + 1].entry + 1, to), cut |-> cut]
      PROVE  ReaderInv'
  <2>1. PICK e, t, n : e = log[offset + 1].entry /\ t = SubSeq(log, e + 1, to) /\ n = Len(log)  OBVIOUS
  <2>2. /\ log \in Seq(Entry) /\ start \in Nat /\ n \in Nat
        /\ \A i \in 1..n : log[i] \in Entry /\ log[i].offset = i - 1 /\ log[i].entry <= i - 1
    BY <2>1, SMT DEF LogShape
  <2>3. \A i \in 1..n : log[i].entry \in Nat  BY <2>2 DEF Entry
  <2>4. offset \in Nat /\ offset + 1 \in 1..n  BY <1>3, <2>1, <2>2, SMT DEF End
  <2>5. e \in Nat /\ e <= offset
    <3>1. PICK j \in 1..n : j = offset + 1  BY <2>4
    <3>2. log[j].entry <= j - 1  BY <2>2
    <3>3. e = log[j].entry /\ e \in Nat  BY <2>1, <2>3, <3>1
    <3> QED BY <2>4, <3>1, <3>2, <3>3, SMT
  <2>6. to \in Nat /\ to <= n
    <3>1. CASE to = End  BY <2>1, <2>2, <3>1, SMT DEF End
    <3>2. ASSUME to \in EntryStarts PROVE to \in Nat /\ to <= n
      <4>1. PICK j \in 1..n : to = log[j].entry  BY <2>1, <3>2 DEF EntryStarts
      <4>2. to \in Nat /\ to <= j - 1  BY <2>2, <2>3, <4>1
      <4> QED BY <2>2, <4>2, SMT
    <3> QED BY <1>3, <3>1, <3>2
  <2>7. t \in Seq(Entry) /\ IsPart(t, log, e, to)
    <3>1. e < to /\ to <= Len(log)  BY <1>3, <2>1, <2>4, <2>5, <2>6, SMT
    <3> QED BY <2>1, <2>2, <2>5, <2>6, <3>1, Part
  <2>8. ASSUME NEW i \in 1..(to - e)
        PROVE  /\ t[i].offset = e + i - 1 /\ t[i].payload = log[e + i].payload
               /\ format \notin CorruptFormats => t[i].ok = TRUE
    <3>0. e + i \in 1..n  BY <2>2, <2>5, <2>6, SMT
    <3>1. PICK j \in 1..n : j = e + i  BY <3>0
    <3>2. t[i] = log[j]  BY <2>7, <3>1 DEF IsPart
    <3>3. log[j].offset = j - 1 /\ (format \notin CorruptFormats => log[j].ok = TRUE)
      BY <2>1, <2>2 DEF LogShape
    <3>4. t[i].offset = e + i - 1
      <4>1. j - 1 = e + i - 1  BY <2>2, <2>5, <2>6, <3>1, SMT
      <4> QED BY <3>2, <3>3, <4>1, SMT
    <3>5. t[i].payload = log[e + i].payload  BY <3>1, <3>2
    <3> QED BY <3>2, <3>3, <3>4, <3>5
  <2>9. Len(t) = to - e  BY <2>7 DEF IsPart
  <2>10. e + (to - e) = to /\ e \in 0..offset  BY <2>4, <2>5, <2>6, SMT
  <2>11. At(t, e, log)
    <3>1. e + Len(t) = to  BY <2>9, <2>10
    <3>2. to <= Len(log) /\ Len(log) \in Nat  BY <2>1, <2>2, <2>6
    <3> QED BY <2>7, <2>8, <2>9, <3>1, <3>2 DEF At
  <2>12. offset < e + Len(t)  BY <1>3, <2>9, <2>10
  <2>13. resp'.msgs = t  BY <1>3, <2>1
  <2>14. format' \notin CorruptFormats => \A i \in 1..Len(resp'.msgs) : resp'.msgs[i].ok = TRUE
    BY <1>1, <2>8, <2>9, <2>13
  <2> QED BY <1>1, <2>10, <2>11, <2>12, <2>13, <2>14 DEF ReaderInv
<1>4. CASE \E to \in EntryStarts \cup {End}, cut \in {"none", "short", "long"} :
              /\ offset \in start..(End - 1) /\ to > offset
              /\ resp' = [err |-> "nil", msgs |-> SubSeq(log, log[offset + 1].entry + 1, to), cut |-> cut]
  BY <1>3, <1>4
<1>5. CASE \E e : resp' = [NoResp EXCEPT !.err = e]  BY <1>2, <1>5 DEF NoResp
<1> QED BY <1>4, <1>5 DEF NodeAnswers

\* A fetch that brings no message leaves the reader where it is.
LEMMA FailStep ==
    ASSUME ReaderInv, pc = "wait", resp' = NoResp, pc' \in {"wait", "idle"},
           UNCHANGED <<format, log, offset, msgbuf>>
    PROVE  ReaderInv'
<1>1. resp'.msgs = <<>> /\ NoResp' = NoResp  BY DEF NoResp
<1>2. \A i \in 1..Len(resp'.msgs) : resp'.msgs[i].ok = TRUE  BY <1>1, SMT
<1>3. msgbuf = <<>> /\ pc # "closed" /\ pc' # "closed"  BY DEF ReaderInv
<1> QED BY <1>1, <1>2, <1>3 DEF ReaderInv

LEMMA AttemptFails ==
    ASSUME NEW e, pc = "wait", Attempt(e)
    PROVE  pc' \in {"wait", "idle"} /\ UNCHANGED <<offset, msgbuf, out>>
BY DEF Attempt, Nothing, Return

\* What Fetch returns when no message set is damaged.
LEMMA FetchedMessages ==
    ASSUME ReaderInv, CorruptFormats \cap {"set", "setz"} = {}
    PROVE  Fetched.msgs = trimLeadingMessages(resp.msgs)
<1>1. CASE format \in {"set", "setz"}
  <2>1. format \notin CorruptFormats  BY <1>1
  <2>2. \A i \in 1..Len(resp.msgs) : resp.msgs[i].ok = TRUE  BY <2>1 DEF ReaderInv
  <2>3. {resp.msgs[i].entry : i \in {j \in 1..Len(resp.msgs) : ~resp.msgs[j].ok}} = {}
    <3>1. \A j \in 1..Len(resp.msgs) : resp.msgs[j].ok  BY <2>2
    <3> QED BY <3>1
  <2>4. MessageSets(resp.msgs, resp.cut) = resp.msgs  BY <2>3 DEF MessageSets
  <2> QED BY <1>1, <2>4 DEF Fetched
<1>2. CASE format \notin {"set", "setz"}  BY <1>2 DEF Fetched
<1> QED BY <1>1, <1>2

LEMMA NothingTrimmed == trimLeadingMessages(<<>>) = <<>>
<1>1. {i \in 1..Len(<<>>) : <<>>[i].offset >= offset} = {}  BY SMT
<1>2. SelectInSeq(<<>>, LAMBDA m : m.offset >= offset) = 0  BY <1>1 DEF SelectInSeq
<1> QED BY <1>2 DEF trimLeadingMessages

LEMMA ReceiveStep ==
    ASSUME LogShape, ReaderInv, Receive, CorruptFormats \cap {"set", "setz"} = {}
    PROVE  ReaderInv' /\ (Reader!HandOut \/ UNCHANGED <<log, offset, out>>)
<1>1. pc = "wait" /\ resp' = NoResp /\ UNCHANGED <<format, log>>  BY DEF Receive
<1>2. \/ \E e : Attempt(e)
      \/ \E e : Return(e) /\ UNCHANGED <<offset, msgbuf, out>>
      \/ Nothing
      \/ Fetched.msgs # <<>> /\ HandOut(Fetched.msgs)
  BY DEF Receive
<1>3. CASE \/ \E e : Attempt(e)
           \/ \E e : Return(e) /\ UNCHANGED <<offset, msgbuf, out>>
           \/ Nothing
  <2>1. pc' \in {"wait", "idle"} /\ UNCHANGED <<offset, msgbuf, out>>
    <3>1. CASE \E e : Attempt(e)  BY <1>1, <3>1, AttemptFails
    <3>2. CASE \E e : Return(e) /\ UNCHANGED <<offset, msgbuf, out>>  BY <3>2 DEF Return
    <3>3. CASE Nothing  BY <1>1, <3>3 DEF Nothing, Return
    <3> QED BY <1>3, <3>1, <3>2, <3>3
  <2>2. ReaderInv'  BY <1>1, <2>1, FailStep
  <2> QED BY <1>1, <2>1, <2>2
<1>4. CASE Fetched.msgs # <<>> /\ HandOut(Fetched.msgs)
  <2>1. PICK msgs : msgs = Fetched.msgs /\ msgs = trimLeadingMessages(resp.msgs)  BY FetchedMessages
  <2>2. resp.msgs # <<>>  BY <1>4, <2>1, NothingTrimmed
  <2>3. PICK k \in 0..offset : offset < k + Len(resp.msgs) /\ At(resp.msgs, k, log)  BY <2>2 DEF ReaderInv
  <2>4. offset \in Nat  BY <1>1 DEF ReaderInv
  <2>5. PICK r : r = resp.msgs  OBVIOUS
  <2>6. trimLeadingMessages(r) # <<>> /\ At(trimLeadingMessages(r), offset, log)  BY <2>3, <2>4, <2>5, Trimmed
  <2>7. /\ Reader!HandOut /\ pc' = "idle" /\ offset' \in Nat
        /\ msgbuf' # <<>> => At(msgbuf', offset', log)
    BY <1>1, <1>4, <2>1, <2>4, <2>5, <2>6, HandOutStep
  <2>8. ReaderInv'
    <3>1. resp'.msgs = <<>> /\ NoResp' = NoResp  BY <1>1 DEF NoResp
    <3>2. \A i \in 1..Len(resp'.msgs) : resp'.msgs[i].ok = TRUE  BY <3>1, SMT
    <3>3. offset' # -1 /\ pc' # "closed"  BY <2>7, SMT
    <3> QED BY <1>1, <2>7, <3>1, <3>2, <3>3 DEF ReaderInv
  <2> QED BY <2>7, <2>8, SMT
<1> QED BY <1>2, <1>3, <1>4

LEMMA BufferedStep ==
    ASSUME LogShape, ReaderInv, ConsumeBuffered
    PROVE  ReaderInv' /\ Reader!HandOut
<1>1. pc = "idle" /\ msgbuf # <<>> /\ HandOut(msgbuf) /\ UNCHANGED <<format, log, resp>>  BY DEF ConsumeBuffered
<1>2. At(msgbuf, offset, log) /\ resp = NoResp  BY <1>1 DEF ReaderInv
<1>3. offset \in Nat  BY <1>1 DEF ReaderInv
<1>4. PICK msgs : msgs = msgbuf  OBVIOUS
<1>5. /\ Reader!HandOut /\ pc' = "idle" /\ offset' \in Nat
      /\ msgbuf' # <<>> => At(msgbuf', offset', log)
  BY <1>1, <1>2, <1>3, <1>4, HandOutStep
<1>6. resp'.msgs = <<>> /\ NoResp' = NoResp  BY <1>1, <1>2, SMT DEF NoResp
<1>7. \A i \in 1..Len(resp'.msgs) : resp'.msgs[i].ok = TRUE  BY <1>6, SMT
<1>8. offset' # -1 /\ pc' # "closed"  BY <1>5, SMT
<1>9. ReaderInv'  BY <1>1, <1>2, <1>5, <1>6, <1>7, <1>8 DEF ReaderInv
<1> QED BY <1>5, <1>9, SMT

\* Every step of the consumer, the producers and the node is a step of the reader
\* of the log, or none.
LEMMA ReaderStep ==
    ASSUME LogInv, LogInv', Extends(log', log), ReaderInv, [Next]_vars, CorruptFormats \cap {"set", "setz"} = {}
    PROVE  ReaderInv' /\ [Reader!Next]_(Reader!vars)
<1>1. LogShape /\ LogShape'  BY DEF LogInv
<1>2. ASSUME UNCHANGED <<log, offset, out>> PROVE UNCHANGED Reader!vars  BY <1>2 DEF Reader!vars, End
<1>3. CASE UNCHANGED vars
  <2>1. UNCHANGED <<format, resp, consumerVars>>  BY <1>3 DEF vars
  <2> QED BY <1>1, <2>1, OutsideStep, SMT
<1>4. CASE \/ \E p \in Producers : Produce(p) \/ Produced(p) \/ Sent(p) \/ NodeWrites(p) \/ ProduceFails(p)
           \/ Retention \/ Damage
  <2>1. UNCHANGED <<format, resp, consumerVars>>
    BY <1>4 DEF Produce, Produced, Sent, NodeWrites, ProduceFails, Retention, Damage
  <2> QED BY <1>1, <2>1, OutsideStep
<1>5. CASE NodeAnswers
  <2>1. UNCHANGED <<log, offset, out>>  BY <1>5 DEF NodeAnswers, consumerVars
  <2> QED BY <1>1, <1>2, <1>5, <2>1, NodeAnswersStep
<1>6. CASE Open
  <2>1. /\ pc = "closed" /\ pc' = "idle" /\ offset' \in {start, End, 1}
        /\ UNCHANGED <<format, log, resp, msgbuf, out>>
    BY <1>6 DEF Open
  <2>2. offset' \in Nat /\ offset' # -1  BY <1>1, <2>1, SMT DEF LogShape, End
  <2>3. offset = -1 /\ msgbuf = <<>> /\ resp = NoResp  BY <2>1 DEF ReaderInv
  <2>4. resp'.msgs = <<>> /\ resp' = NoResp /\ NoResp' = NoResp  BY <2>1, <2>3, SMT DEF NoResp
  <2>5. \A i \in 1..Len(resp'.msgs) : resp'.msgs[i].ok = TRUE  BY <2>4, SMT
  <2>6. ReaderInv'  BY <2>1, <2>2, <2>3, <2>4, <2>5 DEF ReaderInv
  <2>7. Reader!Open  BY <2>1, <2>2, <2>3 DEF Reader!Open, End
  <2> QED BY <2>6, <2>7 DEF Reader!Next
<1>7. CASE ConsumeBuffered  BY <1>1, <1>7, BufferedStep DEF Reader!Next
<1>8. CASE Consume
  <2>1. pc = "idle" /\ pc' = "wait" /\ msgbuf = <<>> /\ UNCHANGED <<format, log, resp, offset, msgbuf, out>>
    BY <1>8 DEF Consume
  <2>2. NoResp' = NoResp  BY DEF NoResp
  <2>3. ReaderInv'  BY <2>1, <2>2 DEF ReaderInv
  <2> QED BY <1>2, <2>1, <2>3
<1>9. CASE FetchDies
  <2>1. pc = "wait" /\ resp' = NoResp /\ Attempt("dead") /\ UNCHANGED <<format, log>>  BY <1>9 DEF FetchDies
  <2>2. pc' \in {"wait", "idle"} /\ UNCHANGED <<offset, msgbuf, out>>  BY <2>1, AttemptFails
  <2>3. ReaderInv'  BY <2>1, <2>2, FailStep
  <2> QED BY <1>2, <2>1, <2>2, <2>3
<1>10. CASE Receive  BY <1>1, <1>2, <1>10, ReceiveStep DEF Reader!Next
<1> QED BY <1>3, <1>4, <1>5, <1>6, <1>7, <1>8, <1>9, <1>10 DEF Next

\* The consumer implements LogReader: it hands out each message from the start
\* offset on once, in order, with its offset, for any log, responses cut anywhere,
\* requests that fail and are retried, retention, and record batches that are
\* damaged.  A damaged message set is skipped, as ConstantHistory shows.
THEOREM ConsumerReadsLog ==
    ASSUME CorruptFormats \cap {"set", "setz"} = {}
    PROVE  Spec => ReadsLog
<1>1. Init => Reader!Init /\ ReaderInv
  <2> SUFFICES ASSUME Init PROVE Reader!Init /\ ReaderInv  OBVIOUS
  <2>1. log = <<>> /\ pc = "closed" /\ offset = -1 /\ msgbuf = <<>> /\ resp = NoResp /\ out = <<>>
    BY DEF Init
  <2>2. Len(log) = 0 /\ 1..Len(log) = {}  BY <2>1, SMT
  <2>3. [i \in 1..Len(log) |-> log[i].payload] = <<>>  BY <2>2, SMT
  <2>4. Reader!Init  BY <2>1, <2>3 DEF Reader!Init, End
  <2>5. resp.msgs = <<>>  BY <2>1 DEF NoResp
  <2>6. \A i \in 1..Len(resp.msgs) : resp.msgs[i].ok = TRUE  BY <2>5, SMT
  <2> QED BY <2>1, <2>4, <2>5, <2>6 DEF ReaderInv
<1>2. LogInv /\ ReaderInv /\ [Next]_vars => ReaderInv' /\ [Reader!Next]_(Reader!vars)
  BY LogStep, ReaderStep
<1> QED BY <1>1, <1>2, LogInvariant, PTL DEF Spec, ReadsLog, Reader!Spec
=============================================================================

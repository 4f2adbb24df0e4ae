---------------------------- MODULE ServerProofs ----------------------------
(***************************************************************************)
(* Theorems about Server, for any numbers of connections, test goroutines, *)
(* topics, partitions, messages and calls.                                 *)
(***************************************************************************)
EXTENDS Server, TLAPS

\* The leaves are Zenon's, but those that cite SMT.
USE Zenon

\* What is used of the constants.
LEMMA Constants ==
    /\ None \notin Goroutines
    /\ MaxPart \in Nat /\ Sizes \subseteq Nat /\ FetchOffsets \subseteq Nat
  BY ServerAssumption DEF Goroutines

-----------------------------------------------------------------------------
(* Logs.                                                                   *)

\* A log is a sequence of messages with the offsets 0, 1, 2, ...
Numbered(log) == log \in Seq(Message) /\ \A i \in 1..Len(log) : log[i].offset = i - 1

\* What holds of the topics: the part of DataTypes about them, and OffsetsAreIndices.
TopicsInv ==
    /\ DOMAIN topics \subseteq Topics \X Partitions
    /\ \A part \in DOMAIN topics : Numbered(topics[part])

\* The log of a partition is numbered, also when the partition does not exist.
LEMMA LogNumbered ==
    ASSUME TopicsInv, NEW part PROVE Numbered(Log(part)) /\ Len(Log(part)) \in Nat
<1>1. Numbered(<<>>)  BY SMT DEF Numbered
<1>2. Numbered(Log(part))  BY <1>1 DEF TopicsInv, Log, Exists
<1> QED BY <1>2, SMT DEF Numbered

\* new has the messages of old, possibly followed by others.
Extends(new, old) ==
    /\ Len(old) \in Nat /\ Len(new) \in Nat /\ Len(old) <= Len(new)
    /\ \A i \in 1..Len(old) : new[i] = old[i]

\* log is old and n messages of g.
Grows(log, old, g, n) ==
    /\ Len(log) = Len(old) + n
    /\ \A i \in 1..n : log[Len(old) + i] = [offset |-> Len(old) + i - 1, by |-> g]

\* The messages that are appended get the offsets that follow.
LEMMA AppendMessages ==
    ASSUME TopicsInv, NEW g \in Goroutines, NEW part, NEW n \in Nat,
           NEW log, log = Log(part) \o Messages(g, part, n)
    PROVE  Numbered(log) /\ Extends(log, Log(part)) /\ Grows(log, Log(part), g, n)
<1> DEFINE old == Log(part)
           msgs == [i \in 1..n |-> [offset |-> Len(old) + i - 1, by |-> g]]
<1>1. Numbered(old) /\ Len(old) \in Nat  BY LogNumbered
<1>2. log = old \o msgs  BY DEF Messages
<1> HIDE DEF old
<1>3. \A i \in 1..n : [offset |-> Len(old) + i - 1, by |-> g] \in Message  BY <1>1, SMT DEF Message
<1>4. msgs \in [1..n -> Message]  BY <1>3
<1>5. \A i \in 1..n : msgs[i] = [offset |-> Len(old) + i - 1, by |-> g]  OBVIOUS
<1> HIDE DEF msgs
<1>6. msgs \in Seq(Message) /\ Len(msgs) = n  BY <1>4, SMT
<1>7. old \in Seq(Message) /\ \A i \in 1..Len(old) : old[i].offset = i - 1  BY <1>1 DEF Numbered
<1>8. /\ log \in Seq(Message) /\ Len(log) = Len(old) + n
      /\ \A i \in 1..Len(old) : log[i] = old[i]
      /\ \A i \in 1..n : log[Len(old) + i] = msgs[i]
  <2>1. /\ log \in Seq(Message) /\ Len(log) = Len(old) + Len(msgs)
        /\ \A i \in 1..(Len(old) + Len(msgs)) : log[i] = IF i <= Len(old) THEN old[i] ELSE msgs[i - Len(old)]
    BY <1>2, <1>6, <1>7, SMT
  <2>2. \A i \in 1..n : /\ Len(old) + i \in 1..(Len(old) + Len(msgs))
                        /\ ~(Len(old) + i <= Len(old)) /\ (Len(old) + i) - Len(old) = i
    BY <1>1, <1>6, SMT
  <2>3. \A i \in 1..n : log[Len(old) + i] = msgs[i]  BY <2>1, <2>2
  <2> QED BY <1>1, <1>6, <2>1, <2>3, SMT
<1>9. Extends(log, old)  BY <1>1, <1>8, SMT DEF Extends
<1>10. Grows(log, old, g, n)  BY <1>5, <1>8 DEF Grows
<1>11. ASSUME NEW i \in 1..Len(log) PROVE log[i].offset = i - 1
  <2>1. CASE i \in 1..Len(old)  BY <1>7, <1>8, <2>1
  <2>2. CASE i \notin 1..Len(old)
    <3>1. i - Len(old) \in 1..n /\ i = Len(old) + (i - Len(old))  BY <1>1, <1>8, <2>2, SMT
    <3>2. log[i] = [offset |-> Len(old) + (i - Len(old)) - 1, by |-> g]  BY <1>5, <1>8, <3>1
    <3> QED BY <1>1, <3>1, <3>2, SMT
  <2> QED BY <2>1, <2>2
<1> QED BY <1>8, <1>9, <1>10, <1>11 DEF old, Numbered

\* A partition never ceases to exist, and never loses or changes a message.
LogsGrow == DOMAIN topics \subseteq DOMAIN topics' /\ \A part : Extends(Log(part)', Log(part))

\* No log changes, but partitions may begin to exist.
LogsSame == DOMAIN topics \subseteq DOMAIN topics' /\ \A part : Log(part)' = Log(part)

\* Whatever is added to a log is a message of g.
AddedBy(g) == \A part : \A i \in (Len(Log(part)) + 1)..Len(Log(part)') : Log(part)'[i].by = g

LEMMA SameGrow == ASSUME TopicsInv, LogsSame, NEW g PROVE LogsGrow /\ AddedBy(g)
<1>1. LogsGrow  BY LogNumbered, SMT DEF LogsSame, LogsGrow, Extends
<1>2. ASSUME NEW part PROVE Len(Log(part)') = Len(Log(part)) /\ (Len(Log(part)) + 1)..Len(Log(part)) = {}
  <2>1. Len(Log(part)) \in Nat  BY LogNumbered
  <2>2. (Len(Log(part)) + 1)..Len(Log(part)) = {}  BY <2>1, SMT
  <2> QED BY <2>2 DEF LogsSame
<1>3. AddedBy(g)  BY <1>2 DEF AddedBy
<1> QED BY <1>1, <1>3

\* Appended keeps what holds of the topics.
LEMMA AppendStep ==
    ASSUME TopicsInv, NEW g \in Goroutines, NEW S \in SUBSET (Topics \X Partitions), NEW part \in S,
           NEW n \in Nat, topics' = Appended(g, S, part, n)
    PROVE  /\ TopicsInv' /\ LogsGrow /\ AddedBy(g) /\ Grows(Log(part)', Log(part), g, n)
           /\ DOMAIN topics' = DOMAIN topics \cup S
<1>1. PICK new : new = Log(part) \o Messages(g, part, n)  OBVIOUS
<1>2. Numbered(new) /\ Extends(new, Log(part)) /\ Grows(new, Log(part), g, n)
  BY <1>1, AppendMessages
<1>3. /\ DOMAIN topics' = DOMAIN topics \cup S
      /\ \A q \in DOMAIN topics' : topics'[q] = IF q = part THEN new ELSE Log(q)
  BY <1>1 DEF Appended
<1>4. \A q : Numbered(Log(q)) /\ Extends(Log(q), Log(q))  BY LogNumbered, SMT DEF Extends
<1>5. TopicsInv'  BY <1>2, <1>3, <1>4 DEF TopicsInv
<1>6. \A q : Log(q)' = IF q = part THEN new ELSE Log(q)  BY <1>3 DEF Log, Exists
<1>7. LogsGrow  BY <1>2, <1>3, <1>4, <1>6 DEF LogsGrow
<1>8. ASSUME NEW q, NEW i \in (Len(Log(q)) + 1)..Len(Log(q)') PROVE Log(q)'[i].by = g
  <2>1. Len(Log(q)) \in Nat  BY LogNumbered
  <2>2. CASE q = part
    <3>1. Grows(Log(q)', Log(q), g, n)  BY <1>2, <1>6, <2>2
    <3>2. i - Len(Log(q)) \in 1..n /\ i = Len(Log(q)) + (i - Len(Log(q)))
      <4>1. PICK k, m : k = Len(Log(q)) /\ m = Len(Log(q)')  OBVIOUS
      <4>2. m = k + n /\ k \in Nat /\ i \in (k + 1)..m  BY <1>8, <2>1, <3>1, <4>1 DEF Grows
      <4> QED BY <4>1, <4>2, SMT
    <3>3. PICK j \in 1..n : i = Len(Log(q)) + j  BY <3>2
    <3>4. Log(q)'[i] = [offset |-> Len(Log(q)) + j - 1, by |-> g]  BY <3>1, <3>3 DEF Grows
    <3> QED BY <3>4, SMT
  <2>3. CASE q # part
    <3>1. Len(Log(q)') = Len(Log(q))  BY <1>6, <2>3
    <3>2. PICK k : k = Len(Log(q))  OBVIOUS
    <3>3. k \in Nat /\ i \in (k + 1)..k  BY <1>8, <2>1, <3>1, <3>2
    <3> QED BY <3>3, SMT
  <2> QED BY <2>2, <2>3
<1>9. AddedBy(g)  BY <1>8 DEF AddedBy
<1> QED BY <1>2, <1>3, <1>5, <1>6, <1>7, <1>9

\* What others append does not come between or after the messages of g.
LEMMA WroteLastKept ==
    ASSUME NEW g, NEW old, NEW new, NEW offset, NEW n \in Nat, Extends(new, old),
           \A i \in (Len(old) + 1)..Len(new) : new[i].by # g,
           WroteLast(g, old, offset, n)
    PROVE  WroteLast(g, new, offset, n)
<1> USE DEF Extends
<1>1. offset \in (n - 1)..(Len(old) - 1) /\ offset \in (n - 1)..(Len(new) - 1)  BY SMT DEF WroteLast
<1>2. ASSUME NEW i \in (offset - n + 2)..(offset + 1) PROVE new[i].by = g
  <2>1. i \in 1..Len(old)  BY <1>1, SMT
  <2> QED BY <2>1 DEF WroteLast
<1>3. ASSUME NEW i \in (offset + 2)..Len(new) PROVE new[i].by # g
  <2>1. \/ i \in 1..Len(old) /\ i \in (offset + 2)..Len(old)
        \/ i \in (Len(old) + 1)..Len(new)
    BY <1>1, SMT
  <2> QED BY <2>1 DEF WroteLast
<1> QED BY <1>1, <1>2, <1>3 DEF WroteLast

LEMMA ReadFromKept ==
    ASSUME NEW msgs, NEW old, NEW new, NEW offset \in Nat, Extends(new, old), ReadFrom(msgs, old, offset)
    PROVE  ReadFrom(msgs, new, offset)
<1>1. Len(msgs) \in Nat /\ offset + Len(msgs) <= Len(old)  BY SMT DEF ReadFrom
<1>2. \A i \in 1..Len(msgs) : offset + i \in 1..Len(old)  BY <1>1, SMT DEF Extends
<1>3. offset + Len(msgs) <= Len(new)  BY <1>1, SMT DEF Extends
<1> QED BY <1>1, <1>2, <1>3 DEF ReadFrom, Extends

-----------------------------------------------------------------------------
(* A step of one goroutine.                                                *)

OnlyMoves(g) ==
    /\ DOMAIN pc' = Goroutines /\ DOMAIN op' = Goroutines /\ DOMAIN resp' = Goroutines
    /\ \A h \in Goroutines : h # g => pc'[h] = pc[h] /\ op'[h] = op[h] /\ resp'[h] = resp[h]

\* What other goroutines notice of it: partitions get known and logs grow, unless
\* there is a Reset, and only a goroutine with the mutex changes logs.
Respects(g) ==
    /\ OnlyMoves(g) /\ advertised \subseteq advertised'
    /\ LogsSame \/ Writes(g)
    /\ (LogsGrow /\ AddedBy(g)) \/ wasReset'
    /\ wasReset => wasReset'

\* What holds of another goroutine still holds.
LEMMA OthersKeep ==
    ASSUME Inv, NEW g \in Goroutines, Respects(g), NEW h \in Goroutines, h # g
    PROVE  /\ Reads(h)' <=> Reads(h)
           /\ Writes(h)' <=> Writes(h)
           /\ OpTypes(h)' /\ ResponseTrue(h)'
<1>1. pc'[h] = pc[h] /\ op'[h] = op[h] /\ resp'[h] = resp[h]  BY DEF Respects, OnlyMoves
<1>2. OpTypes(h) /\ ResponseTrue(h)  BY DEF Inv
<1>3. OpTypes(h)'  BY <1>1, <1>2 DEF OpTypes, Respects
<1> DEFINE log == Log(op[h].part)
<1>4. /\ LogsSame => log' = log
      /\ LogsGrow => Extends(log', log)
      /\ AddedBy(g) => \A i \in (Len(log) + 1)..Len(log') : log'[i].by # h
  <2>1. PICK part : part = op[h].part  OBVIOUS
  <2>2. log = Log(part) /\ log' = Log(part)'  BY <1>1, <2>1 DEF Log, Exists
  <2> HIDE DEF log
  <2> QED BY <2>2 DEF LogsSame, LogsGrow, AddedBy
<1> HIDE DEF log
<1>5. ASSUME pc[h] = "event" PROVE WroteLast(h, log', Len(log') - 1, op[h].n)
  <2>1. h = writer /\ ~Writes(g)  BY <1>5 DEF Inv, TypeOK, Writes
  <2>2. log' = log  BY <1>4, <2>1 DEF Respects
  <2> QED BY <1>2, <1>5, <2>2 DEF ResponseTrue, ProduceOffset, log
<1>6. ASSUME pc[h] = "reply", ~wasReset'
      PROVE  /\ op[h].kind = "Metadata" => resp[h].parts \subseteq DOMAIN topics'
             /\ op[h].kind = "Produce" => WroteLast(h, log', resp[h].offset, op[h].n)
             /\ op[h].kind = "Fetch" /\ resp[h].err = "nil" => ReadFrom(resp[h].msgs, log', op[h].offset)
  <2>1. /\ DOMAIN topics \subseteq DOMAIN topics' /\ Extends(log', log)
        /\ \A i \in (Len(log) + 1)..Len(log') : log'[i].by # h
    BY <1>4, <1>6 DEF Respects, LogsGrow
  <2>2. /\ op[h].kind = "Metadata" => resp[h].parts \subseteq DOMAIN topics
        /\ op[h].kind = "Produce" => WroteLast(h, log, resp[h].offset, op[h].n)
        /\ op[h].kind = "Fetch" /\ resp[h].err = "nil" => ReadFrom(resp[h].msgs, log, op[h].offset)
    BY <1>2, <1>6 DEF Respects, ResponseTrue, log
  <2>3. /\ op[h].kind = "Fetch" => op[h].offset \in Nat
        /\ op[h].kind = "Produce" => op[h].n \in Nat
    BY <1>2 DEF OpTypes
  <2> QED BY <2>1, <2>2, <2>3, WroteLastKept, ReadFromKept
<1>7. ResponseTrue(h)'
  <2>1. op[h].kind = "Metadata" /\ pc[h] = "reply" => resp[h].parts \subseteq Topics \X Partitions
    BY <1>2 DEF ResponseTrue
  <2> QED BY <1>1, <1>5, <1>6, <2>1 DEF ResponseTrue, ProduceOffset, log
<1> QED BY <1>1, <1>3, <1>7 DEF Reads, Writes

\* The mutex changes as the goroutine's step says.
MutexMoves(g) ==
    /\ \A h \in Goroutines : h # g => (h \in readers' <=> h \in readers) /\ (h = writer' <=> h = writer)
    /\ g \in readers' <=> Reads(g)'
    /\ g = writer' <=> Writes(g)'

\* What holds of the server as a whole.
ServerInv ==
    /\ events \in 0..EventsCap /\ ln \in 0..Len(brokers)
    /\ fatal \in {None, "race", "index", "nil"}
    /\ TopicsInv /\ advertised \subseteq Topics \X Partitions /\ brokers \in Seq(Nat)
    /\ ~wasReset => Dense(DOMAIN topics) /\ advertised \subseteq DOMAIN topics
    /\ ln = 0 => wasClosed
    /\ PanicsAfterResetOrClose

LEMMA InvParts ==
    Inv <=> /\ ServerInv
            /\ DOMAIN pc = Goroutines /\ DOMAIN op = Goroutines /\ DOMAIN resp = Goroutines
            /\ \A g \in Goroutines :
                  /\ g \in readers <=> Reads(g)
                  /\ g = writer <=> Writes(g)
                  /\ OpTypes(g) /\ ResponseTrue(g)
  BY DEF Inv, TypeOK, DataTypes, ServerInv, TopicsInv, Numbered, OffsetsAreIndices

\* A step keeps Inv when it keeps what holds of the server and of the goroutine.
LEMMA MoveKeepsInv ==
    ASSUME Inv, NEW g \in Goroutines, Respects(g), MutexMoves(g),
           ServerInv', OpTypes(g)', ResponseTrue(g)'
    PROVE  Inv'
<1>1. \A h \in Goroutines : /\ h \in readers <=> Reads(h)
                            /\ h = writer <=> Writes(h)
  BY DEF Inv, TypeOK
<1>2. \A h \in Goroutines : /\ h \in readers' <=> Reads(h)'
                            /\ h = writer' <=> Writes(h)'
                            /\ OpTypes(h)' /\ ResponseTrue(h)'
  <2> TAKE h \in Goroutines
  <2>1. CASE h = g  BY <2>1 DEF MutexMoves
  <2>2. CASE h # g
    <3>1. /\ Reads(h)' <=> Reads(h)
          /\ Writes(h)' <=> Writes(h)
          /\ OpTypes(h)' /\ ResponseTrue(h)'
      BY <2>2, OthersKeep
    <3>2. (h \in readers' <=> h \in readers) /\ (h = writer' <=> h = writer)  BY <2>2 DEF MutexMoves
    <3> QED BY <1>1, <3>1, <3>2
  <2> QED BY <2>1, <2>2
<1>3. DOMAIN pc' = Goroutines /\ DOMAIN op' = Goroutines /\ DOMAIN resp' = Goroutines
  BY DEF Respects, OnlyMoves
<1> QED BY <1>2, <1>3 DEF Inv, TypeOK, DataTypes, ServerInv, TopicsInv, Numbered, OffsetsAreIndices

\* The topics stay the same; clients may get to know more of them, and the listener
\* may change.
TopicsStay ==
    /\ UNCHANGED <<topics, fatal, wasReset>>
    /\ events' \in 0..EventsCap
    /\ brokers' \in Seq(Nat) /\ ln' \in 0..Len(brokers')
    /\ ln' = 0 => wasClosed'
    /\ wasClosed => wasClosed'
    /\ advertised \subseteq advertised' /\ advertised' \subseteq Topics \X Partitions
    /\ ~wasReset => advertised' \subseteq DOMAIN topics

LEMMA TopicsStayMove ==
    ASSUME Inv, NEW g \in Goroutines, OnlyMoves(g), MutexMoves(g), TopicsStay, OpTypes(g)', ResponseTrue(g)'
    PROVE  Inv'
<1>1. ServerInv  BY InvParts
<1>2. LogsSame /\ LogsGrow /\ AddedBy(g)
  BY <1>1, SameGrow DEF TopicsStay, ServerInv, LogsSame, Log, Exists
<1>3. Respects(g)  BY <1>2 DEF Respects, TopicsStay
<1>4. ServerInv'  BY <1>1 DEF TopicsStay, ServerInv, TopicsInv, PanicsAfterResetOrClose
<1> QED BY <1>3, <1>4, MoveKeepsInv

\* The server as a whole does not change.
Quiet ==
    /\ UNCHANGED <<topics, ln, brokers, fatal, advertised, wasReset, wasClosed>>
    /\ events' \in 0..EventsCap

LEMMA QuietMove ==
    ASSUME Inv, NEW g \in Goroutines, OnlyMoves(g), Quiet, MutexMoves(g), OpTypes(g)', ResponseTrue(g)'
    PROVE  Inv'
<1>1. TopicsStay  BY DEF Inv, TypeOK, DataTypes, Quiet, TopicsStay
<1> QED BY <1>1, TopicsStayMove

\* A goroutine goes on with the same request or call.
LEMMA OpKept ==
    ASSUME Inv, NEW g \in Goroutines, op'[g] = op[g], advertised' = advertised,
           pc'[g] \notin {"drain", "event", "encode", "running"}
    PROVE  OpTypes(g) /\ OpTypes(g)'
<1>1. OpTypes(g)  BY DEF Inv
<1> QED BY <1>1 DEF OpTypes

\* Nothing changes but that the program may end, in a panic only after a Reset or a
\* Close.
LEMMA NothingMoves ==
    ASSUME Inv, UNCHANGED <<data, events, mutex, pc, op, resp, history>>,
           fatal' \in {fatal, "race", "index", "nil"}, PanicsAfterResetOrClose'
    PROVE  Inv'
<1>1. UNCHANGED <<topics, ln, brokers, events, readers, writer, pc, op, resp, advertised, wasReset, wasClosed>>
  BY DEF data, mutex, history
<1>2. ServerInv  BY InvParts
<1>3. ServerInv'  BY <1>1, <1>2 DEF ServerInv, TopicsInv
<1>4. \A g \in Goroutines : /\ g \in readers' <=> Reads(g)'
                            /\ g = writer' <=> Writes(g)'
                            /\ OpTypes(g)'
  BY <1>1, SMT DEF Inv, TypeOK, Reads, Writes, OpTypes
<1>5. \A g \in Goroutines : ResponseTrue(g)'
  <2> TAKE g \in Goroutines
  <2>1. Log(op[g].part)' = Log(op[g].part)  BY <1>1 DEF Log, Exists
  <2>2. ResponseTrue(g)  BY DEF Inv
  <2> QED BY <1>1, <2>1, <2>2 DEF ResponseTrue, ProduceOffset
<1>6. DOMAIN pc' = Goroutines /\ DOMAIN op' = Goroutines /\ DOMAIN resp' = Goroutines
  BY <1>1 DEF Inv, DataTypes
<1> QED BY <1>3, <1>4, <1>5, <1>6 DEF Inv, TypeOK, DataTypes, ServerInv, TopicsInv, Numbered, OffsetsAreIndices

\* Unlock gives the mutex back.
LEMMA UnlockMoves ==
    ASSUME Inv, NEW g \in Goroutines, Unlock(g), pc'[g] \notin {"held", "drain", "event", "encode"}
    PROVE  MutexMoves(g)
<1>1. ~Reads(g)' /\ ~Writes(g)'  BY DEF Reads, Writes
<1>2. \A h \in Goroutines : h # g => (h \in readers' <=> h \in readers) /\ (h = writer' <=> h = writer)
  BY Constants DEF Unlock
<1>3. g \notin readers' /\ g # writer'  BY Constants DEF Unlock
<1> QED BY <1>1, <1>2, <1>3 DEF MutexMoves

\* A goroutine that had no mutex does without.
LEMMA NoMutexMoves ==
    ASSUME Inv, NEW g \in Goroutines, UNCHANGED mutex, ~Reads(g), ~Writes(g),
           pc'[g] \notin {"held", "drain", "event", "encode"}
    PROVE  MutexMoves(g)
<1>1. ~Reads(g)' /\ ~Writes(g)'  BY DEF Reads, Writes
<1>2. g \notin readers /\ g # writer  BY DEF Inv, TypeOK
<1> QED BY <1>1, <1>2 DEF MutexMoves, mutex

LEMMA ReturnMoves ==
    ASSUME Inv, NEW g \in Goroutines, NEW r, Return(g, r), UNCHANGED op
    PROVE  /\ OnlyMoves(g) /\ MutexMoves(g)
           /\ pc'[g] = "reply" /\ op'[g] = op[g] /\ resp'[g] = r
<1>1. OnlyMoves(g) /\ pc'[g] = "reply" /\ resp'[g] = r  BY DEF Return, Inv, DataTypes, OnlyMoves
<1>2. MutexMoves(g)  BY <1>1, UnlockMoves DEF Return
<1> QED BY <1>1, <1>2

\* A handler or method that only reads, and whose response nothing is claimed of.
Looks(g) ==
    /\ \E r : Return(g, r)
    /\ UNCHANGED <<topics, ln, brokers, events, op, fatal, advertised, wasReset, wasClosed>>
    /\ op[g].kind \notin {"Produce", "Fetch", "Metadata"}

LEMMA LooksKeepInv ==
    ASSUME Inv, NEW g \in Goroutines, Looks(g) PROVE Inv'
<1>1. PICK r : Return(g, r)  BY DEF Looks
<1>2. OnlyMoves(g) /\ MutexMoves(g) /\ pc'[g] = "reply" /\ op'[g] = op[g]
  BY <1>1, ReturnMoves DEF Looks
<1>3. OpTypes(g)'  BY <1>2, OpKept DEF Looks
<1>4. ResponseTrue(g)'  BY <1>2 DEF ResponseTrue, Looks
<1>5. Quiet  BY DEF Looks, Quiet, Inv, TypeOK
<1> QED BY <1>2, <1>3, <1>4, <1>5, QuietMove

-----------------------------------------------------------------------------
(* Requests, calls and the mutex.                                          *)

LEMMA RequestStep ==
    ASSUME Inv, NEW c \in Goroutines, Request(c) PROVE Inv'
<1>1. PICK r \in Requests :
         /\ op' = [op EXCEPT ![c] = IF r.kind = "unknown" THEN NoOp ELSE r]
         /\ pc' = [pc EXCEPT ![c] = IF r.kind = "unknown" THEN "closed" ELSE "lock"]
  BY DEF Request
<1>2. /\ r.kind \in {"Produce", "Fetch"} => r.part \in advertised
      /\ r.kind = "Produce" => r.n \in Nat \ {0}
      /\ r.kind = "Fetch" => r.offset \in Nat
      /\ r.kind # "AddMessages"
      /\ r.kind = "Metadata" => r.topics \subseteq Topics
  BY <1>1, Constants DEF Requests
<1>3. /\ OnlyMoves(c) /\ pc'[c] \in {"closed", "lock"}
      /\ op'[c] = (IF r.kind = "unknown" THEN NoOp ELSE r)
  BY <1>1 DEF Request, Inv, DataTypes, OnlyMoves
<1>4. Quiet /\ UNCHANGED mutex  BY DEF Request, data, Quiet, Inv, TypeOK
<1>5. MutexMoves(c)  BY <1>3, <1>4, NoMutexMoves DEF Request, Reads, Writes
<1>6. OpTypes(c)'
  <2>1. advertised' = advertised  BY <1>4 DEF Quiet
  <2>2. CASE r.kind = "unknown"  BY <1>3, <2>2, SMT DEF OpTypes, NoOp, None
  <2>3. CASE r.kind # "unknown"  BY <1>2, <1>3, <2>1, <2>3 DEF OpTypes
  <2> QED BY <2>2, <2>3
<1>7. ResponseTrue(c)'  BY <1>3 DEF ResponseTrue
<1> QED BY <1>3, <1>4, <1>5, <1>6, <1>7, QuietMove

LEMMA CallStep ==
    ASSUME Inv, NEW u \in Goroutines, Call(u) PROVE Inv'
<1>1. PICK m \in Methods : op' = [op EXCEPT ![u] = m]  BY DEF Call
<1>2. /\ m.kind \notin {"Produce", "Fetch", "Metadata"}
      /\ m.kind = "AddMessages" => m.part \in Topics \X Partitions /\ m.n \in Nat
  BY <1>1, Constants DEF Methods
<1>3. OnlyMoves(u) /\ pc'[u] = "lock" /\ op'[u] = m  BY <1>1 DEF Call, Inv, DataTypes, OnlyMoves
<1>4. Quiet /\ UNCHANGED mutex  BY DEF Call, data, Quiet, Inv, TypeOK
<1>5. MutexMoves(u)  BY <1>3, <1>4, NoMutexMoves DEF Call, Reads, Writes
<1>6. OpTypes(u)'  BY <1>2, <1>3 DEF OpTypes
<1>7. ResponseTrue(u)'  BY <1>3 DEF ResponseTrue
<1> QED BY <1>3, <1>4, <1>5, <1>6, <1>7, QuietMove

\* A request ends without its handler, or the connection ends.
LEMMA NothingToDo ==
    ASSUME Inv, NEW g \in Goroutines, OnlyMoves(g), Quiet, UNCHANGED mutex,
           pc[g] \in {"lock", "idle", "reply", "wait"}, pc'[g] \in {"idle", "closed", "lock"},
           op'[g] \in {NoOp, op[g]}
    PROVE  Inv'
<1>1. MutexMoves(g)  BY NoMutexMoves DEF Reads, Writes
<1>2. OpTypes(g)'
  <2>1. CASE op'[g] = NoOp  BY <2>1, SMT DEF OpTypes, NoOp, None
  <2>2. CASE op'[g] = op[g]  BY <2>2, OpKept DEF Quiet
  <2> QED BY <2>1, <2>2
<1>3. ResponseTrue(g)'  BY DEF ResponseTrue
<1> QED BY <1>1, <1>2, <1>3, QuietMove

LEMMA WaitingStep ==
    ASSUME Inv, NEW g \in Goroutines,
           MiddlewareAnswers(g) \/ Hangup(g) \/ WakeByEvent(g) \/ WakeByTimeout(g)
    PROVE  Inv'
<1>1. OnlyMoves(g)  BY DEF MiddlewareAnswers, Hangup, WakeByEvent, WakeByTimeout, Inv, DataTypes, OnlyMoves
<1>2. Quiet /\ UNCHANGED mutex
  <2>1. events \in 0..EventsCap /\ EventsCap \in Nat  BY ServerAssumption DEF Inv, TypeOK
  <2> QED BY <2>1, SMT DEF MiddlewareAnswers, Hangup, WakeByEvent, WakeByTimeout, data, history, Quiet
<1>3. /\ pc[g] \in {"lock", "idle", "reply", "wait"} /\ pc'[g] \in {"idle", "closed", "lock"}
      /\ op'[g] \in {NoOp, op[g]}
  BY DEF MiddlewareAnswers, Hangup, WakeByEvent, WakeByTimeout, Inv, DataTypes
<1> QED BY <1>1, <1>2, <1>3, NothingToDo

LEMMA LockStep ==
    ASSUME Inv, NEW g \in Goroutines, RLock(g) \/ WantLock(g) \/ Lock(g) PROVE Inv'
<1>1. OnlyMoves(g) /\ op'[g] = op[g] /\ pc'[g] \in {"held", "drain"}
  BY DEF RLock, WantLock, Lock, Inv, DataTypes, OnlyMoves
<1>2. Quiet  BY DEF RLock, WantLock, Lock, data, history, Quiet, Inv, TypeOK
<1>3. OpTypes(g)'
  <2>1. advertised' = advertised /\ OpTypes(g)  BY <1>2 DEF Quiet, Inv
  <2>2. pc'[g] = "drain" => op[g].kind \in Exclusive  BY DEF RLock, WantLock, Lock, Inv, DataTypes
  <2> QED BY <1>1, <2>1, <2>2 DEF OpTypes
<1>4. ResponseTrue(g)'  BY <1>1 DEF ResponseTrue
<1>5. MutexMoves(g)
  <2>1. (g \in readers <=> Reads(g)) /\ (g = writer <=> Writes(g))  BY DEF Inv, TypeOK
  <2>2. CASE RLock(g)
    <3>1. pc'[g] = "held" /\ op[g].kind \notin Exclusive  BY <2>2 DEF RLock, Inv, DataTypes
    <3> QED BY <1>1, <2>1, <2>2, <3>1 DEF RLock, MutexMoves, Reads, Writes
  <2>3. CASE WantLock(g)
    <3>1. pc'[g] = "drain" /\ ~Reads(g)  BY <2>3 DEF WantLock, Inv, DataTypes, Reads
    <3> QED BY <1>1, <2>1, <2>3, <3>1, Constants DEF WantLock, MutexMoves, Reads, Writes
  <2>4. CASE Lock(g)
    <3>1. pc'[g] = "held" /\ op[g].kind \in Exclusive /\ g = writer
      BY <2>1, <2>4 DEF Lock, Inv, DataTypes, OpTypes, Writes
    <3> QED BY <1>1, <2>1, <2>4, <3>1 DEF Lock, mutex, MutexMoves, Reads, Writes
  <2> QED BY <2>2, <2>3, <2>4
<1> QED BY <1>1, <1>2, <1>3, <1>4, <1>5, QuietMove

-----------------------------------------------------------------------------
(* The handlers and methods that change logs.                              *)

\* Logs grow and partitions are made, before a Reset without gaps.
LEMMA GrowStep ==
    ASSUME Inv, TopicsInv', LogsGrow, ~wasReset => Dense(DOMAIN topics'),
           UNCHANGED <<ln, brokers, events, fatal, advertised, wasReset, wasClosed>>
    PROVE  ServerInv'
<1>1. ServerInv  BY InvParts
<1> QED BY <1>1 DEF ServerInv, PanicsAfterResetOrClose, LogsGrow

LEMMA ProduceStep ==
    ASSUME Inv, NEW g \in Goroutines, handleProduceRequest(g) PROVE Inv'
<1>1. ServerInv /\ OpTypes(g)  BY InvParts
<1>2. /\ pc[g] = "held" /\ op[g].kind = "Produce"
      /\ op[g].part \in advertised /\ op[g].n \in Nat \ {0}
      /\ advertised \subseteq Topics \X Partitions
  BY <1>1 DEF handleProduceRequest, Holds, OpTypes, ServerInv
<1>3. PICK part \in Topics \X Partitions, n \in Nat \ {0} : part = op[g].part /\ n = op[g].n  BY <1>2
<1>4. /\ TopicsInv' /\ LogsGrow /\ AddedBy(g) /\ Grows(Log(part)', Log(part), g, n)
      /\ DOMAIN topics' = DOMAIN topics \cup {part}
  <2>1. PICK S : S = {part}  OBVIOUS
  <2>2. topics' = Appended(g, S, part, n)  BY <1>3, <2>1 DEF handleProduceRequest
  <2>3. S \in SUBSET (Topics \X Partitions) /\ part \in S /\ n \in Nat  BY <2>1
  <2>4. TopicsInv  BY <1>1 DEF ServerInv
  <2> QED BY <2>1, <2>2, <2>3, <2>4, AppendStep
<1>5. OnlyMoves(g) /\ pc'[g] = "event" /\ op'[g] = op[g]
  BY DEF handleProduceRequest, Inv, DataTypes, OnlyMoves
<1>6. UNCHANGED <<ln, brokers, events, mutex, fatal, advertised, wasReset, wasClosed>>
  BY DEF handleProduceRequest, history
<1>7. Respects(g)  BY <1>2, <1>4, <1>5, <1>6 DEF Respects, Writes, Exclusive
<1>8. MutexMoves(g)
  <2>1. ~Reads(g) /\ Writes(g)  BY <1>2 DEF Reads, Writes, Exclusive
  <2>2. ~Reads(g)' /\ Writes(g)'  BY <1>5 DEF Reads, Writes
  <2>3. g \notin readers /\ g = writer  BY <2>1 DEF Inv, TypeOK
  <2> QED BY <1>6, <2>2, <2>3 DEF mutex, MutexMoves
<1>9. ServerInv'
  <2>1. ~wasReset => DOMAIN topics' = DOMAIN topics /\ Dense(DOMAIN topics)
    BY <1>1, <1>2, <1>3, <1>4 DEF ServerInv
  <2>2. ~wasReset => Dense(DOMAIN topics')  BY <2>1
  <2> QED BY <1>4, <1>6, <2>2, GrowStep
<1>10. OpTypes(g)'  BY <1>1, <1>2, <1>5, <1>6 DEF OpTypes
<1>11. ResponseTrue(g)'
  <2>1. Log(op[g].part)' = Log(part)'  BY <1>3, <1>5 DEF Log, Exists
  <2>2. Len(Log(part)) \in Nat  BY <1>1, LogNumbered DEF ServerInv
  <2> DEFINE log == Log(part)'
             k == Len(Log(part))
  <2>3. /\ Len(log) = k + n /\ k \in Nat
        /\ \A i \in 1..n : log[k + i] = [offset |-> k + i - 1, by |-> g]
    BY <1>4, <2>2 DEF Grows
  <2> HIDE DEF log, k
  <2>4. ASSUME NEW i \in (k + 1)..(k + n) PROVE log[i].by = g
    <3>1. i - k \in 1..n /\ i = k + (i - k)  BY <2>3, SMT
    <3>2. PICK j \in 1..n : i = k + j  BY <3>1
    <3>3. log[i] = [offset |-> k + j - 1, by |-> g]  BY <2>3, <3>2
    <3> QED BY <3>3, SMT
  <2>5. /\ Len(log) - 1 \in (n - 1)..(Len(log) - 1)
        /\ ((Len(log) - 1) - n + 2)..((Len(log) - 1) + 1) = (k + 1)..(k + n)
        /\ ((Len(log) - 1) + 2)..Len(log) = {}
    <3>1. PICK l : l = Len(log)  OBVIOUS
    <3>2. l = k + n  BY <2>3, <3>1
    <3>3. /\ l - 1 \in (n - 1)..(l - 1)
          /\ ((l - 1) - n + 2) = k + 1 /\ ((l - 1) + 1) = k + n
          /\ ((l - 1) + 2)..l = {}
      BY <2>3, <3>2, SMT
    <3> QED BY <3>1, <3>3
  <2>6. WroteLast(g, log, Len(log) - 1, n)  BY <2>4, <2>5 DEF WroteLast
  <2> QED BY <1>3, <1>5, <2>1, <2>6 DEF ResponseTrue, ProduceOffset, log
<1> QED BY <1>7, <1>8, <1>9, <1>10, <1>11, MoveKeepsInv

LEMMA AddMessagesStep ==
    ASSUME Inv, NEW u \in Goroutines, AddMessages(u) PROVE Inv'
<1>1. ServerInv /\ OpTypes(u)  BY InvParts
<1>2. /\ pc[u] = "held" /\ op[u].kind = "AddMessages"
      /\ op[u].part \in Topics \X Partitions /\ op[u].n \in Nat
  BY <1>1 DEF AddMessages, Holds, OpTypes
<1>3. PICK t \in Topics, p \in Partitions, n \in Nat, part \in Topics \X Partitions :
         part = <<t, p>> /\ part = op[u].part /\ n = op[u].n
  BY <1>2, SMT
<1>4. PICK S : S = {t} \X (0..p)  OBVIOUS
<1>5. S \in SUBSET (Topics \X Partitions) /\ part \in S /\ Dense(S)
  <2>1. p \in 0..p /\ \A q \in 0..p : q \in Partitions /\ 0..q \subseteq 0..p  BY Constants, SMT DEF Partitions
  <2> QED BY <1>3, <1>4, <2>1, SMT DEF Dense
<1>6. TopicsInv' /\ LogsGrow /\ AddedBy(u) /\ DOMAIN topics' = DOMAIN topics \cup S
  <2>1. topics' = Appended(u, S, part, n)  BY <1>3, <1>4, SMT DEF AddMessages, AddTo
  <2> QED BY <1>1, <1>5, <2>1, AppendStep DEF ServerInv
<1>7. Return(u, Ok) /\ UNCHANGED <<ln, brokers, events, op, fatal, advertised, wasReset, wasClosed>>
  BY DEF AddMessages, history
<1>8. OnlyMoves(u) /\ MutexMoves(u) /\ pc'[u] = "reply" /\ op'[u] = op[u]
  <2>1. PICK r : r = Ok  OBVIOUS
  <2> QED BY <1>7, <2>1, ReturnMoves
<1>9. Respects(u)  BY <1>2, <1>6, <1>7, <1>8 DEF Respects, Writes, Exclusive
<1>10. ServerInv'
  <2>1. ~wasReset => Dense(DOMAIN topics')  BY <1>1, <1>5, <1>6 DEF ServerInv, Dense
  <2> QED BY <1>6, <1>7, <2>1, GrowStep
<1>11. OpTypes(u)'  BY <1>7, <1>8, OpKept
<1>12. ResponseTrue(u)'  BY <1>2, <1>8 DEF ResponseTrue
<1> QED BY <1>8, <1>9, <1>10, <1>11, <1>12, MoveKeepsInv

LEMMA ResetStep ==
    ASSUME Inv, NEW u \in Goroutines, Reset(u) PROVE Inv'
<1>1. pc[u] = "held" /\ op[u].kind = "Reset"  BY DEF Reset, Holds
<1>2. /\ topics' = <<>> /\ wasReset' /\ Return(u, Ok)
      /\ UNCHANGED <<ln, brokers, events, op, fatal, advertised, wasClosed>>
  BY DEF Reset
<1>3. OnlyMoves(u) /\ MutexMoves(u) /\ pc'[u] = "reply" /\ op'[u] = op[u]
  <2>1. PICK r : r = Ok  OBVIOUS
  <2> QED BY <1>2, <2>1, ReturnMoves
<1>4. Respects(u)  BY <1>1, <1>2, <1>3 DEF Respects, Writes, Exclusive
<1>5. ServerInv'
  <2>1. DOMAIN topics' = {}  BY <1>2, SMT
  <2>2. TopicsInv'  BY <2>1 DEF TopicsInv
  <2>3. ServerInv  BY InvParts
  <2> QED BY <1>2, <2>2, <2>3 DEF ServerInv, PanicsAfterResetOrClose
<1>6. OpTypes(u)'  BY <1>2, <1>3, OpKept
<1>7. ResponseTrue(u)'  BY <1>1, <1>3 DEF ResponseTrue
<1> QED BY <1>3, <1>4, <1>5, <1>6, <1>7, MoveKeepsInv

-----------------------------------------------------------------------------
(* The other handlers and methods.                                         *)

LEMMA DiesStep ==
    ASSUME Inv, NEW why \in {"race", "index", "nil"}, Dies(why),
           why = "index" => wasReset \/ wasClosed, why = "nil" => wasClosed
    PROVE  Inv'
<1>1. PanicsAfterResetOrClose'  BY DEF Dies, history, PanicsAfterResetOrClose
<1> QED BY <1>1, NothingMoves DEF Dies

LEMMA SendEventStep ==
    ASSUME Inv, NEW g \in Goroutines, SendEvent(g) PROVE Inv'
<1>1. PICK offset, r : /\ offset = ProduceOffset(op[g].part) /\ r = [err |-> "nil", offset |-> offset]
  OBVIOUS
<1>2. Return(g, r) /\ pc[g] = "event"  BY <1>1 DEF SendEvent
<1>3. UNCHANGED <<topics, ln, brokers, op, fatal, advertised, wasReset, wasClosed>>
  BY DEF SendEvent, data, history
<1>4. OnlyMoves(g) /\ MutexMoves(g) /\ pc'[g] = "reply" /\ op'[g] = op[g] /\ resp'[g] = r
  BY <1>2, <1>3, ReturnMoves
<1>5. Quiet
  <2>1. events \in 0..EventsCap /\ EventsCap \in Nat /\ events < EventsCap /\ events' = events + 1
    BY ServerAssumption DEF SendEvent, Inv, TypeOK
  <2> QED BY <1>3, <2>1, SMT DEF Quiet
<1>6. OpTypes(g) /\ ResponseTrue(g)  BY DEF Inv
<1>7. op[g].kind = "Produce" /\ WroteLast(g, Log(op[g].part), offset, op[g].n)
  BY <1>1, <1>2, <1>6 DEF OpTypes, ResponseTrue
<1>8. Log(op[g].part)' = Log(op[g].part)  BY <1>3 DEF Log, Exists
<1>9. OpTypes(g)'  BY <1>3, <1>4, OpKept
<1>10. ResponseTrue(g)'  BY <1>1, <1>4, <1>7, <1>8, SMT DEF ResponseTrue
<1> QED BY <1>4, <1>5, <1>9, <1>10, QuietMove

\* fetchRequest returns the messages from the offset on.
LEMMA FetchTrue ==
    ASSUME TopicsInv, NEW part, NEW offset \in Nat, fetchRequest(part, offset).err = "nil"
    PROVE  ReadFrom(fetchRequest(part, offset).msgs, Log(part), offset)
<1> DEFINE log == Log(part)
           msgs == SubSeq(log, offset + 1, Len(log))
<1>1. log \in Seq(Message) /\ Len(log) \in Nat  BY LogNumbered DEF Numbered
<1>2. fetchRequest(part, offset).msgs = msgs /\ offset <= Len(log)  BY <1>1, SMT DEF fetchRequest
<1> HIDE DEF log
<1>3. \A i \in (offset + 1)..Len(log) : log[i] \in Message
  <2>1. \A i \in 1..Len(log) : log[i] \in Message  BY <1>1, SMT
  <2>2. \A i \in (offset + 1)..Len(log) : i \in 1..Len(log)  BY <1>1, SMT
  <2> QED BY <2>1, <2>2
<1>4. offset + 1 \in Int /\ Len(log) \in Int  BY <1>1, SMT
<1>5. /\ msgs \in Seq(Message)
      /\ Len(msgs) = IF offset + 1 <= Len(log) THEN Len(log) - (offset + 1) + 1 ELSE 0
      /\ \A i \in 1..(Len(log) - (offset + 1) + 1) : msgs[i] = log[(offset + 1) + i - 1]
  BY <1>3, <1>4, SMT
<1> HIDE DEF msgs
<1>6. Len(msgs) = Len(log) - offset  BY <1>1, <1>2, <1>5, SMT
<1>7. \A i \in 1..Len(msgs) : i \in 1..(Len(log) - (offset + 1) + 1) /\ (offset + 1) + i - 1 = offset + i
  BY <1>1, <1>2, <1>6, SMT
<1>8. \A i \in 1..Len(msgs) : msgs[i] = log[offset + i]  BY <1>5, <1>7
<1>9. offset + Len(msgs) <= Len(log)  BY <1>1, <1>6, SMT
<1>10. ReadFrom(msgs, log, offset)  BY <1>5, <1>8, <1>9 DEF ReadFrom
<1> QED BY <1>2, <1>10 DEF log

LEMMA FetchStep ==
    ASSUME Inv, NEW g \in Goroutines, handleFetchRequest(g) PROVE Inv'
<1>1. /\ op[g].kind = "Fetch" /\ op[g].offset \in Nat /\ OpTypes(g) /\ TopicsInv
  BY InvParts DEF handleFetchRequest, Holds, OpTypes, ServerInv
<1>2. PICK part, offset, r :
         /\ part = op[g].part /\ offset = op[g].offset
         /\ r = fetchRequest(part, offset)
  OBVIOUS
<1>3. UNCHANGED <<topics, ln, brokers, events, op, fatal, advertised, wasReset, wasClosed>>
  BY DEF handleFetchRequest, data, history
<1>4. Quiet  BY <1>3 DEF Quiet, Inv, TypeOK
<1>5. /\ Unlock(g) /\ resp' = [resp EXCEPT ![g] = r]
      /\ pc' = [pc EXCEPT ![g] = "wait"] \/ pc' = [pc EXCEPT ![g] = "reply"]
  BY <1>2 DEF handleFetchRequest, Return
<1>6. OnlyMoves(g) /\ pc'[g] \in {"wait", "reply"} /\ op'[g] = op[g] /\ resp'[g] = r
  BY <1>3, <1>5 DEF Inv, DataTypes, OnlyMoves
<1>7. MutexMoves(g)  BY <1>5, <1>6, UnlockMoves
<1>8. OpTypes(g)'  BY <1>3, <1>6, OpKept
<1>9. Log(op[g].part)' = Log(part)  BY <1>2, <1>3 DEF Log, Exists
<1>10. r.err = "nil" => ReadFrom(r.msgs, Log(part), offset)  BY <1>1, <1>2, FetchTrue
<1>11. ResponseTrue(g)'  BY <1>1, <1>2, <1>6, <1>9, <1>10 DEF ResponseTrue
<1> QED BY <1>4, <1>6, <1>7, <1>8, <1>11, QuietMove

LEMMA MetadataStep ==
    ASSUME Inv, NEW g \in Goroutines, handleMetadataRequest(g) PROVE Inv'
<1> DEFINE missing == op[g].topics \ {part[1] : part \in DOMAIN topics}
           all == [q \in DOMAIN topics \cup (missing \X {0}) |-> Log(q)]
           parts == {q \in DOMAIN all : op[g].topics = {} \/ q[1] \in op[g].topics}
           r == [err |-> "nil", brokers |-> brokers, parts |-> parts]
<1>1. ServerInv /\ OpTypes(g)  BY InvParts
<1>2. op[g].kind = "Metadata" /\ missing \subseteq Topics
  BY <1>1 DEF handleMetadataRequest, Holds, OpTypes
<1>3. \/ Dies("race")
      \/ Dies("index") /\ ~Dense(parts)
      \/ /\ topics' = all /\ Return(g, r)
         /\ UNCHANGED <<offsets, ln, brokers, events, op, fatal, history>>
  BY DEF handleMetadataRequest
<1> HIDE DEF missing
<1>4. /\ DOMAIN all = DOMAIN topics \cup (missing \X {0})
      /\ \A q \in DOMAIN all : all[q] = Log(q)
      /\ DOMAIN all \subseteq Topics \X Partitions
  <2>1. 0 \in Partitions  BY Constants, SMT DEF Partitions
  <2> QED BY <1>1, <1>2, <2>1 DEF ServerInv, TopicsInv
<1> HIDE DEF all
<1>5. ~wasReset => Dense(DOMAIN all) /\ Dense(parts)
  <2>1. Dense(missing \X {0})  BY SMT DEF Dense
  <2>2. ~wasReset => Dense(DOMAIN all)  BY <1>1, <1>4, <2>1 DEF ServerInv, Dense
  <2> QED BY <2>2 DEF Dense
<1>6. parts \subseteq DOMAIN all  OBVIOUS
<1> HIDE DEF parts
<1>7. CASE Dies("race") \/ (Dies("index") /\ ~Dense(parts))
  <2>1. PICK why \in {"race", "index", "nil"} : Dies(why) /\ (why = "index" => ~Dense(parts)) /\ why # "nil"
    BY <1>7
  <2> QED BY <1>5, <2>1, DiesStep
<1>8. CASE /\ topics' = all /\ Return(g, r)
           /\ UNCHANGED <<offsets, ln, brokers, events, op, fatal, history>>
  <2>1. UNCHANGED <<ln, brokers, events, fatal, advertised, wasReset, wasClosed>>  BY <1>8 DEF history
  <2>2. OnlyMoves(g) /\ MutexMoves(g) /\ pc'[g] = "reply" /\ op'[g] = op[g] /\ resp'[g].parts = parts
    <3>1. PICK s : s = r  OBVIOUS
    <3>2. OnlyMoves(g) /\ MutexMoves(g) /\ pc'[g] = "reply" /\ op'[g] = op[g] /\ resp'[g] = s
      BY <1>8, <3>1, ReturnMoves
    <3> QED BY <3>1, <3>2, SMT
  <2>3. LogsSame  BY <1>4, <1>8 DEF LogsSame, Log, Exists
  <2>4. LogsGrow /\ AddedBy(g)  BY <1>1, <2>3, SameGrow DEF ServerInv
  <2>5. Respects(g)  BY <2>1, <2>2, <2>3, <2>4 DEF Respects
  <2>6. TopicsInv'  BY <1>1, <1>4, <1>8, LogNumbered DEF ServerInv, TopicsInv
  <2>7. ServerInv'  BY <1>5, <1>8, <2>1, <2>4, <2>6, GrowStep
  <2>8. OpTypes(g)'  BY <2>1, <2>2, OpKept
  <2>9. ResponseTrue(g)'  BY <1>2, <1>4, <1>6, <1>8, <2>2 DEF ResponseTrue
  <2> QED BY <2>2, <2>5, <2>7, <2>8, <2>9, MoveKeepsInv
<1> QED BY <1>3, <1>7, <1>8

LEMMA LookStep ==
    ASSUME Inv, NEW g \in Goroutines,
           \/ handleOffsetRequest(g) \/ handleAPIVersionsRequest(g) \/ handleOffsetCommitRequest(g)
           \/ handleOffsetFetchRequest(g) \/ handleConsumerMetadataRequest(g) \/ Addr(g) \/ Encoded(g)
    PROVE  Inv'
<1> USE DEF Holds, data, history, Looks
<1>1. CASE handleOffsetRequest(g)
  <2>1. Looks(g)  BY <1>1 DEF handleOffsetRequest
  <2> QED BY <2>1, LooksKeepInv
<1>2. CASE handleAPIVersionsRequest(g)
  <2>1. Looks(g)  BY <1>2 DEF handleAPIVersionsRequest
  <2> QED BY <2>1, LooksKeepInv
<1>3. CASE handleOffsetCommitRequest(g)
  <2>1. Looks(g)  BY <1>3 DEF handleOffsetCommitRequest
  <2> QED BY <2>1, LooksKeepInv
<1>4. CASE handleOffsetFetchRequest(g)
  <2>1. CASE Dies("race")
    <3>1. PICK why \in {"race", "index", "nil"} : why = "race"  OBVIOUS
    <3> QED BY <2>1, <3>1, DiesStep
  <2>2. CASE ~Dies("race")
    <3>1. Looks(g)  BY <1>4, <2>2 DEF handleOffsetFetchRequest
    <3> QED BY <3>1, LooksKeepInv
  <2> QED BY <2>1, <2>2
<1>5. CASE handleConsumerMetadataRequest(g)
  <2>1. CASE ln = 0
    <3>1. PICK why \in {"race", "index", "nil"} : why = "index"  OBVIOUS
    <3>2. Dies(why) /\ wasClosed  BY <1>5, <2>1, <3>1 DEF handleConsumerMetadataRequest, Inv
    <3> QED BY <3>2, DiesStep
  <2>2. CASE ln # 0
    <3>1. Looks(g)  BY <1>5, <2>2 DEF handleConsumerMetadataRequest
    <3> QED BY <3>1, LooksKeepInv
  <2> QED BY <2>1, <2>2
<1>6. CASE Addr(g)
  <2>1. Looks(g)  BY <1>6 DEF Addr
  <2> QED BY <2>1, LooksKeepInv
<1>7. CASE Encoded(g)
  <2>1. op[g].kind = "ServeHTTP"  BY <1>7 DEF Encoded, Inv, OpTypes
  <2>2. Looks(g)  BY <1>7, <2>1 DEF Encoded
  <2> QED BY <2>2, LooksKeepInv
<1> HIDE DEF Holds, data, history, Looks
<1> QED BY <1>1, <1>2, <1>3, <1>4, <1>5, <1>6, <1>7

\* ServeHTTP keeps the mutex while it writes.
LEMMA ServeHTTPStep ==
    ASSUME Inv, NEW u \in Goroutines, ServeHTTP(u) PROVE Inv'
<1>1. pc[u] = "held" /\ op[u].kind = "ServeHTTP"  BY DEF ServeHTTP, Holds
<1>2. OnlyMoves(u) /\ pc'[u] = "encode" /\ op'[u] = op[u]  BY DEF ServeHTTP, Inv, DataTypes, OnlyMoves
<1>3. Quiet /\ UNCHANGED mutex  BY DEF ServeHTTP, data, history, Quiet, Inv, TypeOK
<1>4. MutexMoves(u)
  <2>1. ~Reads(u) /\ Writes(u)  BY <1>1 DEF Reads, Writes, Exclusive
  <2>2. ~Reads(u)' /\ Writes(u)'  BY <1>2 DEF Reads, Writes
  <2>3. u \notin readers /\ u = writer  BY <2>1 DEF Inv, TypeOK
  <2> QED BY <1>3, <2>2, <2>3 DEF mutex, MutexMoves
<1>5. OpTypes(u)'  BY <1>1, <1>2 DEF OpTypes
<1>6. ResponseTrue(u)'  BY <1>2 DEF ResponseTrue
<1> QED BY <1>2, <1>3, <1>4, <1>5, <1>6, QuietMove

\* Run finds that there is no listener any more, or returns.
LEMMA AlreadyRunningStep ==
    ASSUME Inv, NEW u \in Goroutines, AlreadyRunning(u) PROVE Inv'
<1>1. pc[u] = "running" /\ op[u].kind = "Run"  BY DEF AlreadyRunning, Inv, OpTypes
<1>2. CASE ln = 0
  <2>1. PICK why \in {"race", "index", "nil"} : why = "nil"  OBVIOUS
  <2>2. Dies(why) /\ wasClosed  BY <1>2, <2>1 DEF AlreadyRunning, Inv
  <2> QED BY <2>2, DiesStep
<1>3. CASE ln # 0
  <2>1. OnlyMoves(u) /\ pc'[u] = "reply" /\ op'[u] = op[u]
    BY <1>3 DEF AlreadyRunning, Inv, DataTypes, OnlyMoves
  <2>2. Quiet /\ UNCHANGED mutex  BY <1>3 DEF AlreadyRunning, data, history, Quiet, Inv, TypeOK
  <2>3. MutexMoves(u)  BY <1>1, <2>1, <2>2, NoMutexMoves DEF Reads, Writes
  <2>4. OpTypes(u)'  BY <2>1, <2>2, OpKept DEF Quiet
  <2>5. ResponseTrue(u)'  BY <1>1, <2>1 DEF ResponseTrue
  <2> QED BY <2>1, <2>2, <2>3, <2>4, <2>5, QuietMove
<1> QED BY <1>2, <1>3

\* Close, MustSpawn and Run: only the listener changes.
LEMMA ListenerStep ==
    ASSUME Inv, NEW u \in Goroutines, Close(u) \/ MustSpawn(u) \/ Run(u) PROVE Inv'
<1>1. /\ op[u].kind \in {"Close", "MustSpawn", "Run"}
      /\ UNCHANGED <<topics, events, op, fatal, advertised, wasReset>>
      /\ wasClosed => wasClosed'
  <2>1. CASE Close(u)  BY <2>1 DEF Close, Holds
  <2>2. CASE MustSpawn(u)  BY <2>2 DEF MustSpawn, Holds, history
  <2>3. CASE Run(u)  BY <2>3 DEF Run, Holds, history
  <2> QED BY <2>1, <2>2, <2>3
<1>2. /\ Unlock(u) /\ OnlyMoves(u) /\ pc'[u] \in {"reply", "closed", "running"} /\ op'[u] = op[u]
      /\ pc'[u] = "running" => op[u].kind = "Run"
  BY <1>1 DEF Close, MustSpawn, Run, Holds, Return, Inv, DataTypes, OnlyMoves
<1>3. MutexMoves(u)  BY <1>2, UnlockMoves
<1>4. ServerInv  BY InvParts
<1>5. brokers' \in Seq(Nat) /\ ln' \in 0..Len(brokers') /\ (ln' = 0 => wasClosed')
  <2>1. brokers \in Seq(Nat) /\ Len(brokers) \in Nat /\ ln \in 0..Len(brokers) /\ (ln = 0 => wasClosed)
    BY <1>4, SMT DEF ServerInv
  <2>2. CASE ln' = 0 /\ wasClosed' /\ UNCHANGED brokers  BY <2>1, <2>2, SMT
  <2>3. CASE UNCHANGED <<ln, brokers, wasClosed>>  BY <2>1, <2>3
  <2>4. CASE Listen
    <3>1. ln' = Len(brokers) + 1 /\ brokers' = Append(brokers, Len(brokers) + 1)  BY <2>4 DEF Listen
    <3>2. brokers' \in Seq(Nat) /\ Len(brokers') = Len(brokers) + 1  BY <2>1, <3>1, SMT
    <3> QED BY <2>1, <3>1, <3>2, SMT
  <2> QED BY <2>2, <2>3, <2>4 DEF Close, MustSpawn, Run, history
<1>6. TopicsStay  BY <1>1, <1>4, <1>5 DEF ServerInv, TopicsStay
<1>7. OpTypes(u)'  BY <1>1, <1>2 DEF OpTypes
<1>8. ResponseTrue(u)'  BY <1>1, <1>2 DEF ResponseTrue
<1> QED BY <1>2, <1>3, <1>6, <1>7, <1>8, TopicsStayMove

\* A client gets to know the partitions of a metadata response.
LEMMA ReplyStep ==
    ASSUME Inv, NEW g \in Goroutines, Reply(g) PROVE Inv'
<1>1. /\ pc[g] = "reply" /\ UNCHANGED <<topics, ln, brokers, events, mutex, fatal, wasReset, wasClosed>>
      /\ advertised' = IF op[g].kind = "Metadata" THEN advertised \cup resp[g].parts ELSE advertised
  BY DEF Reply, data
<1>2. OnlyMoves(g) /\ pc'[g] \in {"closed", "idle"} /\ op'[g] = NoOp
  BY DEF Reply, Inv, DataTypes, OnlyMoves
<1>3. MutexMoves(g)  BY <1>1, <1>2, NoMutexMoves DEF Reads, Writes
<1>4. ServerInv /\ ResponseTrue(g)  BY InvParts
<1>5. TopicsStay
  <2>1. op[g].kind = "Metadata" => /\ resp[g].parts \subseteq Topics \X Partitions
                                   /\ ~wasReset => resp[g].parts \subseteq DOMAIN topics
    BY <1>1, <1>4 DEF ResponseTrue
  <2>2. advertised \subseteq Topics \X Partitions /\ (~wasReset => advertised \subseteq DOMAIN topics)
    BY <1>4 DEF ServerInv
  <2>3. /\ advertised \subseteq advertised' /\ advertised' \subseteq Topics \X Partitions
        /\ ~wasReset => advertised' \subseteq DOMAIN topics
    BY <1>1, <2>1, <2>2
  <2> QED BY <1>1, <1>4, <2>3 DEF ServerInv, TopicsStay
<1>6. OpTypes(g)'  BY <1>2, SMT DEF OpTypes, NoOp, None
<1>7. ResponseTrue(g)'  BY <1>2 DEF ResponseTrue
<1> QED BY <1>2, <1>3, <1>5, <1>6, <1>7, TopicsStayMove

-----------------------------------------------------------------------------
(* The theorems.                                                           *)

LEMMA InitInv == Init => Inv
<1> SUFFICES ASSUME Init PROVE Inv  OBVIOUS
<1>1. /\ DOMAIN topics \in {{}, Topics \X Partitions} /\ advertised = DOMAIN topics
      /\ \A part \in DOMAIN topics : topics[part] = <<>>
  <2>1. CASE topics = <<>> /\ advertised = {}
    <3>1. DOMAIN topics = {}  BY <2>1, SMT
    <3> QED BY <2>1, <3>1
  <2>2. CASE topics = [part \in Topics \X Partitions |-> <<>>] /\ advertised = Topics \X Partitions
    BY <2>2
  <2> QED BY <2>1, <2>2 DEF Init
<1>2. TopicsInv
  <2>1. Numbered(<<>>)  BY SMT DEF Numbered
  <2> QED BY <1>1, <2>1 DEF TopicsInv
<1>3. Dense(DOMAIN topics)
  <2>1. \A p \in Partitions : 0..p \subseteq Partitions  BY Constants, SMT DEF Partitions
  <2> QED BY <1>1, <2>1, SMT DEF Dense
<1>4. ServerInv
  <2>1. brokers \in Seq(Nat) /\ Len(brokers) = 1 /\ ln = 1 /\ events = 0 /\ EventsCap \in Nat
    BY ServerAssumption, SMT DEF Init
  <2>2. PanicsAfterResetOrClose  BY DEF Init, PanicsAfterResetOrClose, None
  <2> QED BY <1>1, <1>2, <1>3, <2>1, <2>2, SMT DEF ServerInv, Init
<1>5. \A g \in Goroutines : /\ ~Reads(g) /\ ~Writes(g) /\ g \notin readers /\ g # writer
                            /\ OpTypes(g) /\ ResponseTrue(g)
  <2> TAKE g \in Goroutines
  <2>1. pc[g] = "idle" /\ op[g].kind = "none"  BY DEF Init, NoOp, None
  <2>2. g \notin readers /\ g # writer  BY Constants DEF Init
  <2> QED BY <2>1, <2>2 DEF Reads, Writes, OpTypes, ResponseTrue
<1>6. DOMAIN pc = Goroutines /\ DOMAIN op = Goroutines /\ DOMAIN resp = Goroutines  BY DEF Init
<1> QED BY <1>4, <1>5, <1>6, InvParts

LEMMA NextInv == Inv /\ [Next]_vars => Inv'
<1> SUFFICES ASSUME Inv, [Next]_vars PROVE Inv'  OBVIOUS
<1>1. ASSUME NEW g \in Goroutines, Step(g) PROVE Inv'
  <2>1. CASE RLock(g) \/ WantLock(g) \/ Lock(g)  BY <2>1, LockStep
  <2>2. CASE Handler(g)
    BY <2>2, ProduceStep, SendEventStep, FetchStep, LookStep, MetadataStep DEF Handler
  <2>3. CASE Method(g)
    BY <2>3, AddMessagesStep, ResetStep, LookStep, ServeHTTPStep, ListenerStep, AlreadyRunningStep
       DEF Method
  <2>4. CASE WakeByTimeout(g)  BY <2>4, WaitingStep
  <2>5. CASE Reply(g)  BY <2>5, ReplyStep
  <2> QED BY <1>1, <2>1, <2>2, <2>3, <2>4, <2>5 DEF Step
<1>2. ASSUME NEW c \in Clients, Request(c) \/ MiddlewareAnswers(c) \/ Hangup(c) PROVE Inv'
  <2>1. c \in Goroutines  BY DEF Goroutines
  <2> QED BY <1>2, <2>1, RequestStep, WaitingStep
<1>3. ASSUME NEW u \in Users, Call(u) \/ Encoded(u) PROVE Inv'
  <2>1. u \in Goroutines  BY DEF Goroutines
  <2> QED BY <1>3, <2>1, CallStep, LookStep
<1>4. CASE UNCHANGED vars
  <2>1. PanicsAfterResetOrClose'  BY <1>4 DEF vars, history, Inv, PanicsAfterResetOrClose
  <2> QED BY <1>4, <2>1, NothingMoves DEF vars
<1>5. CASE Next  BY <1>1, <1>2, <1>3, <1>5, WaitingStep DEF Next
<1> QED BY <1>4, <1>5

\* Inv holds in every state.
LEMMA Invariance == Spec => []Inv
  BY InitInv, NextInv, PTL DEF Spec

\* The mutex is held from RLock or Lock to the end of a handler or method and at no
\* other time, for any number of connections and callers.
THEOREM TypeCorrect == Spec => []TypeOK
<1>1. Inv => TypeOK  BY DEF Inv
<1> QED BY <1>1, Invariance, PTL

\* The offsets of a partition are 0, 1, 2, ..., however Produce requests and
\* AddMessages interleave.
THEOREM LogsNumbered == Spec => []OffsetsAreIndices
<1>1. Inv => OffsetsAreIndices  BY DEF Inv
<1> QED BY <1>1, Invariance, PTL

\* Until there is a Reset, what a fetch or a produce response says is true when it
\* is written, though the mutex was released before and others may have appended:
\* the messages that were fetched are where they were, and the offset is still that
\* of the last message of the request.
THEOREM ResponsesStayTrue == Spec => []ResponsesTrue
<1>1. Inv => ResponsesTrue
  <2> SUFFICES ASSUME Inv, ~wasReset, NEW c \in Clients, pc[c] = "reply", resp[c].err = "nil"
               PROVE  /\ op[c].kind = "Fetch" => ReadFrom(resp[c].msgs, Log(op[c].part), op[c].offset)
                      /\ op[c].kind = "Produce" => WroteLast(c, Log(op[c].part), resp[c].offset, op[c].n)
    BY DEF ResponsesTrue
  <2>1. ResponseTrue(c)  BY DEF Inv, Goroutines
  <2> QED BY <2>1 DEF ResponseTrue
<1> QED BY <1>1, Invariance, PTL

\* No handler indexes out of range before a Reset or a Close, and Run uses no
\* listener that is nil before a Close.
THEOREM PanicsExplained == Spec => []PanicsAfterResetOrClose
<1>1. Inv => PanicsAfterResetOrClose  BY DEF Inv
<1> QED BY <1>1, Invariance, PTL
=============================================================================

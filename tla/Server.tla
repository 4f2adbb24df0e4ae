------------------------------- MODULE Server -------------------------------
(***************************************************************************)
(* The mock server of src/v2/kafkatest/server.go: one goroutine for each   *)
(* connection (handleClient), the goroutines of a test that call the       *)
(* methods of Server, the sync.RWMutex they share and the channel events.  *)
(*                                                                         *)
(* A goroutine asks for the mutex, works while it holds it and releases it *)
(* in one step with the end of its work (defer).  Some handlers write maps *)
(* while they hold the mutex for reading only; the Go runtime then may end *)
(* the program, as it does when an index is out of range.                  *)
(*                                                                         *)
(* An operator that nothing uses and that stands right before another one  *)
(* is the other one with a slip in it.                                     *)
(***************************************************************************)
EXTENDS Integers, Sequences

CONSTANTS
    Clients,     \* the goroutines of connections
    Users,       \* the goroutines of the test
    Topics,
    Groups,      \* consumer groups
    MaxPart,     \* bound: the largest partition number
    Sizes, FetchOffsets, Times,  \* of Produce and AddMessages, Fetch and OffsetCommit, Offset
    EventsCap,   \* the capacity of events
    MaxCalls     \* bound: requests and calls in all

None == "none"

ASSUME ServerAssumption ==
    /\ Clients \cap Users = {} /\ None \notin Clients \cup Users
    /\ MaxPart \in Nat /\ MaxCalls \in Nat /\ EventsCap \in Nat \ {0}
    /\ Sizes \subseteq Nat /\ FetchOffsets \subseteq Nat

VARIABLES
    topics,      \* the messages of each <<topic, partition>> that exists
    offsets,     \* what was committed, by <<group, topic, partition>>
    ln,          \* the number of the listener, 0 for nil
    brokers,     \* the listeners that metadata responses name
    events,      \* the number of events in the channel
    writer,      \* the goroutine that has the mutex for writing, or is the next one to
    readers,     \* the goroutines that have it for reading
    pc, op,      \* what each goroutine does, and for which request or call
    resp,        \* its response
    advertised,  \* the partitions that clients have got in metadata responses
    calls,
    fatal,       \* why the program has ended
    wasReset, wasClosed  \* whether Reset and Close have been called

data == <<topics, offsets, ln, brokers>>
mutex == <<writer, readers>>
history == <<advertised, calls, wasReset, wasClosed>>
vars == <<data, events, mutex, pc, op, resp, fatal, history>>

Goroutines == Clients \cup Users
Partitions == 0..MaxPart

NoOp == [kind |-> None]
NoResp == [err |-> None]

\* After NewServer and MustSpawn, or when the test has also called AddMessages to
\* make all partitions and the clients know them.
Init ==
    /\ \/ topics = <<>> /\ advertised = {}
       \/ topics = [part \in Topics \X Partitions |-> <<>>] /\ advertised = Topics \X Partitions
    /\ offsets = <<>> /\ ln = 1 /\ brokers = <<1>>
    /\ events = 0 /\ writer = None /\ readers = {}
    /\ pc = [g \in Goroutines |-> "idle"] /\ op = [g \in Goroutines |-> NoOp]
    /\ resp = [g \in Goroutines |-> NoResp]
    /\ calls = 0 /\ fatal = None
    /\ wasReset = FALSE /\ wasClosed = FALSE

-----------------------------------------------------------------------------
(* Requests, calls and the mutex.                                          *)

\* What the clients of package kafka send: they address only partitions they know,
\* and Producer.Produce sends at least one message.
Requests ==
    [kind : {"Produce"}, part : advertised, n : Sizes \ {0}] \cup [kind : {"Fetch"}, part : advertised, offset : FetchOffsets]
    \cup [kind : {"Offset"}, part : advertised, time : Times]
    \cup [kind : {"Metadata"}, topics : SUBSET Topics]
    \cup [kind : {"OffsetCommit"}, key : Groups \X advertised, offset : FetchOffsets]
    \cup [kind : {"OffsetFetch"}, key : Groups \X advertised]
    \cup [kind : {"ConsumerMetadata", "APIVersions", "unknown"}]

Methods ==
    [kind : {"AddMessages"}, part : Topics \X Partitions, n : Sizes]
    \cup [kind : {"Reset", "Close", "ServeHTTP", "MustSpawn", "Run", "Addr"}]

Exclusive == {"Produce", "OffsetCommit", "AddMessages", "Reset", "Close", "ServeHTTP", "MustSpawn"}

\* ReadReq, the middlewares, which may answer in place of the handler, and the
\* switch over the kinds
Request(c) ==
    /\ pc[c] = "idle" /\ calls < MaxCalls
    /\ \E r \in Requests :
          /\ op' = [op EXCEPT ![c] = IF r.kind = "unknown" THEN NoOp ELSE r]
          /\ pc' = [pc EXCEPT ![c] = IF r.kind = "unknown" THEN "closed" ELSE "lock"]
    /\ calls' = calls + 1
    /\ UNCHANGED <<data, events, mutex, resp, fatal, advertised, wasReset, wasClosed>>

MiddlewareAnswers(c) ==
    /\ pc[c] = "lock" /\ resp[c] = NoResp
    /\ pc' = [pc EXCEPT ![c] = "idle"] /\ op' = [op EXCEPT ![c] = NoOp]
    /\ UNCHANGED <<data, events, mutex, resp, fatal, history>>

\* Nobody calls Run twice at a time.
Call(u) ==
    /\ pc[u] = "idle" /\ calls < MaxCalls
    /\ \E m \in Methods :
          /\ m.kind = "Run" => \A v \in Users : op[v].kind # "Run"
          /\ op' = [op EXCEPT ![u] = m]
    /\ pc' = [pc EXCEPT ![u] = "lock"]
    /\ calls' = calls + 1
    /\ UNCHANGED <<data, events, mutex, resp, fatal, advertised, wasReset, wasClosed>>

\* RWMutex.RLock waits for a writer that has or wants the mutex.
RLock(g) ==
    /\ pc[g] = "lock" /\ op[g].kind \notin Exclusive
    /\ writer = None
    /\ readers' = readers \cup {g}
    /\ pc' = [pc EXCEPT ![g] = "held"]
    /\ UNCHANGED <<data, events, writer, op, resp, fatal, history>>

\* RWMutex.Lock keeps readers out from now on ...
WantLock(g) ==
    /\ pc[g] = "lock" /\ op[g].kind \in Exclusive
    /\ writer = None
    /\ writer' = g
    /\ pc' = [pc EXCEPT ![g] = "drain"]
    /\ UNCHANGED <<data, events, readers, op, resp, fatal, history>>

\* ... and waits until the readers are gone.
Lock(g) ==
    /\ pc[g] = "drain" /\ readers = {}
    /\ pc' = [pc EXCEPT ![g] = "held"]
    /\ UNCHANGED <<data, events, mutex, op, resp, fatal, history>>

UnlockForgotten(g) == writer' = (IF writer = g THEN None ELSE writer) /\ UNCHANGED readers

\* The deferred Unlock or RUnlock.
Unlock(g) == writer' = (IF writer = g THEN None ELSE writer) /\ readers' = readers \ {g}

\* A handler or method ends with a response; the goroutine still has to write it.
Return(g, r) ==
    /\ Unlock(g)
    /\ resp' = [resp EXCEPT ![g] = r]
    /\ pc' = [pc EXCEPT ![g] = "reply"]

Holds(g, kind) == pc[g] = "held" /\ op[g].kind = kind

Ok == [err |-> "nil"]

-----------------------------------------------------------------------------
(* The handlers.                                                           *)

Exists(part) == part \in DOMAIN topics
Log(part) == IF Exists(part) THEN topics[part] ELSE <<>>

\* f with the value v at x
Put(f, x, v) == [y \in DOMAIN f \cup {x} |-> IF y = x THEN v ELSE f[y]]

MessagesSameOffset(g, part, n) == [i \in 1..n |-> [offset |-> Len(Log(part)), by |-> g]]

\* The messages that g appends get the offsets that follow.
Messages(g, part, n) == [i \in 1..n |-> [offset |-> Len(Log(part)) + i - 1, by |-> g]]

\* The partitions S, which may be new, and n messages of g at the end of part.
Appended(g, S, part, n) ==
    [q \in DOMAIN topics \cup S |-> IF q = part THEN Log(q) \o Messages(g, part, n) ELSE Log(q)]

ProduceOffsetAfter(part) == Len(Log(part))

\* int64(len(t[part.ID])) - 1
ProduceOffset(part) == Len(Log(part)) - 1

handleProduceRequest(g) ==
    /\ Holds(g, "Produce")
    /\ topics' = Appended(g, {op[g].part}, op[g].part, op[g].n)
    /\ pc' = [pc EXCEPT ![g] = "event"]
    /\ UNCHANGED <<offsets, ln, brokers, events, mutex, op, resp, fatal, history>>

\* s.events <- struct{}{}, with the mutex held
SendEvent(g) ==
    /\ pc[g] = "event" /\ events < EventsCap
    /\ events' = events + 1
    /\ Return(g, [err |-> "nil", offset |-> ProduceOffset(op[g].part)])
    /\ UNCHANGED <<data, op, fatal, history>>

fetchRequest(part, offset) ==
    IF ~Exists(part) THEN [err |-> "UnknownTopicOrPartition", msgs |-> <<>>]
    ELSE IF offset > Len(Log(part)) THEN [err |-> "OffsetOutOfRange", msgs |-> <<>>]
    ELSE [err |-> "nil", msgs |-> SubSeq(Log(part), offset + 1, Len(Log(part)))]

\* The first time fetchRequest finds nothing, handleFetchRequest waits.
handleFetchRequest(g) ==
    /\ Holds(g, "Fetch")
    /\ LET r == fetchRequest(op[g].part, op[g].offset)
       IN IF r.msgs = <<>> /\ resp[g] = NoResp
          THEN /\ Unlock(g)
               /\ resp' = [resp EXCEPT ![g] = r]
               /\ pc' = [pc EXCEPT ![g] = "wait"]
          ELSE Return(g, r)
    /\ UNCHANGED <<data, events, op, fatal, history>>

WakeByEvent(g) ==
    /\ pc[g] = "wait" /\ events > 0
    /\ events' = events - 1
    /\ pc' = [pc EXCEPT ![g] = "lock"]
    /\ UNCHANGED <<data, mutex, op, resp, fatal, history>>

\* time.After(time.Second)
WakeByTimeout(g) ==
    /\ pc[g] = "wait"
    /\ pc' = [pc EXCEPT ![g] = "lock"]
    /\ UNCHANGED <<data, events, mutex, op, resp, fatal, history>>

\* A time other than -1 and -2 is not supported: there is no response.
handleOffsetRequest(g) ==
    /\ Holds(g, "Offset")
    /\ Return(g, IF op[g].time = -1 THEN [err |-> "nil", offset |-> Len(Log(op[g].part))]
                 ELSE IF op[g].time = -2 THEN [err |-> "nil", offset |-> 0] ELSE NoResp)
    /\ UNCHANGED <<data, events, op, fatal, history>>

handleAPIVersionsRequest(g) ==
    /\ Holds(g, "APIVersions")
    /\ Return(g, Ok)
    /\ UNCHANGED <<data, events, op, fatal, history>>

handleOffsetCommitRequest(g) ==
    /\ Holds(g, "OffsetCommit")
    /\ offsets' = Put(offsets, op[g].key, op[g].offset)
    /\ Return(g, Ok)
    /\ UNCHANGED <<topics, ln, brokers, events, op, fatal, history>>

\* Another goroutine with the mutex uses what g is about to write.
Races(g, kinds) == \E h \in readers \ {g} : pc[h] = "held" /\ op[h].kind \in kinds

Dies(why) == fatal' = why /\ UNCHANGED <<data, events, mutex, pc, op, resp, history>>

\* getTopicOffset makes the entry that it does not find, under RLock.
handleOffsetFetchRequest(g) ==
    /\ Holds(g, "OffsetFetch")
    /\ LET key == op[g].key
           known == key \in DOMAIN offsets
       IN \/ /\ Return(g, [err |-> "nil", offset |-> IF known THEN offsets[key] ELSE 0])
             /\ offsets' = IF known THEN offsets ELSE Put(offsets, key, 0)
             /\ UNCHANGED <<topics, ln, brokers, events, op, fatal, history>>
          \/ ~known /\ Races(g, {"OffsetFetch"}) /\ Dies("race")

\* In every topic, the partitions in S have the numbers from 0 on.
Dense(S) == \A part \in S : \A p \in 0..part[2] : <<part[1], p>> \in S

\* Topics that are asked for by name and do not exist are made, under RLock.
\* p := &parts[pid] is out of range when a smaller partition does not exist.
handleMetadataRequest(g) ==
    /\ Holds(g, "Metadata")
    /\ LET missing == op[g].topics \ {part[1] : part \in DOMAIN topics}
           all == [q \in DOMAIN topics \cup (missing \X {0}) |-> Log(q)]
           parts == {q \in DOMAIN all : op[g].topics = {} \/ q[1] \in op[g].topics}
       IN \/ /\ Dense(parts)
             /\ topics' = all
             /\ Return(g, [err |-> "nil", brokers |-> brokers, parts |-> parts])
             /\ UNCHANGED <<offsets, ln, brokers, events, op, fatal, history>>
          \/ ~Dense(parts) /\ Dies("index")
          \/ missing # {} /\ Races(g, {"Metadata", "Fetch", "Offset"}) /\ Dies("race")

\* handleConsumerMetadataRequest calls Addr, which takes the mutex once more, and
\* splits the address at the colon.
handleConsumerMetadataRequest(g) ==
    /\ Holds(g, "ConsumerMetadata") /\ writer = None
    /\ IF ln = 0 THEN Dies("index")
       ELSE Return(g, Ok) /\ UNCHANGED <<data, events, op, fatal, history>>

-----------------------------------------------------------------------------
(* The methods.                                                            *)

AddOnlyTo(part) == {part}

\* AddMessages makes all partitions up to the given one.
AddTo(part) == {part[1]} \X (0..part[2])

AddMessages(u) ==
    /\ Holds(u, "AddMessages")
    /\ topics' = Appended(u, AddTo(op[u].part), op[u].part, op[u].n)
    /\ Return(u, Ok)
    /\ UNCHANGED <<offsets, ln, brokers, events, op, fatal, history>>

Reset(u) ==
    /\ Holds(u, "Reset")
    /\ topics' = <<>> /\ wasReset' = TRUE
    /\ Return(u, Ok)
    /\ UNCHANGED <<offsets, ln, brokers, events, op, fatal, advertised, calls, wasClosed>>

Close(u) ==
    /\ Holds(u, "Close")
    /\ ln' = 0 /\ wasClosed' = TRUE
    /\ Return(u, Ok)
    /\ UNCHANGED <<topics, offsets, brokers, events, op, fatal, advertised, calls, wasReset>>

Addr(u) ==
    /\ Holds(u, "Addr")
    /\ Return(u, Ok)
    /\ UNCHANGED <<data, events, op, fatal, history>>

\* ServeHTTP copies the topics and writes to the HTTP client, with the mutex held ...
ServeHTTP(u) ==
    /\ Holds(u, "ServeHTTP")
    /\ pc' = [pc EXCEPT ![u] = "encode"]
    /\ UNCHANGED <<data, events, mutex, op, resp, fatal, history>>

\* ... until that client, who may never do so, has read it or is gone.
Encoded(u) ==
    /\ pc[u] = "encode"
    /\ Return(u, Ok)
    /\ UNCHANGED <<data, events, op, fatal, history>>

Listen == ln' = Len(brokers) + 1 /\ brokers' = Append(brokers, Len(brokers) + 1)

MustSpawn(u) ==
    /\ Holds(u, "MustSpawn")
    /\ IF ln # 0 THEN UNCHANGED <<ln, brokers>> ELSE Listen
    /\ Return(u, Ok)
    /\ UNCHANGED <<topics, offsets, events, op, fatal, history>>

CannotRun == [err |-> "cannot run"]

\* Run returns when the server is running already, or net.Listen fails; otherwise
\* it serves for ever.
Run(u) ==
    /\ Holds(u, "Run")
    /\ \/ /\ ln # 0
          /\ Unlock(u)
          /\ pc' = [pc EXCEPT ![u] = "running"]
          /\ UNCHANGED <<ln, brokers, resp>>
       \/ /\ ln = 0
          /\ Return(u, CannotRun)
          /\ UNCHANGED <<ln, brokers>>
       \/ /\ ln = 0
          /\ Listen
          /\ Unlock(u)
          /\ pc' = [pc EXCEPT ![u] = "closed"]
          /\ UNCHANGED resp
    /\ UNCHANGED <<topics, offsets, events, op, fatal, history>>

\* The error names the address of s.ln, which Run reads once more, now without the
\* mutex.
AlreadyRunning(u) ==
    /\ pc[u] = "running"
    /\ IF ln = 0 THEN Dies("nil")
       ELSE /\ resp' = [resp EXCEPT ![u] = CannotRun]
            /\ pc' = [pc EXCEPT ![u] = "reply"]
            /\ UNCHANGED <<data, events, mutex, op, fatal, history>>

-----------------------------------------------------------------------------

\* conn.Write, or the end of the connection when there is no response or it is
\* broken; a method returns.
Reply(g) ==
    /\ pc[g] = "reply"
    /\ pc' = [pc EXCEPT ![g] = IF resp[g] = NoResp THEN "closed" ELSE "idle"]
    /\ op' = [op EXCEPT ![g] = NoOp] /\ resp' = [resp EXCEPT ![g] = NoResp]
    /\ advertised' = IF op[g].kind = "Metadata" THEN advertised \cup resp[g].parts ELSE advertised
    /\ UNCHANGED <<data, events, mutex, fatal, calls, wasReset, wasClosed>>

Hangup(c) ==
    /\ pc[c] \in {"idle", "reply"}
    /\ pc' = [pc EXCEPT ![c] = "closed"]
    /\ op' = [op EXCEPT ![c] = NoOp] /\ resp' = [resp EXCEPT ![c] = NoResp]
    /\ UNCHANGED <<data, events, mutex, fatal, history>>

Handler(g) ==
    \/ handleProduceRequest(g) \/ SendEvent(g) \/ handleFetchRequest(g) \/ handleOffsetRequest(g)
    \/ handleAPIVersionsRequest(g) \/ handleOffsetCommitRequest(g) \/ handleOffsetFetchRequest(g)
    \/ handleMetadataRequest(g) \/ handleConsumerMetadataRequest(g)

Method(u) ==
    \/ AddMessages(u) \/ Reset(u) \/ Close(u) \/ Addr(u) \/ ServeHTTP(u) \/ MustSpawn(u)
    \/ Run(u) \/ AlreadyRunning(u)

Step(g) ==
    RLock(g) \/ WantLock(g) \/ Lock(g) \/ Handler(g) \/ Method(g) \/ WakeByTimeout(g) \/ Reply(g)

Next ==
    /\ fatal = None
    /\ \/ \E c \in Clients : Request(c) \/ MiddlewareAnswers(c) \/ Hangup(c)
       \/ \E u \in Users : Call(u) \/ Encoded(u)
       \/ \E g \in Goroutines : Step(g) \/ WakeByEvent(g)

Spec == Init /\ [][Next]_vars

-----------------------------------------------------------------------------
(* Properties.                                                             *)

\* g has the mutex for reading.
Reads(g) == pc[g] = "held" /\ op[g].kind \notin Exclusive

\* g has the mutex for writing, or is the next one to.
Writes(g) == pc[g] \in {"drain", "event", "encode"} \/ (pc[g] = "held" /\ op[g].kind \in Exclusive)

\* Types; a goroutine has the mutex from RLock or Lock to the end of the handler or
\* method, and not while it waits for a request, an event or the connection.
TypeOK ==
    /\ events \in 0..EventsCap /\ ln \in 0..Len(brokers)
    /\ advertised \subseteq Topics \X Partitions
    /\ fatal \in {None, "race", "index", "nil"}
    /\ \A g \in Goroutines :
          /\ g \in readers <=> Reads(g)
          /\ g = writer <=> Writes(g)

\* Whoever appends, Produce requests or AddMessages, the messages of a partition
\* have the offsets 0, 1, 2, ...
OffsetsAreIndices ==
    \A part \in DOMAIN topics :
        \A i \in 1..Len(topics[part]) : topics[part][i].offset = i - 1

Message == [offset : Nat, by : Goroutines]

\* The last n messages of g in the log are the ones that end at offset.
WroteLast(g, log, offset, n) ==
    /\ offset \in (n - 1)..(Len(log) - 1)
    /\ \A i \in (offset - n + 2)..(offset + 1) : log[i].by = g
    /\ \A i \in (offset + 2)..Len(log) : log[i].by # g

\* The messages of the log from offset on are msgs, possibly followed by others.
ReadFrom(msgs, log, offset) ==
    /\ msgs \in Seq(Message) /\ offset + Len(msgs) <= Len(log)
    /\ \A i \in 1..Len(msgs) : msgs[i] = log[offset + i]

\* A response that is yet to be written is still true, unless there was a Reset:
\* a fetch response holds the messages from its offset on, as they are in the
\* partition, and a produce response holds the offset of the last one of the
\* messages of its request, which are next to each other whoever else appends.
\* (Producer has it for the offset of the first one, see OffsetOfFirst.)
ResponsesTrue ==
    ~wasReset => \A c \in Clients : pc[c] = "reply" /\ resp[c].err = "nil" =>
        /\ op[c].kind = "Fetch" => ReadFrom(resp[c].msgs, Log(op[c].part), op[c].offset)
        /\ op[c].kind = "Produce" => WroteLast(c, Log(op[c].part), resp[c].offset, op[c].n)

\* handleMetadataRequest and handleConsumerMetadataRequest index slices unchecked,
\* and Run uses s.ln after it released the mutex.  As long as clients address
\* partitions they know, that fails only after a Reset, which forgets them, or a
\* Close, after which there is no address and no listener.
PanicsAfterResetOrClose ==
    /\ fatal = "index" => wasReset \/ wasClosed
    /\ fatal = "nil" => wasClosed

\* What is where in the server, and what a request or call refers to.
DataTypes ==
    /\ DOMAIN topics \subseteq Topics \X Partitions
    /\ \A part \in DOMAIN topics : topics[part] \in Seq(Message)
    /\ advertised \subseteq Topics \X Partitions
    /\ brokers \in Seq(Nat)
    /\ DOMAIN pc = Goroutines /\ DOMAIN op = Goroutines /\ DOMAIN resp = Goroutines

OpTypes(g) ==
    /\ pc[g] = "drain" => op[g].kind \in Exclusive
    /\ pc[g] = "event" => op[g].kind = "Produce"
    /\ pc[g] = "encode" => op[g].kind = "ServeHTTP"
    /\ pc[g] = "running" => op[g].kind = "Run"
    /\ op[g].kind \in {"Produce", "Fetch"} => op[g].part \in advertised
    /\ op[g].kind = "Produce" => op[g].n \in Nat \ {0}
    /\ op[g].kind = "Fetch" => op[g].offset \in Nat
    /\ op[g].kind = "AddMessages" => op[g].part \in Topics \X Partitions /\ op[g].n \in Nat
    /\ op[g].kind = "Metadata" => op[g].topics \subseteq Topics

\* What g has got, or has to tell, is true.
ResponseTrue(g) ==
    LET log == Log(op[g].part)
    IN /\ pc[g] = "event" => WroteLast(g, log, ProduceOffset(op[g].part), op[g].n)
       /\ pc[g] = "reply" /\ op[g].kind = "Metadata" => resp[g].parts \subseteq Topics \X Partitions
       /\ pc[g] = "reply" /\ ~wasReset =>
             /\ op[g].kind = "Metadata" => resp[g].parts \subseteq DOMAIN topics
             /\ op[g].kind = "Produce" => WroteLast(g, log, resp[g].offset, op[g].n)
             /\ op[g].kind = "Fetch" /\ resp[g].err = "nil" => ReadFrom(resp[g].msgs, log, op[g].offset)

\* The inductive invariant.
Inv ==
    /\ TypeOK /\ DataTypes /\ OffsetsAreIndices
    /\ ~wasReset => Dense(DOMAIN topics) /\ advertised \subseteq DOMAIN topics
    /\ ln = 0 => wasClosed
    /\ PanicsAfterResetOrClose
    /\ \A g \in Goroutines : OpTypes(g) /\ ResponseTrue(g)

\* g has or wants the mutex and waits for something else: for room in the full
\* channel, for an HTTP client that does not read, or, in Addr, for a writer that
\* waits for g.
Stalled(g) ==
    \/ pc[g] = "event" /\ events = EventsCap
    \/ pc[g] = "encode"
    \/ Holds(g, "ConsumerMetadata") /\ writer # None

CanGoOn(g) == ENABLED Step(g) \/ Stalled(g)

\* Who is to answer a request, or to return from a method, goes on, or waits for the
\* mutex while somebody else has it who goes on; or it is for one of three reasons
\* that they wait, and these may last for ever: the channel events is full, the HTTP
\* client of ServeHTTP does not read, or handleConsumerMetadataRequest locks the
\* mutex twice around a writer.  No handler or method leaves the mutex locked, and
\* no two wait for each other in another way.
EveryoneServed ==
    fatal = None => \A g \in Goroutines :
        \/ pc[g] \in {"idle", "closed"} \/ CanGoOn(g)
        \/ /\ pc[g] \in {"lock", "drain"}
           /\ \E h \in (readers \cup {writer}) \ {g, None} : CanGoOn(h)

\* "It returns the offset of the first message" (Producer, whose Produce returns
\* the offset in the response and numbers the messages from it on).
OffsetOfFirst ==
    ~wasReset => \A c \in Clients : pc[c] = "reply" /\ op[c].kind = "Produce" =>
        \A i \in 1..op[c].n :
            LET offset == resp[c].offset + i - 1
            IN offset < Len(Log(op[c].part)) /\ Log(op[c].part)[offset + 1].by = c
=============================================================================

----------------------------- MODULE Connection -----------------------------
(***************************************************************************)
(* One client connection to a Kafka node (src/v2/connection.go).  Any      *)
(* number of goroutines send requests over it at the same time; a loop     *)
(* hands out correlation IDs, another reads the responses and passes each  *)
(* one to the goroutine that waits for its ID, and Close may be called by  *)
(* anybody at any moment.                                                  *)
(*                                                                         *)
(* A goroutine that is about to select is not told apart from one that is  *)
(* parked in it: a delay of the scheduler explains either.  What happens   *)
(* under connection.mu is one step.                                        *)
(*                                                                         *)
(* An operator that nothing uses and that stands right before another one  *)
(* (XForgotten before X) is the other one with a slip in it.  It takes the *)
(* place of the other one to see that a property notices.                  *)
(***************************************************************************)
EXTENDS Integers, Sequences, FiniteSets

CONSTANTS
    Callers,      \* goroutines that send requests over the connection
    Closers,      \* goroutines that call Close
    MaxID,        \* math.MaxInt32, where the correlation IDs wrap around
    SockCap,      \* requests, or responses, the socket holds before a write blocks
    Kinds,        \* the kinds of requests each one sends: TRUE wants a response
    Answered,     \* the server answers a request r when r.ack \in Answered
    ReadTimeout,  \* readTimeout > 0
    None          \* Go's nil

ID == 1 .. (MaxID - 1)

\* A request on the wire, and the response that answers it: the correlation
\* ID, the goroutine that sent it and whether that goroutine waits for it.
Request == [id : ID, from : Callers, ack : BOOLEAN]

ASSUME ConnectionAssumption ==
    /\ Callers # {} /\ None \notin Callers
    /\ MaxID \in Nat /\ MaxID > 1
    /\ SockCap \in Nat
    /\ Kinds \in [Callers -> SUBSET BOOLEAN]
    /\ Answered \subseteq BOOLEAN
    /\ ReadTimeout \in BOOLEAN
    /\ None \notin ID
    /\ None \notin {"ErrClosed", "ErrIO", "ErrWrite", "ErrWrapped", "ErrConflict", "unset"}

\* nil is not a response.
ASSUME NilAssumption == None \notin Request

\* The error a call returns.  None is a nil error and "unset" says that the
\* call has not returned.  "ErrWrapped" and "ErrConflict" are the two errors
\* that sendRequest wraps in "wait for response: %s".
Error == {None, "ErrClosed", "ErrIO", "ErrWrite", "ErrWrapped", "ErrConflict", "unset"}

VARIABLES
    nextID,       \* the ID nextIDLoop offers, or None once it closed nextID
    respc,        \* connection.respc: the goroutine registered for an ID
    chan,         \* the response channel of a goroutine's current call
    stopErr,      \* connection.stopErr
    stop,         \* the channel connection.stop
    rw,           \* connection.rw: up, gone (the peer left) or closed by Close
    closing,      \* the closers between mu.Unlock and rw.Close
    rd,           \* where readRespLoop is
    rc,           \* the goroutine whose channel readRespLoop holds
    msg,          \* the response readRespLoop holds
    pc,           \* where each goroutine is in sendRequest
    ack,          \* whether its request wants a response
    cid,          \* the correlation ID of its request
    began,        \* the connection when its call began: open or stopped
    res,          \* what its last call returned: a response and an error
    inbox,        \* requests in the socket or at the server
    net           \* responses on their way back

callVars == <<pc, ack, cid, began, res>>
readVars == <<rd, rc, msg>>
stopVars == <<stopErr, stop>>
sockVars == <<rw, inbox, net>>
vars == <<nextID, respc, chan, stopErr, stop, rw, closing, rd, rc, msg,
          pc, ack, cid, began, res, inbox, net>>

Result == [resp : Request \cup {None}, err : Error]
Unset == [resp |-> None, err |-> "unset"]

Init ==
    /\ nextID = 1
    /\ respc = [i \in ID |-> None]
    /\ chan = [p \in Callers |-> "none"]
    /\ stopErr = None /\ stop = "open"
    /\ rw = "up" /\ closing = {}
    /\ rd = "reading" /\ rc = None /\ msg = None
    /\ pc = [p \in Callers |-> "idle"]
    /\ ack = [p \in Callers |-> TRUE]
    /\ cid = [p \in Callers |-> None]
    /\ began = [p \in Callers |-> "open"]
    /\ res = [p \in Callers |-> Unset]
    /\ inbox = {} /\ net = <<>>

-----------------------------------------------------------------------------
(* Steps that several operations share.                                    *)

\* p returns from its call.
Return(p, resp, err) ==
    /\ pc' = [pc EXCEPT ![p] = "idle"]
    /\ res' = [res EXCEPT ![p] = [resp |-> resp, err |-> err]]
    /\ UNCHANGED <<ack, cid, began>>

\* close(c).  Closing a nil or a closed channel panics.
Closed(c) == IF c = "open" THEN "closed" ELSE "panic"

SetStopAgain(err) == stopErr' = err /\ stop' = Closed(stop)

\* if c.stopErr == nil { c.stopErr = err; close(c.stop) }
SetStop(err) ==
    IF stopErr = None THEN stopErr' = err /\ stop' = Closed(stop)
                      ELSE UNCHANGED <<stopErr, stop>>

\* close(ch) for the channels of the goroutines in S.
CloseChans(S) ==
    chan' = [p \in Callers |-> IF p \in S THEN Closed(chan[p]) ELSE chan[p]]

UnregisterForgotten(i) == UNCHANGED respc

\* delete(c.respc, i)
Unregister(i) == respc' = [respc EXCEPT ![i] = None]

Stopped == stop # "open"

-----------------------------------------------------------------------------
(* The request goroutines.                                                 *)

\* A goroutine calls sendRequest, or, for a request that wants no response,
\* sendRequestWithoutAcks, and arrives at <-c.nextID.
Call(p, a) ==
    /\ pc[p] = "idle"
    /\ pc' = [pc EXCEPT ![p] = "id"]
    /\ ack' = [ack EXCEPT ![p] = a]
    /\ cid' = [cid EXCEPT ![p] = None]
    /\ began' = [began EXCEPT ![p] = IF Stopped THEN "stopped" ELSE "open"]
    /\ res' = [res EXCEPT ![p] = Unset]
    /\ chan' = [chan EXCEPT ![p] = "none"]
    /\ UNCHANGED <<nextID, respc, stopVars, sockVars, closing, readVars>>

NextIDNoWrap(i) == i + 1

\* The ID after i.
NextID(i) == IF i + 1 = MaxID THEN 1 ELSE i + 1

\* nextIDLoop hands its ID to p.  It may do so after stop was closed: select
\* takes either of two ready cases.
HandID(p) ==
    /\ pc[p] = "id" /\ nextID # None
    /\ cid' = [cid EXCEPT ![p] = nextID]
    /\ nextID' = NextID(nextID)
    /\ pc' = [pc EXCEPT ![p] = IF ack[p] THEN "register" ELSE "write"]
    /\ UNCHANGED <<respc, chan, stopVars, sockVars, closing, readVars, ack, began, res>>

\* p finds nextID closed and returns stopErr.
NoMoreIDs(p) ==
    /\ pc[p] = "id" /\ nextID = None
    /\ Return(p, None, stopErr)
    /\ UNCHANGED <<nextID, respc, chan, stopVars, sockVars, closing, readVars>>

CanRegisterStopped(p) == respc[cid[p]] = None
CanRegisterTaken(p) == stopErr = None

\* respWaiter accepts: the connection runs and the ID is not in use.
CanRegister(p) == stopErr = None /\ respc[cid[p]] = None

\* respWaiter refuses, and sendRequest wraps its error.
RespWaiterFails(p) ==
    /\ pc[p] = "register" /\ ~CanRegister(p)
    /\ Return(p, None, IF stopErr # None THEN "ErrWrapped" ELSE "ErrConflict")
    /\ UNCHANGED <<nextID, respc, chan, stopVars, sockVars, closing, readVars>>

\* respWaiter registers a new channel under p's ID.
RespWaiter(p) ==
    /\ pc[p] = "register" /\ CanRegister(p)
    /\ respc' = [respc EXCEPT ![cid[p]] = p]
    /\ chan' = [chan EXCEPT ![p] = "open"]
    /\ pc' = [pc EXCEPT ![p] = "write"]
    /\ UNCHANGED <<nextID, stopVars, sockVars, closing, readVars, ack, cid, began, res>>

\* p is done with a successful write.
Written(p) ==
    IF ack[p] THEN /\ pc' = [pc EXCEPT ![p] = "wait"]
                   /\ UNCHANGED <<ack, cid, began, res>>
              ELSE Return(p, None, None)

\* req.WriteTo(c.rw) succeeds.  It blocks while the socket is full, and what
\* is written to a transport the peer already left is lost.
WriteTo(p) ==
    /\ pc[p] = "write"
    /\ \/ rw = "gone" /\ UNCHANGED inbox
       \/ /\ rw = "up"
          /\ Cardinality(inbox) < SockCap
          /\ inbox' = inbox \cup {[id |-> cid[p], from |-> p, ack |-> ack[p]]}
    /\ Written(p)
    /\ UNCHANGED <<nextID, respc, chan, stopVars, closing, readVars, rw, net>>

\* req.WriteTo(c.rw) fails.
WriteToFails(p) ==
    /\ pc[p] = "write" /\ rw # "up"
    /\ IF ack[p] THEN /\ pc' = [pc EXCEPT ![p] = "release"]
                      /\ UNCHANGED <<ack, cid, began, res>>
                 ELSE Return(p, None, "ErrWrite")
    /\ UNCHANGED <<nextID, respc, chan, stopVars, sockVars, closing, readVars>>

\* After a failed write p calls releaseWaiter and returns the write error.
\* A channel that readRespLoop took out of respc before stays with it, and
\* nobody will ever receive from it.
ReleaseWaiter(p) ==
    /\ pc[p] = "release"
    /\ IF respc[cid[p]] # None
       THEN /\ CloseChans({respc[cid[p]]})
            /\ Unregister(cid[p])
       ELSE UNCHANGED <<respc, chan>>
    /\ rc' = IF rc = p THEN None ELSE rc
    /\ Return(p, None, "ErrWrite")
    /\ UNCHANGED <<nextID, stopErr, stop, sockVars, closing, rd, msg>>

\* p receives from a closed channel and returns stopErr, read without mu.
RecvClosed(p) ==
    /\ pc[p] = "wait" /\ chan[p] = "closed"
    /\ Return(p, None, stopErr)
    /\ UNCHANGED <<nextID, respc, chan, stopVars, sockVars, closing, readVars>>

-----------------------------------------------------------------------------
(* nextIDLoop, readRespLoop and Close.                                     *)

\* nextIDLoop sees stop closed, closes nextID and returns.
NextIDLoopStops ==
    /\ Stopped /\ nextID # None
    /\ nextID' = None
    /\ UNCHANGED <<respc, chan, stopVars, sockVars, closing, readVars, callVars>>

\* readRespLoop reads a response and takes the channel of its ID out of
\* respc; a response to an unknown request is dropped.  After rw.Close it may
\* still find responses in its bufio.Reader.
ReadResp ==
    /\ rd = "reading" /\ net # <<>>
    /\ net' = Tail(net)
    /\ LET m == Head(net) IN
         IF respc[m.id] # None
         THEN /\ Unregister(m.id)
              /\ rc' = respc[m.id] /\ msg' = m /\ rd' = "delivering"
         ELSE UNCHANGED <<respc, readVars>>
    /\ UNCHANGED <<nextID, chan, stopVars, rw, inbox, closing, callVars>>

\* ReadResp fails: the socket was closed here, the peer left, or the read
\* deadline passed, which makes a read fail also when data is there.
ReadRespFails ==
    /\ rd = "reading"
    /\ rw # "up" \/ ReadTimeout
    /\ SetStop("ErrIO")
    /\ rd' = "draining"
    /\ UNCHANGED <<nextID, respc, chan, sockVars, closing, rc, msg, callVars>>

\* rc <- b; close(rc).
Deliver ==
    /\ rd = "delivering" /\ rc # None
    /\ pc[rc] = "wait"
    /\ Return(rc, msg, None)
    /\ CloseChans({rc})
    /\ rd' = "reading" /\ rc' = None /\ msg' = None
    /\ UNCHANGED <<nextID, respc, stopVars, sockVars, closing>>

AbandonedForgotten == {}

\* The channel readRespLoop closes after it gave up its response.
Abandoned == {rc} \ {None}

\* The select of readRespLoop takes <-c.stop: the response is dropped and its
\* channel closed.
DeliverStops ==
    /\ rd = "delivering" /\ Stopped
    /\ stopErr' = IF stopErr = None THEN "ErrClosed" ELSE stopErr
    /\ CloseChans(Abandoned)
    /\ rd' = "reading" /\ rc' = None /\ msg' = None
    /\ UNCHANGED <<nextID, respc, stop, sockVars, closing, callVars>>

LeftoversForgotten == {}

\* The channels still registered.
Leftovers == {respc[i] : i \in ID} \ {None}

\* The deferred function of readRespLoop closes the channels still registered.
Drain ==
    /\ rd = "draining"
    /\ CloseChans(Leftovers)
    /\ respc' = [i \in ID |-> None]
    /\ rd' = "done"
    /\ UNCHANGED <<nextID, stopErr, stop, sockVars, closing, rc, msg, callVars>>

\* Close, up to mu.Unlock.
Close(q) ==
    /\ q \notin closing
    /\ SetStop("ErrClosed")
    /\ closing' = closing \cup {q}
    /\ UNCHANGED <<nextID, respc, chan, sockVars, readVars, callVars>>

\* Close, from mu.Unlock on: c.rw.Close().
CloseTransport(q) ==
    /\ q \in closing
    /\ rw' = "closed"
    /\ closing' = closing \ {q}
    /\ UNCHANGED <<nextID, respc, chan, stopVars, inbox, net, readVars, callVars>>

-----------------------------------------------------------------------------
(* The peer and the network.                                               *)

\* The server takes a request, in any order, and answers it when it answers
\* requests of that kind.  A Kafka node answers those that want a response;
\* the mock of kafkatest answers all of them.
Answer(r) ==
    /\ r \in inbox /\ rw = "up"
    /\ inbox' = inbox \ {r}
    /\ IF r.ack \in Answered THEN Len(net) < SockCap /\ net' = Append(net, r)
                              ELSE UNCHANGED net
    /\ UNCHANGED <<nextID, respc, chan, stopVars, rw, closing, readVars, callVars>>

\* The peer closes or resets the transport.
PeerLeaves ==
    /\ rw = "up"
    /\ rw' = "gone"
    /\ UNCHANGED <<nextID, respc, chan, stopVars, inbox, net, closing, readVars, callVars>>

-----------------------------------------------------------------------------
Caller(p) ==
    \/ HandID(p) \/ NoMoreIDs(p)
    \/ RespWaiterFails(p) \/ RespWaiter(p)
    \/ WriteTo(p) \/ WriteToFails(p) \/ ReleaseWaiter(p)
    \/ RecvClosed(p)

Reader == ReadResp \/ ReadRespFails \/ Deliver \/ DeliverStops \/ Drain

Next ==
    \/ \E p \in Callers : Caller(p) \/ \E a \in Kinds[p] : Call(p, a)
    \/ NextIDLoopStops
    \/ Reader
    \/ \E q \in Closers : Close(q) \/ CloseTransport(q)
    \/ \E r \in inbox : Answer(r)
    \/ PeerLeaves

Spec == Init /\ [][Next]_vars

\* The goroutines of the client run: a started call and readRespLoop go on.
\* Writes to a net.Conn wait for each other in a queue, so a write gets its turn if
\* the socket has room again and again.  Nobody has to call, to close or to leave.
ClientFairness ==
    /\ \A p \in Callers : SF_vars(Caller(p))
    /\ WF_vars(Reader)

\* The server goes through the requests that each goroutine sent.
ServerFairness == \A p \in Callers : WF_vars(\E r \in inbox : r.from = p /\ Answer(r))

LiveSpec == Spec /\ ClientFairness

-----------------------------------------------------------------------------
(* Properties.                                                             *)

\* The variables range over the values the code can give them.
TypeOK ==
    /\ nextID \in ID \cup {None}
    /\ respc \in [ID -> Callers \cup {None}]
    /\ chan \in [Callers -> {"none", "open", "closed", "panic"}]
    /\ stopErr \in {None, "ErrClosed", "ErrIO"}
    /\ stop \in {"open", "closed", "panic"}
    /\ rw \in {"up", "gone", "closed"}
    /\ closing \subseteq Closers
    /\ rd \in {"reading", "delivering", "draining", "done"}
    /\ rc \in Callers \cup {None}
    /\ msg \in Request \cup {None}
    /\ pc \in [Callers -> {"idle", "id", "register", "write", "wait", "release"}]
    /\ ack \in [Callers -> BOOLEAN]
    /\ cid \in [Callers -> ID \cup {None}]
    /\ \A p \in Callers : pc[p] \in {"register", "write", "wait", "release"} => cid[p] \in ID
    /\ began \in [Callers -> {"open", "stopped"}]
    /\ res \in [Callers -> Result]
    /\ inbox \subseteq Request
    /\ net \in Seq(Request)

\* A call of sendRequest that returns a nil error returns the response to its
\* own request: never a nil response next to a nil error, never the response
\* to somebody else's request, also after the IDs wrapped around.
OwnResponse ==
    \A p \in Callers :
        pc[p] = "idle" /\ ack[p] /\ res[p].err = None
            => res[p].resp = [id |-> cid[p], from |-> p, ack |-> TRUE]

\* No channel is closed twice, whatever the order in which readRespLoop,
\* releaseWaiter, the drain and Close get hold of it.
NoDoubleClose == stop # "panic" /\ \A p \in Callers : chan[p] # "panic"

\* Once readRespLoop has returned nobody waits on a channel that would never
\* be closed, and no channel is left in respc.
NoOrphanWaiter ==
    rd = "done" =>
        /\ \A i \in ID : respc[i] = None
        /\ \A p \in Callers : pc[p] = "wait" => chan[p] = "closed"

\* A call made on a connection that Close has stopped returns ErrClosed, as the
\* comments of the request methods of connection.go say.
ClosedReturnsErrClosed ==
    \A p \in Callers :
        pc[p] = "idle" /\ began[p] = "stopped" /\ stopErr = "ErrClosed"
            => res[p].err = "ErrClosed"

\* stopErr keeps the first error that stopped the connection, and what is
\* stopped stays stopped.
StopIsFinal == [][/\ stopErr # None => stopErr' = stopErr
                  /\ stop # "open" => stop' = stop
                  /\ nextID = None => nextID' = None]_vars

\* The write of p blocks, since both directions of the socket are full and at the
\* other end no request can be taken without an answer.  readRespLoop has ended at
\* its read deadline, so nobody makes room, and nobody has closed the transport.
Stuck(p) ==
    /\ pc[p] = "write" /\ rw = "up" /\ rd = "done"
    /\ Cardinality(inbox) >= SockCap /\ Len(net) >= SockCap
    /\ \A r \in inbox : r.ack \in Answered

\* If the server gets to every request it can answer, every call returns, also one
\* whose write has to wait for the server to read.  After Close has closed the
\* transport there is nothing the server could answer: then every call returns
\* whatever the server does, also one whose write was blocked.  There is one way not
\* to return: a read timeout stops the connection without closing the transport
\* (readRespLoop), writes have no deadline, and sendRequestWithoutAcks does not look
\* at stopErr, so that a call that still gets an ID may be stuck in its write for
\* ever, until somebody calls Close or the peer leaves.
EveryCallReturns ==
    ServerFairness => \A p \in Callers : (pc[p] # "idle") ~> (pc[p] = "idle" \/ []Stuck(p))

\* With a read timeout, a server that falls silent keeps nobody waiting for a
\* response: those who wait are released, and nobody begins to wait afterwards.
SilenceReleases ==
    <>[](net = <<>>) => <>[](\A p \in Callers : pc[p] # "wait")

\* How p's last call ended, and the state of the link, in RequestReply's terms.
Outcome(p) ==
    IF res[p].err = "unset" THEN "unset"
    ELSE IF res[p].err # None THEN "error"
    ELSE IF ~ack[p] THEN "sent"
    ELSE IF res[p].resp # None THEN "reply" ELSE "nothing"

Link == IF Stopped THEN "stopped" ELSE IF rw = "gone" THEN "failing" ELSE "up"

RR == INSTANCE RequestReply WITH
        link <- Link,
        pending <- {p \in Callers : pc[p] # "idle"},
        acked <- ack,
        doomed <- [p \in Callers |-> began[p] # "open"],
        outcome <- [p \in Callers |-> Outcome(p)]

\* The connection keeps the promise that RequestReply states: every call ends
\* once, with a reply if it wants one and an error only when the link is not up
\* or another call is under way, and a call that began after the stop gets no
\* reply.
KeepsPromise == RR!Spec

-----------------------------------------------------------------------------
(* The inductive invariant.  Waiters and StopInv hold for any server;      *)
(* InFlight only for one that answers no request that wants no response.   *)

\* The goroutines that registered a channel and have not returned.
Registered == {p \in Callers : ack[p] /\ pc[p] \in {"write", "wait", "release"}}

StopInv ==
    /\ Stopped <=> stopErr # None
    /\ rw = "closed" \/ closing # {} \/ nextID = None \/ rd \in {"draining", "done"} => Stopped
    /\ \A p \in Callers :
        /\ began[p] # "open" => Stopped
        /\ pc[p] = "release" => Stopped \/ rw = "gone"
        /\ p \in Registered => began[p] = "open"

\* Only sendRequest registers, waits and releases.
AckedPhases ==
    \A p \in Callers : pc[p] \in {"register", "wait", "release"} => ack[p]

\* A channel in respc is open and belongs to the call with that ID.
RespcOpen ==
    \A i \in ID : respc[i] # None =>
        respc[i] \in Registered /\ cid[respc[i]] = i /\ chan[respc[i]] = "open"

\* The channel that readRespLoop took out of respc is open and in no other
\* place.
HeldOpen ==
    rc # None => /\ rd = "delivering"
                 /\ rc \in Registered /\ chan[rc] = "open"
                 /\ respc[cid[rc]] # rc

\* Somebody will close the channel of a registered goroutine, or has.
HasHolder ==
    \A p \in Callers : p \in Registered =>
        respc[cid[p]] = p \/ rc = p \/ chan[p] = "closed"

Drained == rd = "done" => \A i \in ID : respc[i] = None

Waiters == AckedPhases /\ RespcOpen /\ HeldOpen /\ HasHolder /\ Drained

\* While the connection runs, the ID of a request under way is registered,
\* for the goroutine that sent the request and waits.
InFlightOK(r) ==
    /\ respc[r.id] # None => respc[r.id] = r.from /\ pc[r.from] = "wait"
    /\ ~Stopped => respc[r.id] # None

InboxOK == \A r \in inbox : r.ack => InFlightOK(r)

NetOK == \A k \in DOMAIN net : net[k].ack /\ InFlightOK(net[k])

\* Nothing else under way has the ID of a response that will be delivered.
NoTwins ==
    \A k \in DOMAIN net :
        /\ \A r \in inbox : r.ack /\ r.id = net[k].id => respc[r.id] = None
        /\ \A j \in DOMAIN net : j # k /\ net[j].id = net[k].id => respc[net[k].id] = None

\* readRespLoop holds the response of the goroutine whose channel it holds.
HeldOK ==
    rd = "delivering" =>
        /\ rc # None /\ pc[rc] = "wait"
        /\ msg = [id |-> cid[rc], from |-> rc, ack |-> TRUE]

\* A channel is closed early, and an ID given up early, only when stopping.
WaitOK ==
    \A p \in Registered :
        /\ chan[p] = "open" \/ Stopped
        /\ pc[p] # "wait" => respc[cid[p]] = p \/ (Stopped /\ respc[cid[p]] = None)

InFlight == InboxOK /\ NetOK /\ NoTwins /\ HeldOK /\ WaitOK

Inv == TypeOK /\ StopInv /\ Waiters /\ NoDoubleClose

OwnInv == Inv /\ InFlight /\ OwnResponse
=============================================================================

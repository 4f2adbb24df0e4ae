-------------------------- MODULE ConnectionProofs --------------------------
(***************************************************************************)
(* The safety of Connection with any server, for any number of goroutines, *)
(* any wrap-around of the correlation IDs and any socket: the variables    *)
(* keep their types, no channel is closed twice, no waiter is left behind, *)
(* and what is stopped stays stopped.                                      *)
(***************************************************************************)
EXTENDS Connection, TLAPS

\* What most proofs use of the assumptions: nil is no goroutine, ID or error.
LEMMA Nil ==
    /\ Kinds \in [Callers -> SUBSET BOOLEAN]
    /\ None \notin Callers /\ None \notin ID
    /\ None # "ErrClosed" /\ None # "ErrIO" /\ None # "ErrWrite"
    /\ None # "ErrWrapped" /\ None # "ErrConflict" /\ None # "unset"
BY ConnectionAssumption

\* The first ID is an ID, and so is the one after an ID.
LEMMA IDs == 1 \in ID /\ \A i \in ID : NextID(i) \in ID
BY ConnectionAssumption DEF ID, NextID

USE Nil DEF CanRegister, Unregister, Abandoned, Leftovers

-----------------------------------------------------------------------------
(* Types.                                                                  *)

\* The constructors leave every variable in its type.
LEMMA InitType == Init => TypeOK
<1>1. Unset \in Result  BY DEF Unset, Result, Error
<1> QED BY <1>1, IDs DEF Init, TypeOK

\* What a goroutine returns is a result.
ReturnTyped ==
    /\ pc' \in [Callers -> {"idle", "id", "register", "write", "wait", "release"}]
    /\ res' \in [Callers -> Result]
    /\ ack' = ack /\ cid' = cid /\ began' = began
    /\ \A p \in Callers :
        pc'[p] \in {"register", "write", "wait", "release"} => cid'[p] \in ID

\* What a goroutine returns from sendRequest is a result.
LEMMA ReturnType ==
    ASSUME TypeOK, NEW p \in Callers,
           NEW resp \in Request \cup {None}, NEW err \in Error,
           Return(p, resp, err)
    PROVE  ReturnTyped
<1>1. [resp |-> resp, err |-> err] \in Result  BY DEF Result
<1> QED BY <1>1 DEF TypeOK, Return, ReturnTyped

\* A request is a request, and no response is nil.
LEMMA RequestType ==
    ASSUME NEW i \in ID, NEW p \in Callers, NEW a \in BOOLEAN
    PROVE  [id |-> i, from |-> p, ack |-> a] \in Request
BY DEF Request

\* The steps of a goroutine inside sendRequest keep the types.
LEMMA CallerType ==
    ASSUME TypeOK, NEW p \in Callers, Caller(p)
    PROVE  TypeOK'
<1> USE DEF callVars, readVars, stopVars, sockVars
<1>0. None \in Error /\ stopErr \in Error /\ "ErrWrite" \in Error
      /\ "ErrWrapped" \in Error /\ "ErrConflict" \in Error
  BY DEF TypeOK, Error
<1>1. CASE HandID(p)      BY <1>1, IDs DEF HandID, TypeOK
<1>2. CASE NoMoreIDs(p)
  <2>1. ReturnTyped  BY <1>0, <1>2, ReturnType DEF NoMoreIDs
  <2> QED BY <1>2, <2>1 DEF NoMoreIDs, ReturnTyped, TypeOK
<1>3. CASE RespWaiterFails(p)
  <2>1. ReturnTyped  BY <1>0, <1>3, ReturnType DEF RespWaiterFails
  <2> QED BY <1>3, <2>1 DEF RespWaiterFails, ReturnTyped, TypeOK
<1>4. CASE RespWaiter(p)  BY <1>4 DEF RespWaiter, TypeOK
<1>5. CASE WriteTo(p)
  <2>1. inbox' \subseteq Request
    <3>1. CASE inbox' = inbox  BY <3>1 DEF TypeOK
    <3>2. CASE inbox' = inbox \cup {[id |-> cid[p], from |-> p, ack |-> ack[p]]}
      <4>1. cid[p] \in ID  BY <1>5 DEF WriteTo, TypeOK
      <4> QED BY <3>2, <4>1, RequestType DEF TypeOK
    <3> QED BY <1>5, <3>1, <3>2 DEF WriteTo
  <2>2. CASE ack[p]   BY <1>5, <2>1, <2>2 DEF WriteTo, Written, TypeOK
  <2>3. CASE ~ack[p]
    <3>1. ReturnTyped  BY <1>0, <1>5, <2>3, ReturnType DEF WriteTo, Written
    <3> QED BY <1>5, <2>1, <3>1 DEF WriteTo, ReturnTyped, TypeOK
  <2> QED BY <2>2, <2>3
<1>6. CASE WriteToFails(p)
  <2>2. CASE ack[p]   BY <1>6, <2>2 DEF WriteToFails, TypeOK
  <2>3. CASE ~ack[p]
    <3>1. ReturnTyped  BY <1>0, <1>6, <2>3, ReturnType DEF WriteToFails
    <3> QED BY <1>6, <3>1 DEF WriteToFails, ReturnTyped, TypeOK
  <2> QED BY <2>2, <2>3
<1>7. CASE ReleaseWaiter(p)
  <2>1. ReturnTyped  BY <1>0, <1>7, ReturnType DEF ReleaseWaiter
  <2>2. respc' \in [ID -> Callers \cup {None}]  BY <1>7 DEF ReleaseWaiter, TypeOK
  <2>3. chan' \in [Callers -> {"none", "open", "closed", "panic"}]
    <3>1. CASE respc[cid[p]] = None  BY <1>7, <3>1 DEF ReleaseWaiter, TypeOK
    <3>2. CASE CloseChans({respc[cid[p]]})  BY <3>2 DEF CloseChans, Closed, TypeOK
    <3> QED BY <1>7, <3>1, <3>2 DEF ReleaseWaiter
  <2> QED BY <1>7, <2>1, <2>2, <2>3 DEF ReleaseWaiter, ReturnTyped, TypeOK
<1>8. CASE RecvClosed(p)
  <2>1. ReturnTyped  BY <1>0, <1>8, ReturnType DEF RecvClosed
  <2> QED BY <1>8, <2>1 DEF RecvClosed, ReturnTyped, TypeOK
<1> QED BY <1>1, <1>2, <1>3, <1>4, <1>5, <1>6, <1>7, <1>8 DEF Caller

\* The steps of readRespLoop keep the types.
LEMMA ReaderType ==
    ASSUME TypeOK, Reader
    PROVE  TypeOK'
<1> USE DEF callVars, readVars, stopVars, sockVars
<1>1. CASE ReadResp
  <2>1. Head(net) \in Request /\ Tail(net) \in Seq(Request)
    BY <1>1 DEF ReadResp, TypeOK
  <2>2. Head(net).id \in ID  BY <2>1 DEF Request
  <2>3. CASE respc[Head(net).id] # None
    <3>1. respc' = [respc EXCEPT ![Head(net).id] = None]
          /\ rc' = respc[Head(net).id] /\ msg' = Head(net) /\ rd' = "delivering"
      BY <1>1, <2>3 DEF ReadResp
    <3> QED BY <1>1, <2>1, <2>2, <3>1 DEF ReadResp, TypeOK
  <2>4. CASE respc[Head(net).id] = None
    BY <1>1, <2>1, <2>2, <2>4 DEF ReadResp, TypeOK
  <2> QED BY <2>3, <2>4
<1>2. CASE ReadRespFails  BY <1>2 DEF ReadRespFails, SetStop, Closed, TypeOK
<1>3. CASE Deliver
  <2>1. rc \in Callers /\ msg \in Request \cup {None}  BY <1>3 DEF Deliver, TypeOK
  <2>2. None \in Error  BY DEF Error
  <2>3. ReturnTyped  BY <1>3, <2>1, <2>2, ReturnType DEF Deliver
  <2>4. chan' \in [Callers -> {"none", "open", "closed", "panic"}]
    BY <1>3 DEF Deliver, CloseChans, Closed, TypeOK
  <2> QED BY <1>3, <2>3, <2>4 DEF Deliver, ReturnTyped, TypeOK
<1>4. CASE DeliverStops   BY <1>4 DEF DeliverStops, CloseChans, Closed, TypeOK
<1>5. CASE Drain          BY <1>5 DEF Drain, CloseChans, Closed, TypeOK
<1> QED BY <1>1, <1>2, <1>3, <1>4, <1>5 DEF Reader

\* The other steps: a new call, the end of nextIDLoop, Close, the peer.
LEMMA OtherType ==
    ASSUME TypeOK
    PROVE  /\ \A p \in Callers, a \in BOOLEAN : Call(p, a) => TypeOK'
           /\ NextIDLoopStops => TypeOK'
           /\ \A q \in Closers : Close(q) \/ CloseTransport(q) => TypeOK'
           /\ \A r \in inbox : Answer(r) => TypeOK'
           /\ PeerLeaves => TypeOK'
<1> USE DEF TypeOK, callVars, readVars, stopVars, sockVars
<1>1. ASSUME NEW p \in Callers, NEW a \in BOOLEAN, Call(p, a) PROVE TypeOK'
  <2>1. Unset \in Result  BY DEF Unset, Result, Error
  <2> QED BY <1>1, <2>1 DEF Call
<1>2. NextIDLoopStops => TypeOK'  BY DEF NextIDLoopStops
<1>3. ASSUME NEW q \in Closers, Close(q) PROVE TypeOK'
  BY <1>3 DEF Close, SetStop, Closed
<1>4. ASSUME NEW q \in Closers, CloseTransport(q) PROVE TypeOK'
  BY <1>4 DEF CloseTransport
<1>5. ASSUME NEW r \in inbox, Answer(r) PROVE TypeOK'
  <2>0. r \in Request /\ Append(net, r) \in Seq(Request)  OBVIOUS
  <2>1. CASE r.ack \in Answered  BY <1>5, <2>0, <2>1 DEF Answer
  <2>2. CASE r.ack \notin Answered  BY <1>5, <2>2 DEF Answer
  <2> QED BY <2>1, <2>2
<1>6. PeerLeaves => TypeOK'  BY DEF PeerLeaves
<1> QED BY <1>1, <1>2, <1>3, <1>4, <1>5, <1>6

\* Every step of the connection keeps the types.
LEMMA TypeStep == TypeOK /\ [Next]_vars => TypeOK'
<1> SUFFICES ASSUME TypeOK, [Next]_vars PROVE TypeOK'  OBVIOUS
<1>1. CASE UNCHANGED vars  BY <1>1 DEF vars, TypeOK
<1>2. CASE Next  BY <1>2, CallerType, ReaderType, OtherType DEF Next
<1> QED BY <1>1, <1>2

\* Every variable of the connection keeps its type.
THEOREM TypeCorrect == Spec => []TypeOK
BY InitType, TypeStep, PTL DEF Spec

-----------------------------------------------------------------------------
(* Channels, waiters and the end of the connection.                        *)

\* The types of the variables that say who waits and who may close what.
ChanTypes ==
    /\ respc \in [ID -> Callers \cup {None}]
    /\ chan \in [Callers -> {"none", "open", "closed", "panic"}]
    /\ rc \in Callers \cup {None}
    /\ pc \in [Callers -> {"idle", "id", "register", "write", "wait", "release"}]
    /\ ack \in [Callers -> BOOLEAN]
    /\ cid \in [Callers -> ID \cup {None}]
    /\ \A p \in Callers : pc[p] \in {"register", "write", "wait", "release"} => cid[p] \in ID

\* Being stopped is recorded in stopErr before anybody can see it.
LEMMA StopStep ==
    ASSUME TypeOK, StopInv, Waiters, [Next]_vars
    PROVE  StopInv'
<1> USE DEF TypeOK, StopInv, Stopped, Registered, callVars, readVars, stopVars, sockVars
<1>1. ASSUME NEW p \in Callers, NEW a \in BOOLEAN, Call(p, a) PROVE StopInv'
  BY <1>1 DEF Call
<1>2. ASSUME NEW p \in Callers, HandID(p) PROVE StopInv'
  BY <1>2, IDs DEF HandID
<1>3. ASSUME NEW p \in Callers, NoMoreIDs(p) PROVE StopInv'
  BY <1>3 DEF NoMoreIDs, Return
<1>4. ASSUME NEW p \in Callers, RespWaiterFails(p) PROVE StopInv'
  BY <1>4 DEF RespWaiterFails, Return
<1>5. ASSUME NEW p \in Callers, RespWaiter(p) PROVE StopInv'
  BY <1>5 DEF RespWaiter
<1>6. ASSUME NEW p \in Callers, WriteTo(p) PROVE StopInv'
  BY <1>6 DEF WriteTo, Written, Return
<1>7. ASSUME NEW p \in Callers, WriteToFails(p) PROVE StopInv'
  BY <1>7 DEF WriteToFails, Return
<1>8. ASSUME NEW p \in Callers, ReleaseWaiter(p) PROVE StopInv'
  BY <1>8 DEF ReleaseWaiter, Return, CloseChans, Closed
<1>9. ASSUME NEW p \in Callers, RecvClosed(p) PROVE StopInv'
  BY <1>9 DEF RecvClosed, Return
<1>10. CASE ReadResp  BY <1>10 DEF ReadResp
<1>11. CASE ReadRespFails  BY <1>11 DEF ReadRespFails, SetStop, Closed
<1>12. CASE Deliver  BY <1>12 DEF Deliver, Return
<1>13. CASE DeliverStops  BY <1>13 DEF DeliverStops, CloseChans, Closed
<1>14. CASE Drain  BY <1>14 DEF Drain, CloseChans, Closed
<1>15. CASE NextIDLoopStops  BY <1>15 DEF NextIDLoopStops
<1>16. ASSUME NEW q \in Closers, Close(q) PROVE StopInv'
  BY <1>16 DEF Close, SetStop, Closed
<1>17. ASSUME NEW q \in Closers, CloseTransport(q) PROVE StopInv'
  BY <1>17 DEF CloseTransport
<1>18. ASSUME NEW r \in inbox, Answer(r) PROVE StopInv'
  BY <1>18 DEF Answer
<1>19. CASE PeerLeaves  BY <1>19 DEF PeerLeaves
<1>20. CASE UNCHANGED vars  BY <1>20 DEF vars
<1> HIDE DEF TypeOK, StopInv, Stopped, Registered, callVars, readVars, stopVars, sockVars
<1> QED BY <1>1, <1>2, <1>3, <1>4, <1>5, <1>6, <1>7, <1>8, <1>9, <1>10, <1>11, <1>12, <1>13,
           <1>14, <1>15, <1>16, <1>17, <1>18, <1>19, <1>20 DEF Next, Caller, Reader

\* Who is registered after p goes to w.
LEMMA RegisteredStep ==
    ASSUME ChanTypes, NEW p \in Callers, NEW w, pc' = [pc EXCEPT ![p] = w], UNCHANGED ack
    PROVE  /\ ack[p] /\ w \in {"write", "wait", "release"} => Registered' = Registered \cup {p}
           /\ ~ack[p] \/ w \notin {"write", "wait", "release"} => Registered' = Registered \ {p}
<1>1. \A q \in Callers : pc'[q] = IF q = p THEN w ELSE pc[q]  BY DEF ChanTypes
<1> QED BY <1>1 DEF Registered

\* p goes to where it may be.
LEMMA AckedStep ==
    ASSUME ChanTypes, AckedPhases, NEW p \in Callers, NEW w, pc' = [pc EXCEPT ![p] = w],
           UNCHANGED ack, w \in {"register", "wait", "release"} => ack[p]
    PROVE  AckedPhases'
<1>1. \A q \in Callers : pc'[q] = IF q = p THEN w ELSE pc[q]  BY DEF ChanTypes
<1> QED BY <1>1 DEF AckedPhases

\* A registered goroutine has an ID.
LEMMA RegisteredIDs ==
    ASSUME ChanTypes PROVE \A p \in Registered : p \in Callers /\ cid[p] \in ID
  BY DEF ChanTypes, Registered

\* A step that leaves respc and the channel of readRespLoop alone, registers nobody
\* and lets only goroutines go whose channel was closed.
LEMMA WaitersKept ==
    ASSUME ChanTypes, Waiters, AckedPhases', UNCHANGED <<respc, rc>>,
           rd' = rd \/ (rd # "delivering" /\ rd' # "done"),
           Registered' \subseteq Registered,
           \A p \in Registered' : cid'[p] = cid[p] /\ chan'[p] = chan[p],
           \A p \in Registered \ Registered' : chan[p] = "closed"
    PROVE  Waiters'
<1>1. RespcOpen'  BY DEF Waiters, RespcOpen
<1>2. HeldOpen'  BY DEF Waiters, HeldOpen
<1>3. HasHolder'  BY DEF Waiters, HasHolder
<1>4. Drained'  BY DEF Waiters, Drained
<1> QED BY <1>1, <1>2, <1>3, <1>4 DEF Waiters

\* The steps of the goroutines that call, up to those that register or release.
LEMMA CallerKeepsWaiters ==
    ASSUME ChanTypes, Waiters, NEW p \in Callers,
           \/ \E a \in BOOLEAN : Call(p, a)
           \/ HandID(p) \/ NoMoreIDs(p) \/ RespWaiterFails(p)
           \/ WriteTo(p) \/ WriteToFails(p) \/ RecvClosed(p)
    PROVE  Waiters'
<1> USE DEF callVars, readVars, stopVars, sockVars
<1>0. AckedPhases  BY DEF Waiters
<1>1. ASSUME NEW a \in BOOLEAN, Call(p, a) PROVE Waiters'
  <2>1. p \notin Registered /\ pc[p] = "idle"  BY <1>1 DEF Call, Registered
  <2>2. \A q \in Callers : q # p => /\ pc'[q] = pc[q] /\ ack'[q] = ack[q] /\ cid'[q] = cid[q]
                                    /\ chan'[q] = chan[q]
    BY <1>1 DEF Call, ChanTypes
  <2>3. pc'[p] = "id"  BY <1>1 DEF Call, ChanTypes
  <2>4. Registered' = Registered  BY <2>1, <2>2, <2>3 DEF Registered
  <2>5. AckedPhases'  BY <1>0, <2>2, <2>3 DEF AckedPhases
  <2>6. UNCHANGED <<respc, rc, rd>>  BY <1>1 DEF Call
  <2> QED BY <2>1, <2>2, <2>4, <2>5, <2>6, RegisteredIDs, WaitersKept
<1>2. CASE HandID(p)
  <2>1. p \notin Registered  BY <1>2 DEF HandID, Registered
  <2> DEFINE w == IF ack[p] THEN "register" ELSE "write"
  <2>2. pc' = [pc EXCEPT ![p] = w] /\ UNCHANGED <<ack, chan, respc, rc, rd>>  BY <1>2 DEF HandID
  <2>3. Registered' = Registered
    <3>1. ~ack[p] \/ w \notin {"write", "wait", "release"}  OBVIOUS
    <3> HIDE DEF w
    <3>2. Registered' = Registered \ {p}  BY <2>2, <3>1, RegisteredStep
    <3> QED BY <2>1, <3>2
  <2>4. AckedPhases'
    <3>1. w \in {"register", "wait", "release"} => ack[p]  OBVIOUS
    <3> HIDE DEF w
    <3> QED BY <1>0, <2>2, <3>1, AckedStep
  <2>5. \A q \in Callers : q # p => cid'[q] = cid[q]  BY <1>2 DEF HandID, ChanTypes
  <2> QED BY <2>1, <2>2, <2>3, <2>4, <2>5, RegisteredIDs, WaitersKept
<1>3. ASSUME NEW w, pc' = [pc EXCEPT ![p] = w], UNCHANGED <<ack, cid, chan, respc, rc, rd>>,
             w = "idle" \/ (ack[p] /\ w \in {"wait", "release"} /\ p \in Registered),
             p \in Registered /\ w = "idle" => chan[p] = "closed"
      PROVE  Waiters'
  <2>1. AckedPhases'  BY <1>0, <1>3, AckedStep
  <2>2. /\ Registered' \subseteq Registered
        /\ \A q \in Registered \ Registered' : q = p /\ w = "idle"
    BY <1>3, RegisteredStep
  <2> QED BY <1>3, <2>1, <2>2, WaitersKept
<1>4. CASE NoMoreIDs(p) \/ RespWaiterFails(p)
  <2>1. p \notin Registered  BY <1>4 DEF NoMoreIDs, RespWaiterFails, Registered
  <2> QED BY <1>3, <1>4, <2>1 DEF NoMoreIDs, RespWaiterFails, Return
<1>5. CASE WriteTo(p)
  <2>1. p \in Registered <=> ack[p]  BY <1>5 DEF WriteTo, Registered
  <2> QED BY <1>3, <1>5, <2>1 DEF WriteTo, Written, Return
<1>6. CASE WriteToFails(p)
  <2>1. p \in Registered <=> ack[p]  BY <1>6 DEF WriteToFails, Registered
  <2> QED BY <1>3, <1>6, <2>1 DEF WriteToFails, Return
<1>7. CASE RecvClosed(p)  BY <1>3, <1>7 DEF RecvClosed, Return
<1> QED BY <1>1, <1>2, <1>4, <1>5, <1>6, <1>7

\* respWaiter registers a new channel.
LEMMA RespWaiterKeepsWaiters ==
    ASSUME ChanTypes, StopInv, Waiters, NEW p \in Callers, RespWaiter(p) PROVE Waiters'
<1> USE DEF readVars
<1>1. cid[p] \in ID /\ p \notin Registered  BY DEF RespWaiter, ChanTypes, Registered
<1>2. \A i \in ID : respc'[i] = IF i = cid[p] THEN p ELSE respc[i]
  BY <1>1 DEF RespWaiter, ChanTypes
<1>3. UNCHANGED <<ack, cid, rc, rd>> /\ pc' = [pc EXCEPT ![p] = "write"] /\ respc[cid[p]] = None
  BY DEF RespWaiter
<1>4. \A q \in Callers : chan'[q] = IF q = p THEN "open" ELSE chan[q]  BY DEF RespWaiter, ChanTypes
<1>5. ack[p]  BY DEF RespWaiter, Waiters, AckedPhases
<1>6. rd # "done"  BY DEF RespWaiter, StopInv, Stopped
<1>7. Registered' = Registered \cup {p}  BY <1>3, <1>5, RegisteredStep
<1>8. AckedPhases'  BY <1>3, AckedStep DEF Waiters
<1>9. RespcOpen'  BY <1>1, <1>2, <1>3, <1>4, <1>7, RegisteredIDs DEF Waiters, RespcOpen
<1>10. HeldOpen'  BY <1>1, <1>2, <1>3, <1>4, <1>7, RegisteredIDs DEF Waiters, HeldOpen
<1>11. HasHolder'
  <2> SUFFICES ASSUME NEW q \in Callers, q \in Registered'
               PROVE  respc'[cid[q]] = q \/ rc = q \/ chan'[q] = "closed"
    BY <1>3 DEF HasHolder
  <2>1. CASE q = p  BY <1>1, <1>2, <2>1
  <2>2. CASE q # p
    <3>1. q \in Registered /\ cid[q] \in ID /\ chan'[q] = chan[q]
      BY <1>4, <1>7, <2>2, RegisteredIDs
    <3>2. respc[cid[q]] = q => respc'[cid[q]] = q  BY <1>2, <1>3, <3>1
    <3> QED BY <3>1, <3>2 DEF Waiters, HasHolder
  <2> QED BY <2>1, <2>2
<1>12. Drained'  BY <1>3, <1>6 DEF Drained
<1> QED BY <1>8, <1>9, <1>10, <1>11, <1>12 DEF Waiters

\* releaseWaiter closes the channel that is registered with the ID of p.
LEMMA ReleaseKeepsWaiters ==
    ASSUME ChanTypes, Waiters, NEW p \in Callers, ReleaseWaiter(p) PROVE Waiters'
<1>1. p \in Registered /\ cid[p] \in ID  BY RegisteredIDs DEF ReleaseWaiter, Waiters, AckedPhases, Registered
<1>2. /\ UNCHANGED <<ack, cid, rd>> /\ pc' = [pc EXCEPT ![p] = "idle"]
      /\ rc' = IF rc = p THEN None ELSE rc
  BY DEF ReleaseWaiter, Return
<1>3. Registered' = Registered \ {p}
  <2>1. \A q \in Callers : pc'[q] = IF q = p THEN "idle" ELSE pc[q]  BY <1>2 DEF ChanTypes
  <2> QED BY <1>2, <2>1 DEF Registered
<1>4. AckedPhases'  BY <1>2, AckedStep DEF Waiters
<1>5. \A i \in ID : respc'[i] = IF i = cid[p] THEN None ELSE respc[i]
  <2>1. CASE respc[cid[p]] = None  BY <2>1 DEF ReleaseWaiter
  <2>2. CASE respc[cid[p]] # None
    <3>1. respc' = [respc EXCEPT ![cid[p]] = None]  BY <2>2 DEF ReleaseWaiter
    <3> QED BY <1>1, <3>1 DEF ChanTypes
  <2> QED BY <2>1, <2>2
<1>6. \A q \in Callers : chan'[q] = IF q = respc[cid[p]] THEN "closed" ELSE chan[q]
  <2>1. CASE respc[cid[p]] = None  BY <2>1 DEF ReleaseWaiter
  <2>2. CASE respc[cid[p]] # None
    <3>1. chan[respc[cid[p]]] = "open"  BY <1>1, <2>2 DEF Waiters, RespcOpen
    <3>2. CloseChans({respc[cid[p]]})  BY <2>2 DEF ReleaseWaiter
    <3> QED BY <3>1, <3>2 DEF CloseChans, Closed
  <2> QED BY <2>1, <2>2
<1>7. RespcOpen'
  <2> SUFFICES ASSUME NEW i \in ID, respc'[i] # None
               PROVE  respc'[i] \in Registered' /\ cid'[respc'[i]] = i /\ chan'[respc'[i]] = "open"
    BY DEF RespcOpen
  <2>1. i # cid[p] /\ respc'[i] = respc[i]  BY <1>5
  <2>2. respc[i] \in Registered /\ cid[respc[i]] = i /\ chan[respc[i]] = "open"
    BY <2>1 DEF Waiters, RespcOpen
  <2>3. respc[cid[p]] # None => cid[respc[cid[p]]] = cid[p]  BY <1>1 DEF Waiters, RespcOpen
  <2>4. respc[i] # p /\ respc[i] # respc[cid[p]] /\ respc[i] \in Callers
    BY <2>1, <2>2, <2>3, RegisteredIDs
  <2> QED BY <1>2, <1>3, <1>6, <2>1, <2>2, <2>4
<1>8. HeldOpen'
  <2> SUFFICES ASSUME rc' # None
               PROVE  rd' = "delivering" /\ rc' \in Registered' /\ chan'[rc'] = "open"
                      /\ respc'[cid'[rc']] # rc'
    BY DEF HeldOpen
  <2>1. rc' = rc /\ rc # p  BY <1>2
  <2>2. rd = "delivering" /\ rc \in Registered /\ chan[rc] = "open" /\ respc[cid[rc]] # rc
    BY <2>1 DEF Waiters, HeldOpen
  <2>3. rc \in Callers /\ cid[rc] \in ID  BY <2>2, RegisteredIDs
  <2>4. rc # respc[cid[p]]  BY <1>1, <2>1, <2>2 DEF Waiters, RespcOpen
  <2> QED BY <1>2, <1>3, <1>5, <1>6, <2>1, <2>2, <2>3, <2>4
<1>9. HasHolder'
  <2> SUFFICES ASSUME NEW q \in Callers, q \in Registered'
               PROVE  respc'[cid'[q]] = q \/ rc' = q \/ chan'[q] = "closed"
    BY DEF HasHolder
  <2>1. q \in Registered /\ q # p /\ cid'[q] = cid[q] /\ cid[q] \in ID
    BY <1>2, <1>3, RegisteredIDs
  <2>2. respc[cid[q]] = q \/ rc = q \/ chan[q] = "closed"  BY <2>1 DEF Waiters, HasHolder
  <2>3. CASE respc[cid[q]] = q  BY <1>5, <1>6, <2>1, <2>3
  <2>4. CASE rc = q  BY <1>2, <2>1, <2>4
  <2>5. CASE chan[q] = "closed"  BY <1>6, <2>5
  <2> QED BY <2>2, <2>3, <2>4, <2>5
<1>10. Drained'  BY <1>2, <1>5 DEF Waiters, Drained
<1> QED BY <1>4, <1>7, <1>8, <1>9, <1>10 DEF Waiters

\* The steps of readRespLoop.
LEMMA ReaderKeepsWaiters ==
    ASSUME TypeOK, ChanTypes, Waiters, Reader PROVE Waiters'
<1> USE DEF callVars
<1>1. CASE ReadResp
  <2> DEFINE m == Head(net)
  <2>1. m.id \in ID
    <3>1. net \in Seq(Request) /\ net # <<>>  BY <1>1 DEF ReadResp, TypeOK
    <3>2. m \in Request  BY <3>1
    <3> QED BY <3>2 DEF Request
  <2>2. UNCHANGED <<chan, pc, ack, cid>> /\ rd = "reading"  BY <1>1 DEF ReadResp
  <2>3. Registered' = Registered /\ AckedPhases'  BY <2>2 DEF Registered, Waiters, AckedPhases
  <2>4. CASE respc[m.id] = None
    <3>1. UNCHANGED <<respc, rc, rd>>  BY <1>1, <2>4 DEF ReadResp, readVars
    <3> QED BY <2>2, <2>3, <3>1, WaitersKept
  <2>5. CASE respc[m.id] # None
    <3> DEFINE x == respc[m.id]
    <3>1. rc' = x /\ rd' = "delivering"  BY <1>1, <2>5 DEF ReadResp
    <3>2. \A i \in ID : respc'[i] = IF i = m.id THEN None ELSE respc[i]
      <4>1. respc' = [respc EXCEPT ![m.id] = None]  BY <1>1, <2>5 DEF ReadResp
      <4> HIDE DEF m
      <4> QED BY <2>1, <4>1 DEF ChanTypes
    <3>3. x \in Registered /\ cid[x] = m.id /\ chan[x] = "open"  BY <2>1, <2>5 DEF Waiters, RespcOpen
    <3>4. rc = None  BY <2>2 DEF Waiters, HeldOpen
    <3>5. x # None  BY <2>5
    <3> HIDE DEF x, m
    <3>6. RespcOpen'  BY <2>2, <2>3, <3>2 DEF Waiters, RespcOpen
    <3>7. HeldOpen'  BY <2>1, <2>2, <2>3, <3>1, <3>2, <3>3, <3>5 DEF HeldOpen
    <3>8. HasHolder'
      <4> SUFFICES ASSUME NEW q \in Callers, q \in Registered
                   PROVE  respc'[cid[q]] = q \/ rc' = q \/ chan[q] = "closed"
        BY <2>2, <2>3 DEF HasHolder
      <4>1. cid[q] \in ID  BY RegisteredIDs
      <4>2. respc[cid[q]] = q \/ chan[q] = "closed"  BY <3>4 DEF Waiters, HasHolder
      <4> QED BY <3>1, <3>2, <4>1, <4>2 DEF x
    <3>9. Drained'  BY <3>1 DEF Drained
    <3> QED BY <2>3, <3>6, <3>7, <3>8, <3>9 DEF Waiters
  <2> QED BY <2>4, <2>5
<1>2. CASE ReadRespFails
  <2>1. UNCHANGED <<chan, pc, ack, cid, respc, rc>> /\ rd = "reading" /\ rd' = "draining"
    BY <1>2 DEF ReadRespFails
  <2>2. Registered' = Registered /\ AckedPhases'  BY <2>1 DEF Registered, Waiters, AckedPhases
  <2> QED BY <2>1, <2>2, WaitersKept
<1>3. CASE Deliver
  <2>1. rc \in Registered /\ chan[rc] = "open" /\ respc[cid[rc]] # rc
    BY <1>3 DEF Deliver, Waiters, HeldOpen
  <2>2. rc \in Callers /\ cid[rc] \in ID  BY <2>1, RegisteredIDs
  <2>3. /\ rc' = None /\ rd' = "reading" /\ UNCHANGED <<respc, ack, cid>>
        /\ pc' = [pc EXCEPT ![rc] = "idle"]
    BY <1>3 DEF Deliver, Return
  <2>4. Registered' = Registered \ {rc}
    <3>1. \A q \in Callers : pc'[q] = IF q = rc THEN "idle" ELSE pc[q]  BY <2>2, <2>3 DEF ChanTypes
    <3> QED BY <2>3, <3>1 DEF Registered
  <2>5. AckedPhases'  BY <2>2, <2>3, AckedStep DEF Waiters
  <2>6. \A x \in Callers : x # rc => chan'[x] = chan[x]  BY <1>3 DEF Deliver, CloseChans
  <2>7. \A i \in ID : respc[i] # rc  BY <2>1, <2>2 DEF Waiters, RespcOpen
  <2>8. RespcOpen'  BY <2>3, <2>4, <2>6, <2>7, RegisteredIDs DEF Waiters, RespcOpen
  <2>9. HasHolder'  BY <2>3, <2>4, <2>6 DEF Waiters, HasHolder
  <2> QED BY <2>3, <2>5, <2>8, <2>9 DEF Waiters, HeldOpen, Drained
<1>4. CASE DeliverStops
  <2>1. /\ rd = "delivering" /\ rc' = None /\ rd' = "reading" /\ UNCHANGED <<respc, pc, ack, cid>>
    BY <1>4 DEF DeliverStops
  <2>2. Registered' = Registered /\ AckedPhases'  BY <2>1 DEF Registered, Waiters, AckedPhases
  <2>3. \A x \in Callers : chan'[x] = IF x = rc THEN "closed" ELSE chan[x]
    <3>1. rc # None => chan[rc] = "open"  BY DEF Waiters, HeldOpen
    <3> QED BY <1>4, <3>1 DEF DeliverStops, CloseChans, Closed
  <2>4. \A i \in ID : respc[i] # None => respc[i] # rc  BY DEF Waiters, RespcOpen, HeldOpen
  <2>5. RespcOpen'  BY <2>1, <2>2, <2>3, <2>4, RegisteredIDs DEF Waiters, RespcOpen
  <2>6. HasHolder'  BY <2>1, <2>2, <2>3 DEF Waiters, HasHolder
  <2> QED BY <2>1, <2>2, <2>5, <2>6 DEF Waiters, HeldOpen, Drained
<1>5. CASE Drain
  <2>1. /\ rd = "draining" /\ rd' = "done" /\ UNCHANGED <<rc, pc, ack, cid>>
        /\ respc' = [i \in ID |-> None]
    BY <1>5 DEF Drain
  <2>2. Registered' = Registered /\ AckedPhases'  BY <2>1 DEF Registered, Waiters, AckedPhases
  <2>3. rc = None  BY <2>1 DEF Waiters, HeldOpen
  <2>4. \A x \in Leftovers : chan[x] = "open"  BY DEF Waiters, RespcOpen
  <2>5. \A x \in Callers : chan'[x] = IF x \in Leftovers THEN "closed" ELSE chan[x]
    BY <1>5, <2>4 DEF Drain, CloseChans, Closed
  <2>6. HasHolder'
    <3> SUFFICES ASSUME NEW q \in Callers, q \in Registered PROVE chan'[q] = "closed"
      BY <2>2 DEF HasHolder
    <3>1. cid[q] \in ID  BY RegisteredIDs
    <3>2. respc[cid[q]] = q \/ chan[q] = "closed"  BY <2>3 DEF Waiters, HasHolder
    <3>3. respc[cid[q]] = q => q \in Leftovers  BY <3>1
    <3> QED BY <2>5, <3>2, <3>3
  <2>7. RespcOpen' /\ Drained' /\ HeldOpen'  BY <2>1, <2>3 DEF RespcOpen, Drained, HeldOpen
  <2> QED BY <2>2, <2>6, <2>7 DEF Waiters
<1> QED BY <1>1, <1>2, <1>3, <1>4, <1>5 DEF Reader

\* Exactly one party can close the channel of a goroutine, and has it open.
LEMMA WaitersStep ==
    ASSUME TypeOK, StopInv, Waiters, [Next]_vars
    PROVE  Waiters'
<1>1. ChanTypes  BY DEF TypeOK, ChanTypes
<1>2. ASSUME NEW p \in Callers, Caller(p) \/ \E a \in BOOLEAN : Call(p, a) PROVE Waiters'
  BY <1>1, <1>2, CallerKeepsWaiters, RespWaiterKeepsWaiters, ReleaseKeepsWaiters DEF Caller
<1>3. CASE Reader  BY <1>1, <1>3, ReaderKeepsWaiters
<1>4. CASE UNCHANGED <<respc, chan, pc, ack, cid, rc, rd>>
  <2>1. Registered' = Registered /\ AckedPhases'  BY <1>4 DEF Registered, Waiters, AckedPhases
  <2> QED BY <1>1, <1>4, <2>1, WaitersKept
<1>5. \/ \E p \in Callers : Caller(p) \/ \E a \in BOOLEAN : Call(p, a)
      \/ Reader
      \/ UNCHANGED <<respc, chan, pc, ack, cid, rc, rd>>
  BY Zenon DEF Next, NextIDLoopStops, Close, CloseTransport, Answer, PeerLeaves, vars, callVars, readVars
<1> QED BY <1>2, <1>3, <1>4, <1>5

\* A new connection satisfies the invariant.
LEMMA InvInit == Init => Inv
<1> SUFFICES ASSUME Init PROVE Inv  OBVIOUS
<1>1. TypeOK  BY InitType
<1>2. Registered = {}  BY DEF Init, Registered
<1>3. StopInv  BY <1>2, IDs DEF Init, StopInv, Stopped
<1>4. Waiters
  BY <1>2 DEF Init, Waiters, AckedPhases, RespcOpen, HeldOpen, HasHolder, Drained
<1>5. NoDoubleClose  BY DEF Init, NoDoubleClose
<1> QED BY <1>1, <1>3, <1>4, <1>5 DEF Inv

\* A channel that is about to be closed is open.
LEMMA DoubleCloseStep ==
    ASSUME Inv, [Next]_vars
    PROVE  NoDoubleClose'
<1> USE DEF Inv, NoDoubleClose, callVars, readVars, stopVars, sockVars
<1>1. stop' # "panic"
  <2>1. ASSUME NEW e, SetStop(e) PROVE stop' # "panic"
    BY <2>1 DEF SetStop, Closed, StopInv, Stopped
  <2>2. [Next]_vars => UNCHANGED stop \/ \E e : SetStop(e)
    BY ZenonT(30) DEF Next, Caller, Reader, vars, Call, HandID, NoMoreIDs, RespWaiterFails,
        RespWaiter, WriteTo, WriteToFails, ReleaseWaiter, RecvClosed, NextIDLoopStops,
        ReadResp, ReadRespFails, Deliver, DeliverStops, Drain, Close, CloseTransport,
        Answer, PeerLeaves
  <2> QED BY <2>1, <2>2
<1>0. ChanTypes  BY DEF TypeOK, ChanTypes
<1>2. ASSUME NEW S \in SUBSET Callers, \A x \in S : chan[x] = "open", CloseChans(S)
      PROVE  \A x \in Callers : chan'[x] # "panic"
  BY <1>2 DEF CloseChans, Closed
<1>3. ASSUME NEW p \in Callers, ReleaseWaiter(p) PROVE \A x \in Callers : chan'[x] # "panic"
  <2>1. cid[p] \in ID  BY <1>3 DEF ReleaseWaiter, TypeOK
  <2>2. CASE respc[cid[p]] = None  BY <1>3, <2>2, Zenon DEF ReleaseWaiter
  <2>3. CASE respc[cid[p]] # None
    <3>1. respc[cid[p]] \in Callers /\ chan[respc[cid[p]]] = "open"
      BY <1>0, <2>1, <2>3 DEF ChanTypes, Waiters, RespcOpen
    <3> QED BY <1>2, <1>3, <2>3, <3>1 DEF ReleaseWaiter
  <2> QED BY <2>2, <2>3
<1>4. CASE DeliverStops \/ Deliver
  <2>1. \A x \in {rc} \ {None} : x \in Callers /\ chan[x] = "open"
    BY DEF TypeOK, Waiters, HeldOpen
  <2>2. CloseChans({rc} \ {None})  BY <1>4, ZenonT(30) DEF DeliverStops, Deliver, CloseChans
  <2>3. {rc} \ {None} \in SUBSET Callers  BY <2>1
  <2> QED BY <1>1, <1>2, <2>1, <2>2, <2>3
<1>5. CASE Drain
  <2>1. \A x \in {respc[i] : i \in ID} \ {None} : x \in Callers /\ chan[x] = "open"
    BY <1>0 DEF ChanTypes, Waiters, RespcOpen
  <2> QED BY <1>2, <1>5, <2>1, Zenon DEF Drain
<1>6. ASSUME NEW p \in Callers, (\E a \in Kinds[p] : Call(p, a)) \/ RespWaiter(p)
      PROVE  \A x \in Callers : chan'[x] # "panic"
  BY <1>6 DEF Call, RespWaiter, TypeOK
<1>7. UNCHANGED chan => \A x \in Callers : chan'[x] # "panic"  OBVIOUS
<1>8. \/ UNCHANGED chan \/ DeliverStops \/ Deliver \/ Drain
      \/ \E p \in Callers : (\E a \in Kinds[p] : Call(p, a)) \/ RespWaiter(p) \/ ReleaseWaiter(p)
  BY ZenonT(30) DEF Next, Caller, Reader, vars, HandID, NoMoreIDs, RespWaiterFails,
      WriteTo, WriteToFails, RecvClosed, NextIDLoopStops,
      ReadResp, ReadRespFails, Close, CloseTransport, Answer, PeerLeaves
<1> QED BY <1>1, <1>3, <1>4, <1>5, <1>6, <1>7, <1>8

\* The invariant about stopping, waiting and closing holds with any server.
LEMMA InvHolds == Spec => []Inv
<1>1. Inv /\ [Next]_vars => Inv'
  BY TypeStep, StopStep, WaitersStep, DoubleCloseStep DEF Inv
<1> QED BY InvInit, <1>1, PTL DEF Spec

\* No channel is ever closed twice, whoever wins the races between
\* readRespLoop, releaseWaiter, the drain and Close.
THEOREM NeverClosedTwice == Spec => []NoDoubleClose
BY InvHolds, PTL DEF Inv

\* After readRespLoop returned nobody waits for a response that cannot come.
THEOREM NobodyOrphaned == Spec => []NoOrphanWaiter
<1>1. Inv => NoOrphanWaiter
  <2> SUFFICES ASSUME Inv PROVE NoOrphanWaiter  OBVIOUS
  <2>1. ChanTypes  BY DEF Inv, TypeOK, ChanTypes
  <2>2. Waiters  BY DEF Inv
  <2> SUFFICES ASSUME rd = "done"
               PROVE  /\ \A i \in ID : respc[i] = None
                      /\ \A p \in Callers : pc[p] = "wait" => chan[p] = "closed"
    BY DEF NoOrphanWaiter
  <2>3. \A i \in ID : respc[i] = None  BY <2>2 DEF Waiters, Drained
  <2>4. ASSUME NEW p \in Callers, pc[p] = "wait" PROVE chan[p] = "closed"
    <3>1. p \in Registered  BY <2>2, <2>4 DEF Waiters, AckedPhases, Registered
    <3>2. respc[cid[p]] = p \/ rc = p \/ chan[p] = "closed"  BY <2>2, <3>1 DEF Waiters, HasHolder
    <3>3. cid[p] \in ID /\ p # None  BY <2>1, <2>4, ConnectionAssumption DEF ChanTypes
    <3>4. rc = None  BY <2>2 DEF Waiters, HeldOpen
    <3> QED BY <2>3, <3>2, <3>3, <3>4
  <2> QED BY <2>3, <2>4
<1> QED BY InvHolds, <1>1, PTL

\* The first error stays the error of the connection, and a stopped connection
\* and an ended nextIDLoop stay so.
THEOREM StoppedForGood == Spec => StopIsFinal
<1> DEFINE A == /\ stopErr # None => stopErr' = stopErr
                /\ stop # "open" => stop' = stop
                /\ nextID = None => nextID' = None
<1>1. Inv /\ [Next]_vars => [A]_vars
  <2> SUFFICES ASSUME Inv, Next PROVE A  OBVIOUS
  <2> USE DEF Inv, StopInv, Stopped, callVars, readVars, stopVars, sockVars
  <2>1. nextID = None => nextID' = None
    BY ZenonT(30) DEF Next, Caller, Reader, Call, HandID, NoMoreIDs, RespWaiterFails,
        RespWaiter, WriteTo, WriteToFails, ReleaseWaiter, RecvClosed, NextIDLoopStops,
        ReadResp, ReadRespFails, Deliver, DeliverStops, Drain, Close, CloseTransport,
        Answer, PeerLeaves
  <2>2. UNCHANGED <<stopErr, stop>> \/ DeliverStops \/ \E e : SetStop(e)
    BY ZenonT(30) DEF Next, Caller, Reader, Call, HandID, NoMoreIDs, RespWaiterFails,
        RespWaiter, WriteTo, WriteToFails, ReleaseWaiter, RecvClosed, NextIDLoopStops,
        ReadResp, ReadRespFails, Deliver, Drain, Close, CloseTransport,
        Answer, PeerLeaves
  <2> QED BY <2>1, <2>2 DEF DeliverStops, SetStop
<1> QED BY InvHolds, <1>1, PTL DEF Spec, StopIsFinal
=============================================================================

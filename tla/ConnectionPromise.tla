------------------------- MODULE ConnectionPromise --------------------------
(***************************************************************************)
(* With a server that answers only who waits, what is under way between    *)
(* the client and the server belongs to the goroutine that waits for it.   *)
(* So every response goes to its own request and the connection implements *)
(* RequestReply.                                                           *)
(***************************************************************************)
EXTENDS ConnectionProofs

USE Nil DEF CanRegister, Unregister, Abandoned, Leftovers

-----------------------------------------------------------------------------
(* What is under way.                                                      *)

\* What is under way refers to a registered ID and to a goroutine.
LEMMA InFlightTypes ==
    ASSUME TypeOK
    PROVE  /\ \A r \in inbox : r \in Request /\ r.id \in ID /\ r.from \in Callers
           /\ \A k \in DOMAIN net :
                net[k] \in Request /\ net[k].id \in ID /\ net[k].from \in Callers
<1>1. \A r \in Request : r.id \in ID /\ r.from \in Callers  BY DEF Request
<1>2. \A k \in DOMAIN net : net[k] \in Request  BY DEF TypeOK
<1> QED BY <1>1, <1>2 DEF TypeOK

\* A step that leaves the transport, respc and the reader alone keeps InFlight
\* when nobody registers, and no registered goroutine starts or stops waiting.
LEMMA QuietStep ==
    ASSUME Inv, InFlight,
           UNCHANGED <<respc, rc, msg, inbox, net>>,
           rd' = "delivering" => rd = "delivering",
           Stopped => Stopped',
           Registered' \subseteq Registered,
           \A p \in Registered' : chan'[p] = chan[p],
           \A p \in Registered : respc[cid[p]] = p \/ rc = p \/ p \in Registered' =>
                                     (pc'[p] = "wait" <=> pc[p] = "wait") /\ cid'[p] = cid[p]
    PROVE  InFlight'
<1>1. \A i \in ID : respc[i] # None => respc[i] \in Registered /\ cid[respc[i]] = i
  BY DEF Inv, Waiters, RespcOpen
<1>2. \A i \in ID : respc[i] # None => (pc'[respc[i]] = "wait" <=> pc[respc[i]] = "wait")
  BY <1>1
<1>3. rc # None => /\ rc \in Registered /\ cid'[rc] = cid[rc]
                   /\ pc'[rc] = "wait" <=> pc[rc] = "wait"
  BY DEF Inv, Waiters, HeldOpen
<1>4. ASSUME NEW r, r.id \in ID, InFlightOK(r) PROVE InFlightOK(r)'
  BY <1>2, <1>4 DEF InFlightOK
<1>5. InboxOK'  BY <1>4, InFlightTypes DEF Inv, InFlight, InboxOK
<1>6. NetOK'
  <2> SUFFICES ASSUME NEW k \in DOMAIN net PROVE net[k].ack /\ InFlightOK(net[k])'
    BY DEF NetOK, InFlightOK
  <2> QED BY <1>4, InFlightTypes DEF Inv, InFlight, NetOK
<1>7. NoTwins'  BY DEF InFlight, NoTwins
<1>8. HeldOK'   BY <1>3 DEF InFlight, HeldOK
<1>9. WaitOK'   BY DEF InFlight, WaitOK
<1> QED BY <1>5, <1>6, <1>7, <1>8, <1>9 DEF InFlight

\* The quiet steps.
LEMMA QuietSteps ==
    ASSUME Inv, InFlight, TypeOK',
           \/ \E p \in Callers : \/ \E a \in Kinds[p] : Call(p, a)
                                 \/ HandID(p) \/ NoMoreIDs(p) \/ RespWaiterFails(p)
                                 \/ WriteToFails(p) \/ RecvClosed(p)
           \/ NextIDLoopStops \/ ReadRespFails \/ PeerLeaves \/ UNCHANGED vars
           \/ \E q \in Closers : Close(q) \/ CloseTransport(q)
    PROVE  InFlight'
<1>t. ChanTypes  BY DEF Inv, TypeOK, ChanTypes
<1> USE <1>t DEF Inv, ChanTypes, Registered, Waiters, AckedPhases, callVars, readVars, stopVars, sockVars
<1>1. ASSUME NEW p \in Callers, NEW a \in Kinds[p], Call(p, a) PROVE InFlight'
  <2>1. p \notin Registered /\ Registered' = Registered  BY <1>1 DEF Call
  <2> QED BY <1>1, <2>1, QuietStep DEF Call, Stopped
<1>2. ASSUME NEW p \in Callers, HandID(p) PROVE InFlight'
  <2>1. p \notin Registered /\ Registered' = Registered  BY <1>2 DEF HandID
  <2>2. \A x \in Registered : cid'[x] = cid[x] /\ pc'[x] = pc[x]
    BY <1>2, <2>1 DEF HandID
  <2>3. UNCHANGED <<respc, chan, rc, rd, msg, inbox, net, stop>>  BY <1>2 DEF HandID
  <2> QED BY <2>1, <2>2, <2>3, QuietStep DEF Stopped
<1>3. ASSUME NEW p \in Callers, NoMoreIDs(p) \/ RespWaiterFails(p) PROVE InFlight'
  <2>1. p \notin Registered /\ Registered' = Registered
    BY <1>3 DEF NoMoreIDs, RespWaiterFails, Return
  <2> QED BY <1>3, <2>1, QuietStep DEF NoMoreIDs, RespWaiterFails, Return, Stopped
<1>4. ASSUME NEW p \in Callers, WriteToFails(p) PROVE InFlight'
  <2>1. Registered' = Registered  BY <1>4 DEF WriteToFails, Return
  <2>2. \A x \in Registered : pc'[x] = "wait" <=> pc[x] = "wait"
    BY <1>4 DEF WriteToFails, Return
  <2>3. UNCHANGED <<respc, chan, rc, rd, msg, inbox, net, stop, cid>>
    BY <1>4 DEF WriteToFails, Return
  <2> QED BY <2>1, <2>2, <2>3, QuietStep DEF Stopped
<1>5. ASSUME NEW p \in Callers, RecvClosed(p) PROVE InFlight'
  <2>1. p \in Registered /\ Registered' = Registered \ {p}
    BY <1>5 DEF RecvClosed, Return
  <2>2. respc[cid[p]] # p /\ rc # p
    BY <1>5, <2>1 DEF RecvClosed, RespcOpen, HeldOpen
  <2>3. UNCHANGED <<respc, chan, rc, rd, msg, inbox, net, stop, cid>>
        /\ pc' = [pc EXCEPT ![p] = "idle"]
    BY <1>5 DEF RecvClosed, Return
  <2>4. \A x \in Callers : x # p => pc'[x] = pc[x]  BY <2>3
  <2> QED BY <2>1, <2>2, <2>3, <2>4, QuietStep DEF Stopped
<1>6. CASE NextIDLoopStops  BY <1>6, QuietStep DEF NextIDLoopStops, Stopped
<1>7. CASE ReadRespFails
  <2>1. Stopped => Stopped'  BY <1>7 DEF ReadRespFails, SetStop, Closed, Stopped
  <2> QED BY <1>7, <2>1, QuietStep DEF ReadRespFails
<1>8. CASE PeerLeaves  BY <1>8, QuietStep DEF PeerLeaves, Stopped
<1>9. CASE UNCHANGED vars  BY <1>9, QuietStep DEF vars, Stopped
<1>10. ASSUME NEW q \in Closers, Close(q) PROVE InFlight'
  <2>1. Stopped => Stopped'  BY <1>10 DEF Close, SetStop, Closed, Stopped
  <2> QED BY <1>10, <2>1, QuietStep DEF Close
<1>11. ASSUME NEW q \in Closers, CloseTransport(q) PROVE InFlight'
  BY <1>11, QuietStep DEF CloseTransport, Stopped
<1> QED BY <1>1, <1>2, <1>3, <1>4, <1>5, <1>6, <1>7, <1>8, <1>9, <1>10, <1>11

\* respWaiter registers an ID that nothing under way has.
LEMMA RegisterStep ==
    ASSUME Inv, InFlight, NEW p \in Callers, RespWaiter(p)
    PROVE  InFlight'
<1> USE DEF Inv, InFlight, readVars, stopVars, sockVars
<1>1. /\ cid[p] \in ID /\ respc[cid[p]] = None /\ ~Stopped /\ ack[p]
      /\ p \notin Registered /\ rc # p /\ pc[p] = "register"
  BY DEF RespWaiter, TypeOK, StopInv, Waiters, AckedPhases, HeldOpen, Registered
<1>2. /\ UNCHANGED <<stop, rd, rc, msg, inbox, net, cid, ack>>
      /\ respc' = [respc EXCEPT ![cid[p]] = p]
      /\ pc' = [pc EXCEPT ![p] = "write"]
      /\ chan' = [chan EXCEPT ![p] = "open"]
  BY DEF RespWaiter
<1>3. /\ \A i \in ID : i # cid[p] => respc'[i] = respc[i]
      /\ respc'[cid[p]] = p
      /\ \A x \in Callers : x # p => pc'[x] = pc[x] /\ chan'[x] = chan[x]
      /\ pc'[p] = "write" /\ chan'[p] = "open"
  BY <1>1, <1>2 DEF TypeOK
<1>4. Registered' = Registered \cup {p}  BY <1>1, <1>2 DEF Registered, TypeOK
<1>5. ASSUME NEW r, r.id \in ID, InFlightOK(r)
      PROVE  r.id # cid[p] /\ respc'[r.id] = respc[r.id] /\ InFlightOK(r)'
  <2>1. r.id # cid[p] /\ respc'[r.id] = respc[r.id]  BY <1>1, <1>3, <1>5 DEF InFlightOK
  <2>2. respc[r.id] # None => r.from \in Callers /\ r.from # p
    <3>1. respc[r.id] \in Callers \cup {None}  BY <1>5 DEF TypeOK
    <3> QED BY <1>1, <1>5, <3>1 DEF InFlightOK
  <2> HIDE DEF Inv, InFlight
  <2>3. InFlightOK(r)'  BY <1>2, <1>3, <1>5, <2>1, <2>2 DEF InFlightOK, Stopped
  <2> QED BY <2>1, <2>3
<1>6. InboxOK'  BY <1>2, <1>5, InFlightTypes DEF InboxOK
<1>7. \A k \in DOMAIN net : net[k].ack /\ respc'[net[k].id] = respc[net[k].id]
                            /\ InFlightOK(net[k])'
  BY <1>2, <1>5, InFlightTypes DEF NetOK
<1>8. NetOK'  BY <1>2, <1>7 DEF NetOK, InFlightOK
<1>9. NoTwins'  BY <1>2, <1>7 DEF NoTwins
<1>10. HeldOK'  BY <1>1, <1>2 DEF HeldOK, TypeOK
<1>11. WaitOK'
  <2> SUFFICES ASSUME NEW x \in Registered'
               PROVE  /\ chan'[x] = "open" \/ Stopped'
                      /\ pc'[x] # "wait" => respc'[cid[x]] = x
                                            \/ (Stopped' /\ respc'[cid[x]] = None)
    BY <1>2 DEF WaitOK
  <2>1. CASE x = p  BY <1>3, <2>1
  <2>2. CASE x # p
    <3>1. x \in Registered /\ x \in Callers /\ cid[x] \in ID
      BY <1>4, <2>2 DEF Registered, TypeOK
    <3> QED BY <1>1, <1>2, <1>3, <2>2, <3>1 DEF WaitOK, Stopped
  <2> QED BY <2>1, <2>2
<1> QED BY <1>6, <1>8, <1>9, <1>10, <1>11

\* A request that wants a response is written while its ID is registered.
LEMMA WriteStep ==
    ASSUME Inv, InFlight, NEW p \in Callers, WriteTo(p)
    PROVE  InFlight'
<1> USE DEF Inv, InFlight, readVars, stopVars, sockVars
<1> DEFINE w == [id |-> cid[p], from |-> p, ack |-> ack[p]]
<1>1. /\ UNCHANGED <<stop, respc, chan, rd, rc, msg, net, cid, ack>>
      /\ cid[p] \in ID /\ pc[p] = "write" /\ inbox' \subseteq inbox \cup {w}
      /\ pc' = [pc EXCEPT ![p] = IF ack[p] THEN "wait" ELSE "idle"]
  BY DEF WriteTo, Written, Return, TypeOK
<1>2. \A x \in Callers : x # p => pc'[x] = pc[x]  BY <1>1 DEF TypeOK
<1>3. ack[p] => pc'[p] = "wait"  BY <1>1 DEF TypeOK
<1>4. Registered' = Registered  BY <1>1, <1>2, <1>3 DEF Registered, TypeOK
<1>5. ack[p] => \/ respc[cid[p]] = p
                \/ Stopped /\ respc[cid[p]] = None
  BY <1>1 DEF WaitOK, Registered
<1>6. ASSUME NEW r, r.id \in ID, r.from \in Callers, InFlightOK(r) PROVE InFlightOK(r)'
  BY <1>1, <1>2, <1>6 DEF InFlightOK, Stopped
<1>7. w.ack => InFlightOK(w)'  BY <1>1, <1>3, <1>5 DEF InFlightOK, Stopped
<1>8. InboxOK'
  <2>1. \A r \in inbox : r.ack => InFlightOK(r)'  BY <1>6, InFlightTypes DEF InboxOK
  <2> QED BY <1>1, <1>7, <2>1 DEF InboxOK
<1>9. NetOK'
  <2>1. \A k \in DOMAIN net : net[k].ack /\ InFlightOK(net[k])'
    BY <1>1, <1>6, InFlightTypes DEF NetOK
  <2> QED BY <1>1, <2>1 DEF NetOK, InFlightOK
<1>10. NoTwins'
  <2>1. ASSUME NEW k \in DOMAIN net, ack[p], net[k].id = cid[p] PROVE respc[cid[p]] = None
    BY <1>1, <1>5, <2>1 DEF NetOK, InFlightOK
  <2> QED BY <1>1, <2>1 DEF NoTwins
<1>11. HeldOK'  BY <1>1, <1>2 DEF HeldOK, TypeOK
<1>12. WaitOK'
  BY <1>1, <1>2, <1>3, <1>4 DEF WaitOK, Stopped, Registered
<1> QED BY <1>8, <1>9, <1>10, <1>11, <1>12

\* releaseWaiter gives up an ID that nothing under way has.
LEMMA ReleaseStep ==
    ASSUME Inv, InFlight, NEW p \in Callers, ReleaseWaiter(p)
    PROVE  InFlight'
<1> USE DEF Inv, InFlight, sockVars
<1>1. /\ UNCHANGED <<stop, rd, msg, inbox, net, cid, ack>>
      /\ cid[p] \in ID /\ pc[p] = "release" /\ p \in Registered
      /\ pc' = [pc EXCEPT ![p] = "idle"]
  BY DEF ReleaseWaiter, Return, TypeOK, Waiters, AckedPhases, Registered
<1>2. \A x \in Callers : x # p => pc'[x] = pc[x]  BY <1>1 DEF TypeOK
<1>3. Registered' = Registered \ {p}  BY <1>1 DEF Registered, TypeOK
<1>4. rc' = rc /\ rc # p
  BY <1>1 DEF ReleaseWaiter, HeldOK, Waiters, HeldOpen
<1>5. respc[cid[p]] = p \/ (Stopped /\ respc[cid[p]] = None)
  BY <1>1 DEF WaitOK
<1>6. /\ \A i \in ID : i # cid[p] => respc'[i] = respc[i]
      /\ respc'[cid[p]] = None
  BY <1>1 DEF ReleaseWaiter, TypeOK
<1>7. \A x \in Callers : x # p => chan'[x] = chan[x]
  <2>1. CASE respc[cid[p]] # None
    <3>1. CloseChans({p})  BY <1>5, <2>1 DEF ReleaseWaiter
    <3> HIDE DEF Inv, InFlight
    <3> QED BY <3>1 DEF CloseChans
  <2>2. CASE respc[cid[p]] = None
    <3>1. chan' = chan  BY <2>2 DEF ReleaseWaiter
    <3> QED BY <3>1
  <2> QED BY <2>1, <2>2
<1>8. ASSUME NEW r, r.id \in ID, r.from \in Callers, InFlightOK(r) PROVE InFlightOK(r)'
  <2>1. r.id = cid[p] => Stopped /\ respc[r.id] = None
    BY <1>1, <1>5, <1>8 DEF InFlightOK
  <2> QED BY <1>1, <1>2, <1>6, <1>8, <2>1 DEF InFlightOK, Stopped, Waiters, RespcOpen
<1>9. InboxOK'  BY <1>1, <1>8, InFlightTypes DEF InboxOK
<1>10. NetOK'
  <2>1. \A k \in DOMAIN net : net[k].ack /\ InFlightOK(net[k])'
    BY <1>1, <1>8, InFlightTypes DEF NetOK
  <2> QED BY <1>1, <2>1 DEF NetOK, InFlightOK
<1>11. NoTwins'
  <2>1. \A i \in ID : respc[i] = None => respc'[i] = None  BY <1>6
  <2> QED BY <1>1, <2>1, InFlightTypes DEF NoTwins
<1>12. HeldOK'  BY <1>1, <1>2, <1>4 DEF HeldOK, TypeOK
<1>13. WaitOK'
  <2> SUFFICES ASSUME NEW x \in Registered, x # p
               PROVE  /\ chan'[x] = "open" \/ Stopped'
                      /\ pc'[x] # "wait" => respc'[cid[x]] = x
                                            \/ (Stopped' /\ respc'[cid[x]] = None)
    BY <1>1, <1>3 DEF WaitOK
  <2>1. x \in Callers /\ cid[x] \in ID  BY DEF Registered, TypeOK
  <2>2. /\ chan[x] = "open" \/ Stopped
        /\ pc[x] # "wait" => respc[cid[x]] = x \/ (Stopped /\ respc[cid[x]] = None)
    BY DEF WaitOK
  <2>3. Stopped' = Stopped  BY <1>1 DEF Stopped
  <2>4. pc'[x] = pc[x] /\ chan'[x] = chan[x]  BY <1>2, <1>7, <2>1
  <2> HIDE DEF Inv, InFlight
  <2> QED BY <1>5, <1>6, <2>1, <2>2, <2>3, <2>4
<1> QED BY <1>9, <1>10, <1>11, <1>12, <1>13

\* readRespLoop takes a response, and with it the only thing under way that
\* has its ID.
LEMMA ReadStep ==
    ASSUME Inv, InFlight, ReadResp
    PROVE  InFlight'
<1> USE DEF Inv, InFlight, callVars, stopVars
<1> DEFINE m == Head(net)
<1>1. /\ UNCHANGED <<stop, chan, inbox, pc, ack, cid>> /\ rd = "reading"
      /\ net # <<>> /\ net' = Tail(net) /\ Registered' = Registered
  BY Zenon DEF ReadResp, Registered
<1>2. 1 \in DOMAIN net /\ m = net[1] /\ m.id \in ID /\ m.from \in Callers /\ m \in Request
  <2>1. net \in Seq(Request)  BY DEF TypeOK
  <2>2. 1 \in DOMAIN net /\ m = net[1]  BY <1>1, <2>1
  <2> QED BY <2>2, InFlightTypes
<1>3. \A k \in DOMAIN net' : k + 1 \in DOMAIN net /\ k + 1 # 1 /\ net'[k] = net[k + 1]
  <2>1. net \in Seq(Request)  BY DEF TypeOK
  <2> QED BY <1>1, <2>1
<1>4. /\ \A i \in ID : i # m.id => respc'[i] = respc[i]
      /\ respc'[m.id] = None
  BY <1>2 DEF ReadResp, TypeOK
<1>5. ASSUME NEW r, r.id \in ID, InFlightOK(r), r.id = m.id => respc[m.id] = None
      PROVE  InFlightOK(r)'
  BY <1>1, <1>4, <1>5 DEF InFlightOK, Stopped
<1>6. InboxOK'
  <2> SUFFICES ASSUME NEW r \in inbox, r.ack PROVE InFlightOK(r)'
    BY <1>1 DEF InboxOK
  <2>1. r.id = m.id => respc[m.id] = None  BY <1>2 DEF NoTwins
  <2> QED BY <1>5, <2>1, InFlightTypes DEF InboxOK
<1>7. NetOK'
  <2> SUFFICES ASSUME NEW k \in DOMAIN net' PROVE net[k + 1].ack /\ (InFlightOK(net[k]))'
    BY <1>3 DEF NetOK
  <2>1. net[k + 1].id = m.id => respc[m.id] = None  BY <1>2, <1>3 DEF NoTwins
  <2>2. net[k + 1].ack /\ InFlightOK(net[k + 1])  BY <1>3 DEF NetOK
  <2> QED BY <1>3, <1>5, <2>1, <2>2, InFlightTypes
<1>8. NoTwins'
  <2>1. \A i \in ID : respc[i] = None => respc'[i] = None  BY <1>4
  <2>2. ASSUME NEW k \in DOMAIN net', NEW r \in inbox, r.ack, r.id = net'[k].id
        PROVE  respc'[r.id] = None
    <3>1. k + 1 \in DOMAIN net /\ r.id = net[k + 1].id  BY <1>3, <2>2
    <3>2. respc[r.id] = None  BY <2>2, <3>1 DEF NoTwins
    <3>3. r.id \in ID  BY <2>2, InFlightTypes
    <3> HIDE DEF Inv, InFlight
    <3> QED BY <2>1, <3>2, <3>3
  <2>3. ASSUME NEW k \in DOMAIN net', NEW j \in DOMAIN net', j # k, net'[j].id = net'[k].id
        PROVE  respc'[net'[k].id] = None
    <3>1. j \in Int /\ k \in Int
      <4>1. net' \in Seq(Request)  BY <1>1 DEF TypeOK
      <4> QED BY <4>1
    <3>2. j + 1 # k + 1  BY <2>3, <3>1
    <3>3. /\ k + 1 \in DOMAIN net /\ j + 1 \in DOMAIN net
          /\ net'[k] = net[k + 1] /\ net[j + 1].id = net[k + 1].id
      BY <1>3, <2>3
    <3>4. respc[net[k + 1].id] = None  BY <3>2, <3>3 DEF NoTwins
    <3>5. net[k + 1].id \in ID  BY <3>3, InFlightTypes
    <3> HIDE DEF Inv, InFlight
    <3> QED BY <2>1, <3>3, <3>4, <3>5
  <2> QED BY <1>1, <2>2, <2>3 DEF NoTwins
<1>9. HeldOK'
  <2>1. CASE respc[m.id] = None
    BY <1>1, <2>1 DEF ReadResp, HeldOK, readVars
  <2>2. CASE respc[m.id] # None
    <3>1. rc' = respc[m.id] /\ msg' = m  BY <2>2, Zenon DEF ReadResp
    <3>2. m.ack /\ respc[m.id] = m.from /\ pc[m.from] = "wait"
      BY <1>2, <2>2 DEF NetOK, InFlightOK
    <3>3. cid[m.from] = m.id  BY <1>2, <2>2, <3>2 DEF Waiters, RespcOpen
    <3>4. m = [id |-> m.id, from |-> m.from, ack |-> TRUE]
      BY <1>2, <3>2 DEF Request
    <3> QED BY <1>1, <1>2, <2>2, <3>1, <3>2, <3>3, <3>4, ZenonT(30) DEF HeldOK
  <2> QED BY <2>1, <2>2
<1>10. WaitOK'
  <2> SUFFICES ASSUME NEW x \in Registered, pc[x] # "wait"
               PROVE  respc'[cid[x]] = x \/ (Stopped /\ respc'[cid[x]] = None)
    BY <1>1 DEF WaitOK, Stopped
  <2>1. x \in Callers /\ cid[x] \in ID  BY DEF Registered, TypeOK
  <2>2. cid[x] = m.id => Stopped
    BY <1>2 DEF WaitOK, NetOK, InFlightOK
  <2> QED BY <1>4, <2>1, <2>2 DEF WaitOK
<1> QED BY <1>6, <1>7, <1>8, <1>9, <1>10

\* The reader gives its response to the goroutine that waits for it.
LEMMA DeliverStep ==
    ASSUME Inv, InFlight, Deliver
    PROVE  InFlight'
<1> USE DEF Inv, InFlight, stopVars, sockVars
<1>1. /\ UNCHANGED <<stop, respc, inbox, net, ack, cid>>
      /\ rc \in Callers /\ rc # None /\ rd' = "reading"
      /\ pc' = [pc EXCEPT ![rc] = "idle"]
      /\ \A x \in Callers : x # rc => chan'[x] = chan[x]
  BY DEF Deliver, Return, CloseChans, TypeOK
<1>2. \A x \in Callers : x # rc => pc'[x] = pc[x]  BY <1>1 DEF TypeOK
<1>3. Registered' = Registered \ {rc}  BY <1>1 DEF Registered, TypeOK
<1>4. \A i \in ID : respc[i] # rc
  BY <1>1 DEF Waiters, RespcOpen, HeldOpen
<1>5. ASSUME NEW r, r.id \in ID, r.from \in Callers, InFlightOK(r) PROVE InFlightOK(r)'
  BY <1>1, <1>2, <1>4, <1>5 DEF InFlightOK, Stopped
<1>6. InboxOK'  BY <1>1, <1>5, InFlightTypes DEF InboxOK
<1>7. NetOK'
  <2>1. \A k \in DOMAIN net : net[k].ack /\ InFlightOK(net[k])'
    BY <1>1, <1>5, InFlightTypes DEF NetOK
  <2> QED BY <1>1, <2>1 DEF NetOK, InFlightOK
<1>8. NoTwins'  BY <1>1 DEF NoTwins
<1>9. HeldOK'   BY <1>1 DEF HeldOK
<1>10. WaitOK'  BY <1>1, <1>2, <1>3 DEF WaitOK, Stopped, Registered
<1> QED BY <1>6, <1>7, <1>8, <1>9, <1>10

\* The reader gives up its response, or all of respc: the connection stopped.
LEMMA GiveUpStep ==
    ASSUME Inv, InFlight, DeliverStops \/ Drain
    PROVE  InFlight'
<1> USE DEF Inv, InFlight, callVars, sockVars
<1>1. /\ UNCHANGED <<stop, inbox, net, pc, ack, cid>> /\ rd' # "delivering"
      /\ Stopped /\ Stopped' /\ Registered' = Registered
  BY DEF DeliverStops, Drain, StopInv, Stopped, Registered
<1>2. respc' = respc \/ \A i \in ID : respc'[i] = None
  BY DEF DeliverStops, Drain
<1>3. ASSUME NEW r, r.id \in ID, InFlightOK(r) PROVE InFlightOK(r)'
  BY <1>1, <1>2, <1>3 DEF InFlightOK
<1>4. InboxOK'  BY <1>1, <1>3, InFlightTypes DEF InboxOK
<1>5. NetOK'
  <2>1. \A k \in DOMAIN net : net[k].ack /\ InFlightOK(net[k])'
    BY <1>1, <1>3, InFlightTypes DEF NetOK
  <2> QED BY <1>1, <2>1 DEF NetOK, InFlightOK
<1>6. NoTwins'
  <2>1. \A i \in ID : respc[i] = None => respc'[i] = None  BY <1>2
  <2>2. /\ \A x \in inbox : x.id \in ID
        /\ \A k \in DOMAIN net : net[k].id \in ID
    BY InFlightTypes
  <2>3. NoTwins  OBVIOUS
  <2> HIDE DEF Inv, InFlight
  <2> QED BY <1>1, <2>1, <2>2, <2>3 DEF NoTwins
<1>7. HeldOK'   BY <1>1 DEF HeldOK
<1>8. WaitOK'
  <2>1. \A x \in Registered : cid[x] \in ID  BY DEF Registered, TypeOK
  <2> QED BY <1>1, <1>2, <2>1 DEF WaitOK
<1> QED BY <1>4, <1>5, <1>6, <1>7, <1>8

\* A server that answers only who waits puts one response per ID on the way.
LEMMA AnswerStep ==
    ASSUME Inv, InFlight, Answered \subseteq {TRUE}, NEW r \in inbox, Answer(r)
    PROVE  InFlight'
<1> USE DEF Inv, InFlight, callVars, readVars, stopVars
<1>1. /\ UNCHANGED <<stop, respc, chan, rd, rc, msg, pc, ack, cid>>
      /\ inbox' = inbox \ {r} /\ Registered' = Registered
  BY DEF Answer, Registered
<1>2. InboxOK' /\ HeldOK' /\ WaitOK'
  BY <1>1 DEF InboxOK, InFlightOK, HeldOK, WaitOK, Stopped
<1>3. CASE UNCHANGED net  BY <1>1, <1>2, <1>3, ZenonT(30) DEF NetOK, InFlightOK, NoTwins, Stopped
<1>4. CASE net' = Append(net, r) /\ r.ack
  <2>1. /\ net \in Seq(Request) /\ r \in Request /\ r.id \in ID
        /\ Len(net) \in Nat /\ DOMAIN net = 1 .. Len(net)
    <3>1. net \in Seq(Request)  BY DEF TypeOK
    <3>2. r \in Request /\ r.id \in ID  BY InFlightTypes
    <3> HIDE DEF Inv, InFlight
    <3> QED BY <3>1, <3>2
  <2>2. \A k \in DOMAIN net' : \/ k \in DOMAIN net /\ net'[k] = net[k]
                               \/ k = Len(net) + 1 /\ net'[k] = r
    BY <1>4, <2>1
  <2>3. \A x : InFlightOK(x) => InFlightOK(x)'  BY <1>1 DEF InFlightOK, Stopped
  <2>4. NetOK'
    <3> SUFFICES ASSUME NEW k \in DOMAIN net' PROVE net'[k].ack /\ InFlightOK(net[k])'
      BY DEF NetOK
    <3> QED BY <1>4, <2>2, <2>3 DEF NetOK, InboxOK
  <2>5. ASSUME NEW x \in inbox, x # r, x.ack, x.id = r.id PROVE respc[r.id] = None
    <3>1. x.from # r.from
      <4>1. x \in Request  BY InFlightTypes
      <4>2. x = [id |-> x.id, from |-> x.from, ack |-> x.ack]  BY <4>1 DEF Request
      <4>3. r = [id |-> r.id, from |-> r.from, ack |-> r.ack]  BY <2>1 DEF Request
      <4> QED BY <1>4, <2>5, <4>1, <4>2, <4>3, <2>1 DEF Request
    <3>2. InFlightOK(x) /\ InFlightOK(r)  BY <1>4, <2>5 DEF InboxOK
    <3> QED BY <2>5, <3>1, <3>2 DEF InFlightOK
  <2>6. \A k \in DOMAIN net : net[k].id = r.id => respc[r.id] = None
    BY <1>4 DEF NoTwins
  <2>7. NoTwins'
    <3>1. NoTwins  OBVIOUS
    <3>2. \A x \in inbox : x # r /\ x.ack /\ x.id = r.id => respc[r.id] = None  BY <2>5
    <3>3. \A k \in DOMAIN net', x \in inbox' : x.ack /\ x.id = net'[k].id => respc[x.id] = None
      <4> TAKE k \in DOMAIN net', x \in inbox'
      <4>1. x \in inbox /\ x # r  BY <1>1
      <4>2. CASE k \in DOMAIN net /\ net'[k] = net[k]  BY <3>1, <4>1, <4>2 DEF NoTwins
      <4>3. CASE net'[k] = r  BY <3>2, <4>1, <4>3
      <4> QED BY <2>2, <4>2, <4>3
    <3>4. \A k, j \in DOMAIN net' : j # k /\ net'[j].id = net'[k].id => respc[net'[k].id] = None
      <4> TAKE k, j \in DOMAIN net'
      <4>1. CASE k \in DOMAIN net /\ net'[k] = net[k] /\ j \in DOMAIN net /\ net'[j] = net[j]
        BY <3>1, <4>1 DEF NoTwins
      <4>2. CASE k \in DOMAIN net /\ net'[k] = net[k] /\ net'[j] = r  BY <2>6, <4>2
      <4>3. CASE net'[k] = r /\ j \in DOMAIN net /\ net'[j] = net[j]  BY <2>6, <4>3
      <4>4. CASE k = Len(net) + 1 /\ j = Len(net) + 1  BY <4>4
      <4> QED BY <2>2, <4>1, <4>2, <4>3, <4>4
    <3> QED BY <1>1, <3>3, <3>4 DEF NoTwins
  <2> QED BY <1>2, <2>4, <2>7
<1> QED BY <1>3, <1>4, Zenon DEF Answer

\* Every step keeps what is under way in order.
LEMMA InFlightStep ==
    ASSUME Inv, InFlight, Answered \subseteq {TRUE}, [Next]_vars
    PROVE  InFlight'
<1>1. TypeOK'  BY TypeStep DEF Inv
<1> QED BY <1>1, QuietSteps, RegisterStep, WriteStep, ReleaseStep, ReadStep, DeliverStep,
           GiveUpStep, AnswerStep, Zenon DEF Next, Caller, Reader

-----------------------------------------------------------------------------
(* Responses and the promise.                                              *)

\* The only step that returns a nil error to a goroutine that wants a response
\* is the delivery of its response.
LEMMA OwnStep ==
    ASSUME Inv, InFlight, OwnResponse, [Next]_vars
    PROVE  OwnResponse'
<1>t. /\ pc \in [Callers -> {"idle", "id", "register", "write", "wait", "release"}]
      /\ ack \in [Callers -> BOOLEAN] /\ cid \in [Callers -> ID \cup {None}]
      /\ res \in [Callers -> Result]
  BY DEF Inv, TypeOK
<1> USE DEF Inv, OwnResponse, callVars
<1>1. ASSUME NEW p \in Callers, NEW e, e # None \/ ~ack[p], Return(p, None, e)
      PROVE  OwnResponse'
  BY <1>t, <1>1 DEF Return
<1>2. ASSUME NEW p \in Callers, NEW a \in Kinds[p], Call(p, a) PROVE OwnResponse'
  BY <1>t, <1>2 DEF Call, Unset
<1>3. ASSUME NEW p \in Callers, HandID(p) PROVE OwnResponse'
  BY <1>t, <1>3 DEF HandID
<1>4. ASSUME NEW p \in Callers, NoMoreIDs(p) PROVE OwnResponse'
  <2>1. stopErr # None  BY <1>4 DEF NoMoreIDs, StopInv
  <2> QED BY <1>1, <1>4, <2>1 DEF NoMoreIDs
<1>5. ASSUME NEW p \in Callers, RespWaiterFails(p) PROVE OwnResponse'
  BY <1>1, <1>5 DEF RespWaiterFails
<1>6. ASSUME NEW p \in Callers, RespWaiter(p) PROVE OwnResponse'
  BY <1>t, <1>6 DEF RespWaiter
<1>7. ASSUME NEW p \in Callers, WriteTo(p) \/ WriteToFails(p) PROVE OwnResponse'
  <2>1. CASE ack[p]  BY <1>t, <1>7, <2>1 DEF WriteTo, WriteToFails, Written
  <2>2. CASE ~ack[p]
    <3>1. \E e : Return(p, None, e)  BY <1>7, <2>2 DEF WriteTo, WriteToFails, Written
    <3> QED BY <1>1, <2>2, <3>1
  <2> QED BY <2>1, <2>2
<1>8. ASSUME NEW p \in Callers, ReleaseWaiter(p) PROVE OwnResponse'
  BY <1>1, <1>8 DEF ReleaseWaiter
<1>9. ASSUME NEW p \in Callers, RecvClosed(p) PROVE OwnResponse'
  <2>1. p \in Registered  BY <1>9 DEF RecvClosed, Waiters, AckedPhases, Registered
  <2>2. stopErr # None  BY <1>9, <2>1 DEF RecvClosed, InFlight, WaitOK, StopInv
  <2> QED BY <1>1, <1>9, <2>2 DEF RecvClosed
<1>10. CASE Deliver
  <2>1. msg = [id |-> cid[rc], from |-> rc, ack |-> TRUE]
    BY <1>10 DEF Deliver, InFlight, HeldOK
  <2>2. /\ rc \in Callers /\ UNCHANGED <<ack, cid>>
        /\ pc' = [pc EXCEPT ![rc] = "idle"]
        /\ res' = [res EXCEPT ![rc] = [resp |-> msg, err |-> None]]
    BY <1>10 DEF Deliver, Return, TypeOK
  <2> QED BY <1>t, <2>1, <2>2, Zenon
<1>11. CASE UNCHANGED callVars  BY <1>11
<1>12. \/ UNCHANGED callVars \/ Deliver
       \/ \E p \in Callers : Caller(p) \/ \E a \in Kinds[p] : Call(p, a)
  BY ZenonT(30) DEF Next, Reader, vars, NextIDLoopStops, ReadResp, ReadRespFails, DeliverStops,
         Drain, Close, CloseTransport, Answer, PeerLeaves
<1> QED BY <1>2, <1>3, <1>4, <1>5, <1>6, <1>7, <1>8, <1>9, <1>10, <1>11, <1>12 DEF Caller

\* OwnInv holds with a server that answers only who waits.
LEMMA OwnInvHolds == Answered \subseteq {TRUE} => (Spec => []OwnInv)
<1> SUFFICES ASSUME Answered \subseteq {TRUE} PROVE Spec => []OwnInv  BY Zenon
<1>1. Init => InFlight /\ OwnResponse
  <2> SUFFICES ASSUME Init PROVE InFlight /\ OwnResponse  OBVIOUS
  <2>1. Registered = {}  BY DEF Init, Registered
  <2>2. InboxOK /\ NetOK /\ NoTwins
    <3>1. inbox = {} /\ net = <<>>  BY DEF Init
    <3>2. DOMAIN net = {}  BY <3>1
    <3> QED BY <3>1, <3>2, Zenon DEF InboxOK, NetOK, NoTwins
  <2>3. HeldOK
    <3>1. rd = "reading"  BY DEF Init
    <3> QED BY <3>1 DEF HeldOK
  <2>4. WaitOK  BY <2>1 DEF WaitOK
  <2>5. OwnResponse  BY DEF Init, OwnResponse, Unset
  <2> QED BY <2>2, <2>3, <2>4, <2>5 DEF InFlight
<1>2. OwnInv /\ [Next]_vars => OwnInv'
  BY TypeStep, StopStep, WaitersStep, DoubleCloseStep, InFlightStep, OwnStep, Zenon DEF OwnInv, Inv
<1>3. Init => OwnInv  BY InvInit, <1>1 DEF OwnInv
<1> QED BY <1>2, <1>3, PTL DEF Spec

\* With a server that answers no request that wants no response, a call that
\* returns no error returns the response to its own request, for any number
\* of goroutines and however often the correlation IDs wrap around.
THEOREM ResponsesAreOwn == Answered \subseteq {TRUE} => (Spec => []OwnResponse)
<1> SUFFICES ASSUME Answered \subseteq {TRUE} PROVE Spec => []OwnResponse  BY Zenon
<1>1. OwnInv => OwnResponse  BY DEF OwnInv
<1> QED BY OwnInvHolds, <1>1, PTL

-----------------------------------------------------------------------------
(* The connection implements RequestReply.                                 *)

Pending == {p \in Callers : pc[p] # "idle"}
Doomed == [p \in Callers |-> began[p] # "open"]
Outcomes == [p \in Callers |-> Outcome(p)]

\* A call that returns ends in RequestReply with the outcome of its result.
LEMMA ReturnEnds ==
    ASSUME TypeOK, NEW p \in Callers, NEW resp, NEW err, pc[p] # "idle",
           Return(p, resp, err), Link' = Link, err # "unset"
    PROVE  /\ err # None => RR!End(p, "error")
           /\ err = None /\ ~ack[p] => RR!End(p, "sent")
           /\ err = None /\ ack[p] /\ resp # None => RR!End(p, "reply")
<1>1. Pending' = Pending \ {p} /\ p \in Pending  BY DEF Return, TypeOK, Pending
<1>2. UNCHANGED <<ack, Doomed>>  BY DEF Return, Doomed
<1>3. ASSUME NEW o, o = Outcome(p)' PROVE Outcomes' = [Outcomes EXCEPT ![p] = o]
  <2>1. \A x \in Callers : x # p => Outcome(x)' = Outcome(x)
    BY DEF Return, TypeOK, Outcome
  <2> QED BY <1>3, <2>1, Zenon DEF Outcomes
<1>4. res'[p].err = err /\ res'[p].resp = resp /\ ack' = ack  BY DEF Return, TypeOK
<1>5. /\ err # None => Outcome(p)' = "error"
      /\ err = None /\ ~ack[p] => Outcome(p)' = "sent"
      /\ err = None /\ ack[p] /\ resp # None => Outcome(p)' = "reply"
  BY <1>4 DEF Outcome
<1>6. ASSUME NEW o, Outcome(p)' = o PROVE RR!End(p, o)
  BY <1>1, <1>2, <1>3, <1>6 DEF RR!End, Pending, Doomed, Outcomes
<1> QED BY <1>5, <1>6

\* A step that changes nothing RequestReply speaks of.
LEMMA Invisible ==
    ASSUME Pending' = Pending, UNCHANGED <<ack, began, res>>, Link' = Link
    PROVE  UNCHANGED RR!vars
BY DEF Pending, RR!vars, Outcome

\* The link only gets worse.
LEMMA LinkStep ==
    ASSUME Pending' = Pending, UNCHANGED <<ack, began, res>>,
           \/ Link' = Link \/ Link' = "stopped" \/ (Link = "up" /\ Link' = "failing")
    PROVE  RR!Next \/ UNCHANGED RR!vars
<1>1. CASE Link' = Link  BY <1>1, Invisible
<1>2. CASE Link' # Link
  <2>1. Link \in {"up", "failing", "stopped"}  BY DEF Link
  <2>2. RR!Degrade  BY <1>2, <2>1 DEF RR!Degrade, Pending, Outcome
  <2> QED BY <2>2 DEF RR!Next
<1> QED BY <1>1, <1>2

\* The steps of a goroutine inside sendRequest.
LEMMA CallerPromise ==
    ASSUME OwnInv, NEW p \in Callers, Caller(p)
    PROVE  RR!Next \/ UNCHANGED RR!vars
<1> USE DEF OwnInv, Inv, callVars, readVars, stopVars, sockVars
<1>1. ASSUME NEW e, Return(p, None, e), e # None, e # "unset", pc[p] # "idle", Link' = Link,
             Link # "up" \/ Pending # {p}
      PROVE  RR!Next
  <2>1. RR!End(p, "error")  BY <1>1, ReturnEnds
  <2>2. RR!Fail(p)  BY <1>1, <2>1 DEF RR!Fail, Pending
  <2> QED BY <2>2 DEF RR!Next
<1>2. ASSUME Return(p, None, None), ~ack[p], pc[p] # "idle", Link' = Link PROVE RR!Next
  <2>1. RR!End(p, "sent")  BY <1>2, ReturnEnds
  <2>2. RR!Sent(p)  BY <1>2, <2>1 DEF RR!Sent
  <2> QED BY <2>2 DEF RR!Next
<1>3. Stopped => Link = "stopped"  BY DEF Link
<1>4. stopErr # "unset"  BY DEF TypeOK
<1>5. UNCHANGED <<stop, rw>> => Link' = Link  BY DEF Link, Stopped
<1>6. "ErrWrapped" # None /\ "ErrConflict" # None /\ "ErrWrite" # None  OBVIOUS
<1>7. CASE HandID(p)
  <2>1. Pending' = Pending  BY <1>7 DEF HandID, TypeOK, Pending
  <2> QED BY <1>5, <1>7, <2>1, Invisible DEF HandID
<1>8. CASE NoMoreIDs(p)
  <2>1. stopErr # None /\ Stopped  BY <1>8 DEF NoMoreIDs, StopInv
  <2> QED BY <1>1, <1>3, <1>4, <1>5, <1>8, <2>1 DEF NoMoreIDs
<1>9. CASE RespWaiterFails(p)
  <2>1. pc[p] # "idle" /\ Link' = Link  BY <1>5, <1>9 DEF RespWaiterFails
  <2>2. CASE stopErr # None
    <3>1. Link # "up"  BY <1>3, <2>2 DEF StopInv
    <3>2. Return(p, None, "ErrWrapped")  BY <1>9, <2>2 DEF RespWaiterFails
    <3> QED BY <1>1, <1>6, <2>1, <3>1, <3>2
  <2>3. CASE stopErr = None
    <3>1. Return(p, None, "ErrConflict")  BY <1>9, <2>3 DEF RespWaiterFails
    <3>2. cid[p] \in ID /\ respc[cid[p]] # None  BY <1>9, <2>3 DEF RespWaiterFails, TypeOK
    <3>3. respc[cid[p]] \in Registered  BY <3>2 DEF Waiters, RespcOpen
    <3>4. respc[cid[p]] \in Pending /\ respc[cid[p]] # p
      BY <1>9, <3>3 DEF RespWaiterFails, Registered, Pending
    <3>5. Pending # {p}  BY <3>4
    <3> QED BY <1>1, <1>6, <2>1, <3>1, <3>5
  <2> QED BY <2>2, <2>3
<1>10. CASE RespWaiter(p)
  <2>1. Pending' = Pending  BY <1>10 DEF RespWaiter, TypeOK, Pending
  <2> QED BY <1>5, <1>10, <2>1, Invisible DEF RespWaiter
<1>11. CASE WriteTo(p)
  <2>1. Link' = Link /\ pc[p] # "idle"  BY <1>11 DEF WriteTo, Link, Stopped
  <2>2. CASE ack[p]
    <3>1. Pending' = Pending  BY <1>11, <2>2 DEF WriteTo, Written, TypeOK, Pending
    <3> QED BY <1>11, <2>1, <2>2, <3>1, Invisible DEF WriteTo, Written
  <2>3. CASE ~ack[p]  BY <1>2, <1>11, <2>1, <2>3 DEF WriteTo, Written
  <2> QED BY <2>2, <2>3
<1>12. CASE WriteToFails(p)
  <2>1. Link' = Link /\ pc[p] # "idle"  BY <1>12 DEF WriteToFails, Link, Stopped
  <2>2. CASE ack[p]
    <3>1. Pending' = Pending  BY <1>12, <2>2 DEF WriteToFails, TypeOK, Pending
    <3> QED BY <1>12, <2>1, <2>2, <3>1, Invisible DEF WriteToFails
  <2>3. CASE ~ack[p]
    <3>1. Link # "up"  BY <1>12 DEF WriteToFails, Link, StopInv, TypeOK
    <3>2. Return(p, None, "ErrWrite")  BY <1>12, <2>3 DEF WriteToFails
    <3> QED BY <1>1, <1>6, <2>1, <3>1, <3>2
  <2> QED BY <2>2, <2>3
<1>13. CASE ReleaseWaiter(p)
  <2>1. Link # "up" /\ Link' = Link /\ pc[p] # "idle"
    BY <1>13 DEF ReleaseWaiter, Link, StopInv, Stopped
  <2>2. Return(p, None, "ErrWrite")  BY <1>13 DEF ReleaseWaiter
  <2> QED BY <1>1, <1>6, <2>1, <2>2
<1>14. CASE RecvClosed(p)
  <2>1. p \in Registered  BY <1>14 DEF RecvClosed, Waiters, AckedPhases, Registered
  <2>2. Stopped /\ stopErr # None
    BY <1>14, <2>1 DEF RecvClosed, InFlight, WaitOK, StopInv
  <2> QED BY <1>1, <1>3, <1>4, <1>5, <1>14, <2>2 DEF RecvClosed
<1> QED BY <1>7, <1>8, <1>9, <1>10, <1>11, <1>12, <1>13, <1>14 DEF Caller

\* With a server that answers no request that wants no response, the
\* connection implements RequestReply.
THEOREM ConnectionKeepsPromise == Answered \subseteq {TRUE} => (Spec => KeepsPromise)
<1> SUFFICES ASSUME Answered \subseteq {TRUE} PROVE Spec => KeepsPromise  BY Zenon
<1>1. Init => RR!Init
  <2> SUFFICES ASSUME Init PROVE RR!Init  OBVIOUS
  <2>1. Link = "up" /\ Pending = {}  BY DEF Init, Link, Stopped, Pending
  <2>2. Doomed = [p \in Callers |-> FALSE]  BY Zenon DEF Init, Doomed
  <2>3. Outcomes = [p \in Callers |-> "unset"]  BY DEF Init, Outcomes, Outcome, Unset
  <2> QED BY <2>1, <2>2, <2>3, Zenon DEF Init, RR!Init, Pending, Doomed, Outcomes
<1>2. OwnInv /\ [Next]_vars => [RR!Next]_(RR!vars)
  <2> SUFFICES ASSUME OwnInv, [Next]_vars PROVE RR!Next \/ UNCHANGED RR!vars
    BY DEF RR!vars
  <2> USE DEF OwnInv, Inv, callVars, readVars, stopVars, sockVars
  <2>1. ASSUME NEW p \in Callers, NEW a \in Kinds[p], Call(p, a) PROVE RR!Next
    <3>1. Pending' = Pending \cup {p} /\ p \notin Pending
      <4>1. pc[p] = "idle" /\ pc'[p] = "id" /\ \A x \in Callers : x # p => pc'[x] = pc[x]
        BY <2>1 DEF Call, TypeOK
      <4> HIDE DEF OwnInv, Inv
      <4> QED BY <4>1 DEF Pending
    <3>2. Link' = Link  BY <2>1 DEF Call, Link, Stopped
    <3>3. Doomed' = [Doomed EXCEPT ![p] = (Link = "stopped")]
      <4>1. began'[p] # "open" <=> Link = "stopped"
        BY <2>1 DEF Call, TypeOK, StopInv, Link, Stopped
      <4>2. \A x \in Callers : x # p => began'[x] = began[x]  BY <2>1 DEF Call, TypeOK
      <4> QED BY <4>1, <4>2, Zenon DEF Doomed
    <3>4. Outcomes' = [Outcomes EXCEPT ![p] = "unset"]
      <4>1. Outcome(p)' = "unset"  BY <2>1 DEF Call, TypeOK, Outcome, Unset
      <4>2. \A x \in Callers : x # p => Outcome(x)' = Outcome(x)
        BY <2>1 DEF Call, TypeOK, Outcome
      <4> QED BY <4>1, <4>2, Zenon DEF Outcomes
    <3>5. RR!Begin(p, a)
      BY <2>1, <3>1, <3>2, <3>3, <3>4 DEF Call, RR!Begin, Pending, Doomed, Outcomes
    <3>6. a \in BOOLEAN  OBVIOUS
    <3> QED BY <3>5, <3>6 DEF RR!Next
  <2>2. ASSUME NEW p \in Callers, Caller(p) PROVE RR!Next \/ UNCHANGED RR!vars
    BY <2>2, CallerPromise
  <2>3. CASE Deliver
    <3>0. PICK p \in Callers : p = rc  BY <2>3 DEF Deliver, TypeOK
    <3>1. pc[p] # "idle" /\ ack[p] /\ p \in Registered
      BY <2>3, <3>0 DEF Deliver, Waiters, HeldOpen, Registered
    <3>2. msg # None
      <4>1. msg = [id |-> cid[p], from |-> p, ack |-> TRUE] /\ cid[p] \in ID
        BY <2>3, <3>0 DEF Deliver, InFlight, HeldOK, TypeOK
      <4>2. msg \in Request  BY <4>1, RequestType, Zenon
      <4> QED BY <4>2, NilAssumption
    <3>3. Link' = Link /\ began[p] = "open"  BY <2>3, <3>1 DEF Deliver, Link, Stopped, StopInv
    <3>4. RR!End(p, "reply")
      <4>1. Return(p, msg, None)  BY <2>3, <3>0 DEF Deliver, Return
      <4>2. None # "unset"  OBVIOUS
      <4> QED BY <3>1, <3>2, <3>3, <4>1, <4>2, ReturnEnds
    <3>5. RR!Reply(p)  BY <3>1, <3>3, <3>4, Zenon DEF RR!Reply
    <3> QED BY <3>5 DEF RR!Next
  <2>4. CASE UNCHANGED callVars
    <3>1. Pending' = Pending  BY <2>4 DEF Pending
    <3>2. Stopped => Stopped'
      BY <2>4, StopStep, ZenonT(30) DEF Next, Caller, Reader, vars, Call, HandID, NoMoreIDs, RespWaiterFails,
        RespWaiter, WriteTo, WriteToFails, ReleaseWaiter, RecvClosed, NextIDLoopStops,
        ReadResp, ReadRespFails, Deliver, DeliverStops, Drain, Close, CloseTransport,
        Answer, PeerLeaves, SetStop, Closed, Stopped
    <3>3. rw' = rw \/ PeerLeaves \/ rw' = "closed"
      BY ZenonT(30) DEF Next, Caller, Reader, vars, Call, HandID, NoMoreIDs, RespWaiterFails,
        RespWaiter, WriteTo, WriteToFails, ReleaseWaiter, RecvClosed, NextIDLoopStops,
        ReadResp, ReadRespFails, Deliver, DeliverStops, Drain, Close, CloseTransport, Answer
    <3>4. StopInv'  BY StopStep
    <3>5. rw' = "closed" => Stopped'  BY <3>4 DEF StopInv
    <3>6. \/ Link' = Link \/ Link' = "stopped" \/ (Link = "up" /\ Link' = "failing")
      BY <3>2, <3>3, <3>5 DEF Link, PeerLeaves
    <3> QED BY <2>4, <3>1, <3>6, LinkStep
  <2>5. \/ UNCHANGED callVars \/ Deliver
        \/ \E p \in Callers : Caller(p) \/ \E a \in Kinds[p] : Call(p, a)
    BY DEF Next, Reader, vars, NextIDLoopStops, ReadResp, ReadRespFails, DeliverStops,
           Drain, Close, CloseTransport, Answer, PeerLeaves
  <2> QED BY <2>1, <2>2, <2>3, <2>4, <2>5
<1>3. Spec => []OwnInv  BY OwnInvHolds, Zenon
<1> QED BY <1>1, <1>2, <1>3, PTL DEF Spec, KeepsPromise, RR!Spec
=============================================================================

------------------------------ MODULE MxProofs ------------------------------
(***************************************************************************)
(* Theorems about Mx, for any finite set of consumers, any number of       *)
(* callers and any number of items.                                        *)
(***************************************************************************)
EXTENDS Mx, FiniteSetTheorems, TLAPS

USE MxAssumption DEF Item, No, Wake, Flag, Block, Last, Remaining

-----------------------------------------------------------------------------
(* The invariant.                                                          *)

\* Merge starts with nothing read, nobody parked and every worker counted.
LEMMA InvInit == Init => Inv
<1> SUFFICES ASSUME Init PROVE Inv  OBVIOUS
<1>1. Cardinality(Workers) \in Nat  BY FS_CardinalityType
<1>2. TypeOK  BY <1>1 DEF Init, TypeOK, Result
<1>3. NoDoubleClose /\ CloseSync /\ NobodyParked /\ AtMostOneLost /\ ClosedReturnsErrMxClosed
  BY DEF Init, NoDoubleClose, CloseSync, NobodyParked, AtMostOneLost,
         ClosedReturnsErrMxClosed, WorkersParked, CallersParked
<1>4. WorkersCounted
  <2>1. {w \in Workers : wpc[w] # "done"} = Workers  BY DEF Init
  <2> QED BY <2>1 DEF Init, WorkersCounted
<1> QED BY <1>2, <1>3, <1>4 DEF Inv

\* The workers that have not returned.
Alive == {w \in Workers : wpc[w] # "done"}

\* A worker that returns takes itself out of the count, and no other step
\* changes the count or who counts.
LEMMA CountStep ==
    ASSUME Inv, [Next]_vars
    PROVE  WorkersCounted' /\ workers' \in Nat
<1> USE DEF Inv, TypeOK
<1>1. ASSUME NEW w \in Workers, WorkerExits(w) PROVE WorkersCounted' /\ workers' \in Nat
  <2>1. Alive' = Alive \ {w}  BY <1>1 DEF WorkerExits, Shut, Alive
  <2>2. w \in Alive /\ IsFiniteSet(Alive)
    <3>1. w \in Alive  BY <1>1 DEF WorkerExits, Alive
    <3>2. Alive \subseteq Workers  BY DEF Alive
    <3> QED BY <3>1, <3>2, FS_Subset
  <2>3. Cardinality(Alive \ {w}) = Cardinality(Alive) - 1 /\ Cardinality(Alive \ {w}) \in Nat
    <3>1. IsFiniteSet(Alive \ {w})  BY <2>2, FS_RemoveElement
    <3> QED BY <2>2, <3>1, FS_RemoveElement, FS_CardinalityType
  <2> QED BY <1>1, <2>1, <2>3 DEF WorkersCounted, WorkerExits, Alive
<1>2. ASSUME UNCHANGED workers, Alive' = Alive PROVE WorkersCounted' /\ workers' \in Nat
  BY <1>2 DEF WorkersCounted, Alive
<1>3. ASSUME NEW w \in Workers, NEW c \in Callers, Hand(w, c), wpc[w] # "done"
      PROVE  UNCHANGED workers /\ Alive' = Alive
  BY <1>3 DEF Hand, Alive
<1>4. ASSUME NEW w \in Workers, ConsumerReturns(w) \/ ConsumerEnds(w)
      PROVE  UNCHANGED workers /\ Alive' = Alive
  BY <1>4 DEF ConsumerReturns, ConsumerEnds, Alive
<1>5. ASSUME NEW w \in Workers, WorkerSelect(w) PROVE UNCHANGED workers /\ Alive' = Alive
  <2>1. CASE \E c \in CallersParked : Hand(w, c)
    BY <1>3, <1>5, <2>1 DEF WorkerSelect, CallersParked
  <2>2. CASE ~\E c \in CallersParked : Hand(w, c)
    BY <1>5, <2>2 DEF WorkerSelect, Alive
  <2> QED BY <2>1, <2>2
<1>6. ASSUME NEW c \in Callers, ConsumeSelect(c) PROVE UNCHANGED workers /\ Alive' = Alive
  <2>1. CASE \E w \in WorkersParked : Hand(w, c)
    BY <1>3, <2>1 DEF WorkersParked
  <2>2. CASE ~\E w \in WorkersParked : Hand(w, c)
    BY <1>6, <2>2 DEF ConsumeSelect, Alive
  <2> QED BY <2>1, <2>2
<1>7. ASSUME NEW c \in Callers, Consume(c) \/ ConsumeStops(c)
      PROVE  UNCHANGED workers /\ Alive' = Alive
  BY <1>7 DEF Consume, ConsumeStops, Alive
<1>8. CASE Close
  <2>1. UNCHANGED workers /\ Alive' = Alive  BY <1>8 DEF Close, Shut, Alive
  <2> QED BY <1>2, <2>1
<1>9. CASE UNCHANGED vars
  <2>1. UNCHANGED workers /\ Alive' = Alive  BY <1>9 DEF vars, Alive
  <2> QED BY <1>2, <2>1
<1> QED BY <1>1, <1>2, <1>4, <1>5, <1>6, <1>7, <1>8, <1>9 DEF Next, Worker, Caller

\* What the steps have to keep besides the count.
Rest ==
    /\ TypeOK /\ NoDoubleClose /\ CloseSync /\ NobodyParked
    /\ AtMostOneLost /\ ClosedReturnsErrMxClosed

\* An item goes from a worker that holds it to a caller, while stop is open.
LEMMA HandStep ==
    ASSUME Inv, NEW w \in Workers, NEW c \in Callers, Hand(w, c),
           wpc[w] \in {"select", "parked"}, cpc[c] \in {"select", "parked"},
           wpc[w] = "parked" \/ cpc[c] = "parked"
    PROVE  Rest'
<1> USE DEF Inv
<1>1. stop = "open" /\ began[c] = "open" /\ read[w] = taken[w] + 1 /\ read[w] \in 1 .. MaxItems
  BY DEF NobodyParked, WorkersParked, CallersParked, CloseSync, AtMostOneLost, TypeOK
<1>2. Item(w, read[w]) \in Result  BY <1>1 DEF Result
<1>3. TypeOK'  BY <1>1, <1>2 DEF Hand, TypeOK
<1>4. NoDoubleClose' /\ CloseSync' /\ NobodyParked'
  BY <1>1 DEF Hand, TypeOK, NoDoubleClose, CloseSync, NobodyParked
<1>5. AtMostOneLost'  BY <1>1 DEF Hand, TypeOK, AtMostOneLost
<1>6. ClosedReturnsErrMxClosed'  BY <1>1 DEF Hand, TypeOK, CloseSync, ClosedReturnsErrMxClosed
<1> QED BY <1>3, <1>4, <1>5, <1>6 DEF Rest

\* stop is closed once, and nobody stays parked.
LEMMA ShutStep ==
    ASSUME Inv, closed = "no", workers' \in Nat,
           NEW after \in [Workers -> {"consume", "select", "parked", "exit", "done"}],
           \A w \in Workers : after[w] = wpc[w] \/ (wpc[w] = "exit" /\ after[w] = "done"),
           Shut(after), UNCHANGED <<read, began, res, taken>>
    PROVE  Rest'
<1> USE DEF Inv
<1>1. stop = "open" /\ stop' = "closed" /\ closed' = "yes"
  BY DEF Shut, CloseSync, NoDoubleClose, TypeOK
<1>2. TypeOK'  BY <1>1 DEF Shut, TypeOK
<1>3. NoDoubleClose' /\ CloseSync'  BY <1>1 DEF NoDoubleClose, CloseSync
<1>4. NobodyParked'  BY DEF Shut, NobodyParked, WorkersParked, CallersParked
<1>5. AtMostOneLost'  BY <1>1 DEF Shut, TypeOK, AtMostOneLost
<1>6. ClosedReturnsErrMxClosed'
  BY DEF Shut, TypeOK, ClosedReturnsErrMxClosed
<1> QED BY <1>2, <1>3, <1>4, <1>5, <1>6 DEF Rest

\* The steps that neither hand over an item nor close stop.
LEMMA RestStep ==
    ASSUME Inv, [Next]_vars
    PROVE  Rest'
<1> USE DEF Inv
<1>0. workers' \in Nat  BY CountStep
<1>1. ASSUME NEW w \in Workers, ConsumerReturns(w) PROVE Rest'
  BY <1>1 DEF ConsumerReturns, Rest, TypeOK, NoDoubleClose, CloseSync, NobodyParked,
              WorkersParked, CallersParked, AtMostOneLost, ClosedReturnsErrMxClosed
<1>2. ASSUME NEW w \in Workers, ConsumerEnds(w) PROVE Rest'
  BY <1>2 DEF ConsumerEnds, Rest, TypeOK, NoDoubleClose, CloseSync, NobodyParked,
              WorkersParked, CallersParked, AtMostOneLost, ClosedReturnsErrMxClosed
<1>3. ASSUME NEW w \in Workers, WorkerSelect(w) PROVE Rest'
  <2>1. ASSUME NEW c \in CallersParked, Hand(w, c) PROVE Rest'
    BY <1>3, <2>1, HandStep DEF WorkerSelect, CallersParked
  <2>2. CASE stop # "open" /\ wpc' = [wpc EXCEPT ![w] = "exit"]
             /\ UNCHANGED <<stop, closed, workers, read, cpc, began, res, taken>>
    BY <1>3, <2>2 DEF WorkerSelect, Rest, TypeOK, NoDoubleClose, CloseSync, NobodyParked,
              WorkersParked, CallersParked, AtMostOneLost, ClosedReturnsErrMxClosed
  <2>3. CASE stop = "open" /\ wpc' = [wpc EXCEPT ![w] = "parked"]
             /\ UNCHANGED <<stop, closed, workers, read, cpc, began, res, taken>>
    BY <1>3, <2>3 DEF WorkerSelect, Rest, TypeOK, NoDoubleClose, CloseSync, NobodyParked,
              WorkersParked, CallersParked, AtMostOneLost, ClosedReturnsErrMxClosed
  <2> QED BY <1>3, <2>1, <2>2, <2>3 DEF WorkerSelect
<1>4. ASSUME NEW w \in Workers, WorkerExits(w) PROVE Rest'
  <2>1. CASE workers = 1 /\ closed = "no"
    <3>1. [wpc EXCEPT ![w] = "done"]
            \in [Workers -> {"consume", "select", "parked", "exit", "done"}]
      BY DEF TypeOK
    <3>2. \A x \in Workers : \/ [wpc EXCEPT ![w] = "done"][x] = wpc[x]
                             \/ wpc[x] = "exit" /\ [wpc EXCEPT ![w] = "done"][x] = "done"
      BY <1>4 DEF WorkerExits, TypeOK
    <3>3. Shut([wpc EXCEPT ![w] = "done"]) /\ UNCHANGED <<read, began, res, taken>>
      BY <1>4, <2>1 DEF WorkerExits
    <3> QED BY <1>0, <2>1, <3>1, <3>2, <3>3, ShutStep
  <2>2. CASE ~(workers = 1 /\ closed = "no")
    <3>1. wpc' = [wpc EXCEPT ![w] = "done"] /\ wpc[w] = "exit"
          /\ UNCHANGED <<stop, closed, read, cpc, began, res, taken>>
      BY <1>4, <2>2 DEF WorkerExits
    <3> QED BY <1>0, <3>1 DEF Rest, TypeOK, NoDoubleClose, CloseSync, NobodyParked,
              WorkersParked, CallersParked, AtMostOneLost, ClosedReturnsErrMxClosed
  <2> QED BY <2>1, <2>2
<1>5. ASSUME NEW c \in Callers, Consume(c) PROVE Rest'
  BY <1>5 DEF Consume, Rest, TypeOK, Result, NoDoubleClose, CloseSync, NobodyParked,
              WorkersParked, CallersParked, AtMostOneLost, ClosedReturnsErrMxClosed
<1>6. ASSUME NEW c \in Callers, ConsumeStops(c) PROVE Rest'
  BY <1>6 DEF ConsumeStops, Rest, TypeOK, Result, NoDoubleClose, CloseSync, NobodyParked,
              WorkersParked, CallersParked, AtMostOneLost, ClosedReturnsErrMxClosed
<1>7. ASSUME NEW c \in Callers, ConsumeSelect(c) PROVE Rest'
  <2>1. ASSUME NEW w \in WorkersParked, Hand(w, c) PROVE Rest'
    BY <1>7, <2>1, HandStep DEF ConsumeSelect, WorkersParked
  <2>2. CASE stop = "open" /\ cpc' = [cpc EXCEPT ![c] = "parked"]
             /\ UNCHANGED <<stop, closed, workers, wpc, read, began, res, taken>>
    BY <2>2 DEF Rest, TypeOK, NoDoubleClose, CloseSync, NobodyParked,
              WorkersParked, CallersParked, AtMostOneLost, ClosedReturnsErrMxClosed
  <2> QED BY <1>7, <2>1, <2>2 DEF ConsumeSelect
<1>8. CASE Close
  <2>1. wpc \in [Workers -> {"consume", "select", "parked", "exit", "done"}]  BY DEF TypeOK
  <2> QED BY <1>0, <1>8, <2>1, ShutStep DEF Close
<1>9. CASE UNCHANGED vars
  BY <1>9 DEF vars, Rest, TypeOK, NoDoubleClose, CloseSync, NobodyParked,
              WorkersParked, CallersParked, AtMostOneLost, ClosedReturnsErrMxClosed
<1> QED BY <1>1, <1>2, <1>3, <1>4, <1>5, <1>6, <1>7, <1>8, <1>9 DEF Next, Worker, Caller

\* Every step of the multiplexer keeps the invariant.
LEMMA InvStep == Inv /\ [Next]_vars => Inv'
BY CountStep, RestStep DEF Inv, Rest

\* The invariant holds for any set of consumers.
LEMMA InvHolds == Spec => []Inv
BY InvInit, InvStep, PTL DEF Spec

-----------------------------------------------------------------------------
(* The theorems.                                                           *)

\* Every variable of the multiplexer keeps its type.
THEOREM MxTypeCorrect == Spec => []TypeOK
BY InvHolds, PTL DEF Inv

\* Close and the last worker never both close stop.
THEOREM MxNeverClosedTwice == Spec => []NoDoubleClose
BY InvHolds, PTL DEF Inv

\* Workers() counts exactly the workers that have not returned.
THEOREM MxCountsWorkers == Spec => []WorkersCounted
BY InvHolds, PTL DEF Inv

\* Each worker holds back at most one item, and none is lost before a close.
THEOREM MxLosesAtMostOne == Spec => []AtMostOneLost
BY InvHolds, PTL DEF Inv

\* A Consume that begins after the close returns ErrMxClosed.
THEOREM MxClosedReturnsError == Spec => []ClosedReturnsErrMxClosed
BY InvHolds, PTL DEF Inv

\* When at least one consumer was merged, the multiplexer is closed as soon
\* as all of its workers have returned.
THEOREM MxClosesWhenEmpty == Workers # {} => (Spec => []EmptyIsClosed)
<1> SUFFICES ASSUME Workers # {} PROVE Spec => []EmptyIsClosed  OBVIOUS
<1>1. Init => EmptyIsClosed  BY DEF Init, EmptyIsClosed
<1>2. Inv /\ EmptyIsClosed /\ [Next]_vars => EmptyIsClosed'
  <2> SUFFICES ASSUME Inv, EmptyIsClosed, [Next]_vars, \A w \in Workers : wpc'[w] = "done"
               PROVE  stop' # "open"
    BY DEF EmptyIsClosed
  <2>1. WorkersCounted' /\ Inv'  BY InvStep DEF Inv
  <2>2. workers' = 0
    <3>1. {w \in Workers : wpc'[w] # "done"} = {}  OBVIOUS
    <3> QED BY <2>1, <3>1, FS_EmptySet DEF WorkersCounted
  <2>3. stop # "open" => stop' # "open"
    BY DEF Next, Worker, Caller, ConsumerReturns, ConsumerEnds, WorkerSelect, WorkerExits,
           Consume, ConsumeStops, ConsumeSelect, Close, Shut, Hand, vars
  <2>4. ASSUME NEW w \in Workers, WorkerExits(w) PROVE stop' # "open"
    <3>1. workers = 1  BY <2>2, <2>4 DEF WorkerExits, Inv, TypeOK
    <3> QED BY <2>3, <2>4, <3>1 DEF WorkerExits, Shut, Inv, CloseSync, TypeOK
  <2>5. CASE Close  BY <2>5 DEF Close, Shut
  <2>6. ASSUME \A w \in Workers : wpc[w] = "done" PROVE stop' # "open"
    BY <2>3, <2>6 DEF EmptyIsClosed
  <2>7. ASSUME NEW w \in Workers, wpc'[w] # "done" PROVE FALSE  BY <2>7
  <2>8. ASSUME NEW w \in Workers, NEW c \in Callers, Hand(w, c) PROVE FALSE
    BY <2>7, <2>8 DEF Hand, Inv, TypeOK
  <2>9. ASSUME NEW w \in Workers, ConsumerReturns(w) \/ ConsumerEnds(w) \/ WorkerSelect(w)
        PROVE  FALSE
    BY <2>7, <2>8, <2>9 DEF ConsumerReturns, ConsumerEnds, WorkerSelect, CallersParked,
                            Inv, TypeOK
  <2>10. ASSUME NEW c \in Callers, Consume(c) \/ ConsumeStops(c) \/ ConsumeSelect(c)
         PROVE  UNCHANGED wpc
    BY <2>8, <2>10 DEF Consume, ConsumeStops, ConsumeSelect, WorkersParked
  <2> QED BY <2>4, <2>5, <2>6, <2>9, <2>10 DEF Next, Worker, Caller, vars
<1> QED BY InvHolds, <1>1, <1>2, PTL DEF Spec

\* The multiplexer implements MergedStream: its Consume is atomic, returns
\* each item once and in the order of its consumer, and nothing after a close.
THEOREM MxRefinesStream == Spec => MergesStreams
<1> USE DEF MS!Item, MS!No
<1>1. Init => MS!Init  BY DEF Init, MS!Init
<1>2. Inv /\ [Next]_vars => [MS!Next]_(MS!vars)
  <2> SUFFICES ASSUME Inv, [Next]_vars PROVE MS!Next \/ UNCHANGED MS!vars  BY DEF MS!vars
  <2> DEFINE Pending == {c \in Callers : cpc[c] # "idle"}
  <2>1. ASSUME NEW w \in Workers, NEW c \in Callers, Hand(w, c),
               wpc[w] \in {"select", "parked"}, cpc[c] \in {"select", "parked"},
               wpc[w] = "parked" \/ cpc[c] = "parked"
        PROVE  MS!Next
    <3>1. stop = "open" /\ read[w] = taken[w] + 1
      BY <2>1 DEF Inv, NobodyParked, WorkersParked, CallersParked, AtMostOneLost, TypeOK
    <3>2. c \in Pending /\ Pending' = Pending \ {c}  BY <2>1 DEF Hand, Inv, TypeOK
    <3>3. MS!Take(c, w)  BY <2>1, <3>1, <3>2 DEF Hand, MS!Take
    <3> QED BY <3>3 DEF MS!Next
  <2>2. ASSUME NEW after, Shut(after), UNCHANGED <<res, taken>>, closed = "no" PROVE MS!Next
    <3>1. Pending' = Pending  BY <2>2 DEF Shut, Inv, TypeOK
    <3>2. stop = "open"  BY <2>2 DEF Inv, CloseSync, NoDoubleClose, TypeOK
    <3>3. MS!Shut  BY <2>2, <3>1, <3>2 DEF Shut, MS!Shut
    <3> QED BY <3>3 DEF MS!Next
  <2>3. ASSUME UNCHANGED <<stop, taken, res>>, Pending' = Pending PROVE UNCHANGED MS!vars
    BY <2>3 DEF MS!vars
  <2>4. ASSUME NEW w \in Workers, ConsumerReturns(w) \/ ConsumerEnds(w)
        PROVE  UNCHANGED MS!vars
    BY <2>3, <2>4 DEF ConsumerReturns, ConsumerEnds
  <2>5. ASSUME NEW w \in Workers, WorkerSelect(w) PROVE MS!Next \/ UNCHANGED MS!vars
    <3>1. ASSUME NEW c \in CallersParked, Hand(w, c) PROVE MS!Next
      BY <2>1, <2>5, <3>1 DEF WorkerSelect, CallersParked
    <3>2. CASE UNCHANGED <<stop, taken, res, cpc>>  BY <2>3, <3>2
    <3> QED BY <2>5, <3>1, <3>2 DEF WorkerSelect
  <2>6. ASSUME NEW w \in Workers, WorkerExits(w) PROVE MS!Next \/ UNCHANGED MS!vars
    <3>1. CASE workers = 1 /\ closed = "no"  BY <2>2, <2>6, <3>1 DEF WorkerExits
    <3>2. CASE ~(workers = 1 /\ closed = "no")  BY <2>3, <2>6, <3>2 DEF WorkerExits
    <3> QED BY <3>1, <3>2
  <2>7. ASSUME NEW c \in Callers, Consume(c) PROVE MS!Next
    <3>1. c \notin Pending /\ Pending' = Pending \cup {c}  BY <2>7 DEF Consume, Inv, TypeOK
    <3>2. MS!Begin(c)  BY <2>7, <3>1 DEF Consume, MS!Begin
    <3> QED BY <3>2 DEF MS!Next
  <2>8. ASSUME NEW c \in Callers, ConsumeStops(c) PROVE MS!Next
    <3>1. c \in Pending /\ Pending' = Pending \ {c}  BY <2>8 DEF ConsumeStops, Inv, TypeOK
    <3>2. stop = "closed"
      BY <2>8 DEF ConsumeStops, Inv, CloseSync, NoDoubleClose, TypeOK
    <3>3. MS!Refuse(c)  BY <2>8, <3>1, <3>2 DEF ConsumeStops, MS!Refuse
    <3> QED BY <3>3 DEF MS!Next
  <2>9. ASSUME NEW c \in Callers, ConsumeSelect(c) PROVE MS!Next \/ UNCHANGED MS!vars
    <3>1. ASSUME NEW w \in WorkersParked, Hand(w, c) PROVE MS!Next
      BY <2>1, <2>9, <3>1 DEF ConsumeSelect, WorkersParked
    <3>2. CASE cpc' = [cpc EXCEPT ![c] = "parked"] /\ UNCHANGED <<stop, taken, res>>
      <4>1. Pending' = Pending  BY <2>9, <3>2 DEF ConsumeSelect, Inv, TypeOK
      <4> QED BY <2>3, <3>2, <4>1
    <3> QED BY <2>9, <3>1, <3>2 DEF ConsumeSelect
  <2>10. CASE Close  BY <2>2, <2>10 DEF Close
  <2>11. CASE UNCHANGED vars  BY <2>3, <2>11 DEF vars
  <2> QED BY <2>4, <2>5, <2>6, <2>7, <2>8, <2>9, <2>10, <2>11 DEF Next, Worker, Caller
<1> QED BY InvHolds, <1>1, <1>2, PTL DEF Spec, MergesStreams, MS!Spec
=============================================================================

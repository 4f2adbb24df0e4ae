--------------------------------- MODULE Mx ---------------------------------
(***************************************************************************)
(* The multiplexer of src/v2/multiplexer.go: one worker goroutine for each *)
(* merged consumer, any number of goroutines that call Mx.Consume, and     *)
(* Close, which anybody calls at any moment.                               *)
(*                                                                         *)
(* A select locks all its channels, so each is one step: it takes one of   *)
(* the cases that are ready, or parks when none is.  Closing stop wakes    *)
(* all that are parked.  What happens under Mx.mu is one step.             *)
(*                                                                         *)
(* An operator that nothing uses and that stands right before another one  *)
(* (XForgotten before X) is the other one with a slip in it.  It takes the *)
(* place of the other one to see that a property notices.                  *)
(***************************************************************************)
EXTENDS Integers, FiniteSets

CONSTANTS
    Workers,   \* the merged consumers, and their workers
    Callers,   \* the goroutines that call Mx.Consume
    MaxItems,  \* how many messages and errors a consumer has
    None

ASSUME MxAssumption ==
    /\ IsFiniteSet(Workers)
    /\ MaxItems \in Nat
    /\ None \notin Workers

VARIABLES
    stop,      \* the channel Mx.stop
    closed,    \* Mx.closed
    workers,   \* Mx.workers
    wpc,       \* where each worker is
    read,      \* how many items each worker got from its consumer
    cpc,       \* where each caller of Mx.Consume is
    began,     \* stop when its call began
    res,       \* what its last call returned
    taken      \* how many items of each worker were returned by Mx.Consume

vars == <<stop, closed, workers, wpc, read, cpc, began, res, taken>>

\* What Mx.Consume returns: the n-th message or error of a consumer, or
\* ErrMxClosed.  "unset" says that the call has not returned.
Result == [from : Workers \cup {None}, n : 0 .. MaxItems, is : {"item", "ErrMxClosed", "unset"}]
Item(w, n) == [from |-> w, n |-> n, is |-> "item"]
No(why) == [from |-> None, n |-> 0, is |-> why]

\* Merge
Init ==
    /\ stop = "open" /\ closed = "no"
    /\ workers = Cardinality(Workers)
    /\ wpc = [w \in Workers |-> "consume"]
    /\ read = [w \in Workers |-> 0]
    /\ cpc = [c \in Callers |-> "idle"]
    /\ began = [c \in Callers |-> "open"]
    /\ res = [c \in Callers |-> No("unset")]
    /\ taken = [w \in Workers |-> 0]

-----------------------------------------------------------------------------
WorkersParked == {w \in Workers : wpc[w] = "parked"}
CallersParked == {c \in Callers : cpc[c] = "parked"}

HandTwice(w, c) ==
    /\ cpc' = [cpc EXCEPT ![c] = "idle"]
    /\ res' = [res EXCEPT ![c] = Item(w, read[w])]
    /\ taken' = [taken EXCEPT ![w] = @ + 1]
    /\ UNCHANGED <<stop, closed, workers, wpc, read, began>>

\* One of w and c is parked, the other one selects, and w hands its item to c.
Hand(w, c) ==
    /\ wpc' = [wpc EXCEPT ![w] = "consume"]
    /\ cpc' = [cpc EXCEPT ![c] = "idle"]
    /\ res' = [res EXCEPT ![c] = Item(w, read[w])]
    /\ taken' = [taken EXCEPT ![w] = @ + 1]
    /\ UNCHANGED <<stop, closed, workers, read, began>>

WakeForgotten(after) == after

\* The workers that are parked when stop is closed take <-p.stop and return.
Wake(after) ==
    [w \in Workers |-> IF after[w] = "parked" THEN "exit" ELSE after[w]]

FlagForgotten == closed

\* p.closed = true
Flag == "yes"

\* close(p.stop) and p.closed = true, when the workers are at after.  Closing
\* a closed channel panics.
Shut(after) ==
    /\ stop' = IF stop = "open" THEN "closed" ELSE "panic"
    /\ closed' = Flag
    /\ wpc' = Wake(after)
    /\ cpc' = [c \in Callers |-> IF cpc[c] = "parked" THEN "woken" ELSE cpc[c]]

-----------------------------------------------------------------------------
(* The workers.                                                            *)

\* c.Consume() of the merged consumer returns a message or an error that is
\* not ErrNoData, and the worker gets to its select.
ConsumerReturns(w) ==
    /\ wpc[w] = "consume" /\ read[w] < MaxItems
    /\ read' = [read EXCEPT ![w] = @ + 1]
    /\ wpc' = [wpc EXCEPT ![w] = "select"]
    /\ UNCHANGED <<stop, closed, workers, cpc, began, res, taken>>

\* It returns ErrNoData, and the worker returns.
ConsumerEnds(w) ==
    /\ wpc[w] = "consume"
    /\ wpc' = [wpc EXCEPT ![w] = "exit"]
    /\ UNCHANGED <<stop, closed, workers, read, cpc, began, res, taken>>

BlockForgotten == "consume"

\* A select without a default case blocks when no case is ready.
Block == "parked"

\* select { case p.msgc <- msg: case <-p.stop: return }, or the same for errc.
WorkerSelect(w) ==
    /\ wpc[w] = "select"
    /\ \/ /\ stop # "open"
          /\ wpc' = [wpc EXCEPT ![w] = "exit"]
          /\ UNCHANGED <<stop, closed, workers, read, cpc, began, res, taken>>
       \/ \E c \in CallersParked : Hand(w, c)
       \/ /\ stop = "open" /\ CallersParked = {}
          /\ wpc' = [wpc EXCEPT ![w] = Block]
          /\ UNCHANGED <<stop, closed, workers, read, cpc, began, res, taken>>

LastForgotten == FALSE

\* p.workers == 0, after p.workers--
Last == workers = 1

\* p.workers--
Remaining == workers - 1

\* The deferred function of a worker.
WorkerExits(w) ==
    /\ wpc[w] = "exit"
    /\ workers' = Remaining
    /\ IF Last /\ closed = "no"
       THEN Shut([wpc EXCEPT ![w] = "done"])
       ELSE wpc' = [wpc EXCEPT ![w] = "done"] /\ UNCHANGED <<stop, closed, cpc>>
    /\ UNCHANGED <<read, began, res, taken>>

-----------------------------------------------------------------------------
(* The users.                                                              *)

\* A goroutine calls Mx.Consume.
Consume(c) ==
    /\ cpc[c] = "idle"
    /\ cpc' = [cpc EXCEPT ![c] = "select"]
    /\ began' = [began EXCEPT ![c] = stop]
    /\ res' = [res EXCEPT ![c] = No("unset")]
    /\ UNCHANGED <<stop, closed, workers, wpc, read, taken>>

\* Mx.Consume takes <-p.stop, in its select or woken by the close.
ConsumeStops(c) ==
    /\ cpc[c] = "woken" \/ (cpc[c] = "select" /\ stop # "open")
    /\ cpc' = [cpc EXCEPT ![c] = "idle"]
    /\ res' = [res EXCEPT ![c] = No("ErrMxClosed")]
    /\ UNCHANGED <<stop, closed, workers, wpc, read, began, taken>>

\* The select of Mx.Consume takes from a parked worker, or parks.
ConsumeSelect(c) ==
    /\ cpc[c] = "select"
    /\ \/ \E w \in WorkersParked : Hand(w, c)
       \/ /\ stop = "open" /\ WorkersParked = {}
          /\ cpc' = [cpc EXCEPT ![c] = "parked"]
          /\ UNCHANGED <<stop, closed, workers, wpc, read, began, res, taken>>

\* Mx.Close.  Closing a closed multiplexer has no effect.
Close ==
    /\ closed = "no"
    /\ Shut(wpc)
    /\ UNCHANGED <<workers, read, began, res, taken>>

-----------------------------------------------------------------------------
Worker(w) == ConsumerReturns(w) \/ ConsumerEnds(w) \/ WorkerSelect(w) \/ WorkerExits(w)

Caller(c) == ConsumeStops(c) \/ ConsumeSelect(c)

Next ==
    \/ \E w \in Workers : Worker(w)
    \/ \E c \in Callers : Consume(c) \/ Caller(c)
    \/ Close

Spec == Init /\ [][Next]_vars

\* The merged consumers return and the goroutines run.  Nobody has to call
\* Consume or Close.
Fairness ==
    /\ \A w \in Workers : WF_vars(Worker(w))
    /\ \A c \in Callers : WF_vars(Caller(c))

LiveSpec == Spec /\ Fairness

-----------------------------------------------------------------------------
(* Properties.                                                             *)

\* The variables range over the values the code can give them.
TypeOK ==
    /\ stop \in {"open", "closed", "panic"}
    /\ closed \in {"no", "yes"}
    /\ workers \in Nat
    /\ wpc \in [Workers -> {"consume", "select", "parked", "exit", "done"}]
    /\ read \in [Workers -> 0 .. MaxItems]
    /\ cpc \in [Callers -> {"idle", "select", "parked", "woken"}]
    /\ began \in [Callers -> {"open", "closed", "panic"}]
    /\ res \in [Callers -> Result]
    /\ taken \in [Workers -> 0 .. MaxItems]

\* stop is closed at most once, by Close or by the last worker.
NoDoubleClose == stop # "panic"

\* Workers() is the number of workers that have not returned.
WorkersCounted == workers = Cardinality({w \in Workers : wpc[w] # "done"})

\* When all consumers are removed the multiplexer is closed.
EmptyIsClosed == (\A w \in Workers : wpc[w] = "done") => stop # "open"

\* A worker holds at most one item that Consume has not returned, and such an
\* item is lost only when the multiplexer is closed.
AtMostOneLost ==
    \A w \in Workers :
        /\ read[w] - taken[w] \in {0, 1}
        /\ wpc[w] \in {"select", "parked"} => read[w] - taken[w] = 1
        /\ wpc[w] = "consume" => read[w] = taken[w]
        /\ read[w] # taken[w] => wpc[w] \in {"select", "parked"} \/ stop # "open"

\* A Consume that begins after the multiplexer was closed returns ErrMxClosed.
ClosedReturnsErrMxClosed ==
    \A c \in Callers : cpc[c] = "idle" /\ began[c] # "open" => res[c] = No("ErrMxClosed")

\* The multiplexer in MergedStream's terms.
MS == INSTANCE MergedStream WITH
        stream <- stop,
        pending <- {c \in Callers : cpc[c] # "idle"},
        result <- res

\* Mx.Consume is atomic: it returns the next item of some consumer while the
\* multiplexer is open, each item once and in the order of its consumer, and
\* ErrMxClosed afterwards.
MergesStreams == MS!Spec

\* After a close every worker returns and every Consume under way returns.
CloseStopsAll ==
    /\ \A w \in Workers : (stop # "open") ~> (wpc[w] = "done")
    /\ \A c \in Callers : (stop # "open" /\ cpc[c] # "idle") ~> (cpc[c] = "idle")

\* Once no consumer has anything left a Consume under way returns as well,
\* because the last worker closes the multiplexer.
ConsumeReturns == \A c \in Callers : (cpc[c] # "idle") ~> (cpc[c] = "idle")

-----------------------------------------------------------------------------
(* The inductive invariant.                                                *)

\* Mx.closed says whether stop is closed, and who saw it closed is right.
CloseSync ==
    /\ closed = "yes" <=> stop = "closed"
    /\ \A c \in Callers : began[c] # "open" \/ cpc[c] = "woken" => stop = "closed"

\* Nobody stays parked once stop is closed.
NobodyParked == stop # "open" => WorkersParked = {} /\ CallersParked = {}

Inv ==
    /\ TypeOK /\ NoDoubleClose /\ CloseSync /\ NobodyParked
    /\ WorkersCounted /\ AtMostOneLost /\ ClosedReturnsErrMxClosed
=============================================================================

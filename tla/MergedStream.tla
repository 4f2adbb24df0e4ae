---------------------------- MODULE MergedStream ----------------------------
(***************************************************************************)
(* What a multiplexer promises, without its workers and channels.  It is a *)
(* stream that is open and then shut for good.  A call of Consume takes,   *)
(* in one step, the next item of one of the sources while the stream is    *)
(* open; once it is shut a call returns ErrMxClosed.                       *)
(***************************************************************************)
EXTENDS Naturals

CONSTANTS Workers, Callers, None

VARIABLES
    stream,   \* "open" or "closed"
    taken,    \* how many items of each source were returned
    pending,  \* the goroutines inside Consume
    result    \* what the last Consume of a goroutine returned

\* A result: the n-th item of a source, or none because of why.
Item(w, n) == [from |-> w, n |-> n, is |-> "item"]
No(why) == [from |-> None, n |-> 0, is |-> why]

vars == <<stream, taken, pending, result>>

Init ==
    /\ stream = "open"
    /\ taken = [w \in Workers |-> 0]
    /\ pending = {}
    /\ result = [c \in Callers |-> No("unset")]

Begin(c) ==
    /\ c \notin pending
    /\ pending' = pending \cup {c}
    /\ result' = [result EXCEPT ![c] = No("unset")]
    /\ UNCHANGED <<stream, taken>>

Take(c, w) ==
    /\ c \in pending /\ stream = "open"
    /\ taken' = [taken EXCEPT ![w] = @ + 1]
    /\ pending' = pending \ {c}
    /\ result' = [result EXCEPT ![c] = Item(w, taken[w] + 1)]
    /\ UNCHANGED stream

Refuse(c) ==
    /\ c \in pending /\ stream = "closed"
    /\ pending' = pending \ {c}
    /\ result' = [result EXCEPT ![c] = No("ErrMxClosed")]
    /\ UNCHANGED <<stream, taken>>

Shut ==
    /\ stream = "open" /\ stream' = "closed"
    /\ UNCHANGED <<taken, pending, result>>

Next ==
    \/ \E c \in Callers : Begin(c) \/ Refuse(c) \/ \E w \in Workers : Take(c, w)
    \/ Shut

Spec == Init /\ [][Next]_vars
=============================================================================

----------------------------- MODULE LogReader ------------------------------
(***************************************************************************)
(* What a consumer of package kafka promises: it hands out the messages of *)
(* the log of a partition from the offset it was opened at, each once, in  *)
(* order and without a gap.                                                *)
(***************************************************************************)
EXTENDS Integers, Sequences

CONSTANT Payloads

VARIABLES
    log,     \* the messages written so far; the first one has offset 0
    cursor,  \* the offset of the next message to hand out, -1 before the consumer is opened
    out      \* the messages handed out, with their offsets

vars == <<log, cursor, out>>

Init == log = <<>> /\ cursor = -1 /\ out = <<>>

Write ==
    /\ log' \in Seq(Payloads)
    /\ Len(log') > Len(log) /\ SubSeq(log', 1, Len(log)) = log
    /\ UNCHANGED <<cursor, out>>

Open ==
    /\ cursor = -1
    /\ cursor' \in Nat
    /\ UNCHANGED <<log, out>>

HandOut ==
    /\ cursor # -1
    /\ \E n \in 1..(Len(log) - cursor) :
          /\ out' = out \o [i \in 1..n |-> [offset |-> cursor + i - 1, payload |-> log[cursor + i]]]
          /\ cursor' = cursor + n
    /\ UNCHANGED log

Next == Write \/ Open \/ HandOut

Spec == Init /\ [][Next]_vars
=============================================================================

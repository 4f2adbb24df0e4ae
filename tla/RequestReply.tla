---------------------------- MODULE RequestReply ----------------------------
(***************************************************************************)
(* What a connection promises to the goroutines that use it, without its   *)
(* correlation IDs, channels and loops: a call is pending until it gets a  *)
(* reply or an error; a call fails only when the link is not up or another *)
(* call is pending that may hold its correlation ID; and a call that began *)
(* after the link was stopped gets no reply.                               *)
(***************************************************************************)
CONSTANTS Callers

VARIABLES
    link,     \* "up", "failing" once the peer left, "stopped" for ever
    pending,  \* the goroutines inside a call
    acked,    \* whether the call of a goroutine wants a reply
    doomed,   \* the call began when the link was stopped
    outcome   \* how the last call ended

vars == <<link, pending, acked, doomed, outcome>>

Init ==
    /\ link = "up"
    /\ pending = {}
    /\ acked = [p \in Callers |-> TRUE]
    /\ doomed = [p \in Callers |-> FALSE]
    /\ outcome = [p \in Callers |-> "unset"]

Begin(p, a) ==
    /\ p \notin pending
    /\ pending' = pending \cup {p}
    /\ acked' = [acked EXCEPT ![p] = a]
    /\ doomed' = [doomed EXCEPT ![p] = (link = "stopped")]
    /\ outcome' = [outcome EXCEPT ![p] = "unset"]
    /\ UNCHANGED link

End(p, o) ==
    /\ p \in pending
    /\ pending' = pending \ {p}
    /\ outcome' = [outcome EXCEPT ![p] = o]
    /\ UNCHANGED <<link, acked, doomed>>

Reply(p) == acked[p] /\ ~doomed[p] /\ End(p, "reply")

\* A request that wants no reply was handed to the transport.
Sent(p) == ~acked[p] /\ End(p, "sent")

Fail(p) ==
    /\ link # "up" \/ pending # {p}
    /\ End(p, "error")

Degrade ==
    /\ \/ link = "up" /\ link' \in {"failing", "stopped"}
       \/ link = "failing" /\ link' = "stopped"
    /\ UNCHANGED <<pending, acked, doomed, outcome>>

Next ==
    \/ \E p \in Callers : \/ \E a \in BOOLEAN : Begin(p, a)
                          \/ Reply(p) \/ Sent(p) \/ Fail(p)
    \/ Degrade

Spec == Init /\ [][Next]_vars
=============================================================================

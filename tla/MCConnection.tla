---------------------------- MODULE MCConnection ----------------------------
EXTENDS Connection, TLC

CONSTANTS p1, p2, q1

MCCallers == {p1, p2}
MCClosers == {q1}
AllKinds == [p \in MCCallers |-> BOOLEAN]
AckedKinds == [p \in MCCallers |-> {TRUE}]
OneMixed == [p \in MCCallers |-> {TRUE, p = p1}]
Acked == {TRUE}
All == BOOLEAN
CallerSymmetry == Permutations(MCCallers)
=============================================================================

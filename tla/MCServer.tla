------------------------------ MODULE MCServer ------------------------------
EXTENDS Server, TLC

CONSTANTS c1, c2, u1, u2, topic1, group1

MCClients == {c1, c2}
MCUsers == {u1, u2}
MCTopics == {topic1}
MCGroups == {group1}
MCTimes == {-1, 0}
GoroutineSymmetry == Permutations(MCClients) \cup Permutations(MCUsers)
=============================================================================

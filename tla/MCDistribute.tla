---------------------------- MODULE MCDistribute ----------------------------
EXTENDS Distribute

CONSTANTS c1, c2, k1, k2

MCCallers == {c1, c2}
MCKeys == {k1, k2}
UpToFour == 0..4
Short == {<<>>, <<nil>>, <<k1>>, <<k1, k2>>, <<k1, nil>>, <<k1, k1, k2>>, <<k1, k1, nil>>}
FourBits == -8
=============================================================================

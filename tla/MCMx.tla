-------------------------------- MODULE MCMx --------------------------------
EXTENDS Mx, TLC

CONSTANTS w1, w2, c1, c2

TwoWorkers == {w1, w2}
MCCallers == {c1, c2}
=============================================================================

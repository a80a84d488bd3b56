--------------------------- MODULE MCGateDecision ---------------------------
EXTENDS GateDecision, TLC
CONSTANTS c1, c2, c3, c4
Symm == Permutations(Clicks)
=============================================================================

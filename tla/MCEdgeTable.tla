----------------------------- MODULE MCEdgeTable -----------------------------
\* A small edge table for TLC: four targets compete for three slots.
EXTENDS EdgeTable, TLC

MCStrengths == {2, 3}
TargetSymmetry == Permutations(Targets)
=============================================================================

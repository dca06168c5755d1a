----------------------------- MODULE MCNodePool -----------------------------
(* Two threads over a small arena: the bounds let the stack fill, empty and  *)
(* fill again while a pop sleeps between its two reads and its swap.         *)
EXTENDS NodePool, TLC

CONSTANTS t1, t2

MCThreads == {t1, t2}
MCSymmetry == Permutations(MCThreads)
=============================================================================

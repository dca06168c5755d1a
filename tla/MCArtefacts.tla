---------------------------- MODULE MCArtefacts -----------------------------
(* Two artefacts, which together may exceed the total and alone the limit. *)
EXTENDS Artefacts

CONSTANTS p, q

MCSlugs == {p, q}
MCSizes == {1, 2, 3}
MCSymmetry == Permutations(MCSlugs)
=============================================================================

----------------------------- MODULE MCBrainFile -----------------------------
(* A small brain for TLC: three words, one sentence, full tables, one death. *)
EXTENDS BrainFile
=============================================================================

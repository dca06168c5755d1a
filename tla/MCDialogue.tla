----------------------------- MODULE MCDialogue -----------------------------
(* Times keep their order: grace < deadline, wake window < forced window. *)
EXTENDS Dialogue
=============================================================================

---------------------------- MODULE MCActivation ----------------------------
(* A directive, another word, each the other's successor, and one episode. *)
EXTENDS Activation

CONSTANTS d, a, h

MCWords == {d, a}
MCHubs == {h}
MCDirectives == {d}
MCSucc == [w \in MCWords |-> MCWords \ {w}]
=============================================================================

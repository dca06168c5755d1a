---------------------------- MODULE MCMpmcQueue ----------------------------
(* Two producers and two consumers on a ring of two cells. The positions    *)
(* wrap (PosMod) while the queue is in use.                                 *)
EXTENDS MpmcQueue

CONSTANTS p1, p2, c1, c2

MCProducers == {p1, p2}
MCConsumers == {c1, c2}
=============================================================================

----------------------------- MODULE BrainStore -----------------------------
(***************************************************************************)
(* What saving and waking a brain (core/fpsan_memory.h) promise the daemon: *)
(* a store that holds one whole brain or none. A save gives up the brain in *)
(* the store before it puts the new one there, and a restart has the stored *)
(* brain, to the last edge, or the one the program is born with. A sentence *)
(* that another thread learns meanwhile spoils this: from then on nothing   *)
(* is promised of the brain it was caught in, until that is replaced.       *)
(***************************************************************************)
EXTENDS Naturals

CONSTANTS Newborn,  \* the brain of a cold start
          None,     \* the empty store
          Mixed     \* a brain of which nothing is promised

VARIABLES brain, store

\* A brain learns one word, edge or node at a time, and may forget one edge for
\* another.
Grows ==
    /\ Mixed \notin {brain, brain'}
    /\ \/ brain' = [brain EXCEPT !.node_count = @ + 1]
       \/ \E w \in brain'.words : brain' = [brain EXCEPT !.words = @ \union {w}]
       \/ \E table \in {"edges", "inverse_edges"} :
            \E new \in brain'[table] : \E old \in brain[table] \union {new} :
                brain' = [brain EXCEPT ![table] = (@ \ {old}) \union {new}]

Learn == Grows /\ store' = store

GiveUp == store # None /\ store' = None /\ brain' = brain
Put == store = None /\ store' = brain /\ brain' = brain

Wake == store # None /\ brain' = store /\ store' = store
ColdStart == store \in {None, Mixed} /\ brain' = Newborn /\ store' = store

\* A load that fails may leave any part of a brain.
LoadFails == store = None /\ store' = None

Reset == brain' = Newborn /\ store' = None

\* A sentence is learned during a save, or a brain replaced in the middle of one.
CaughtInSave == store' = Mixed /\ (Grows \/ brain' = brain)
CaughtInLoad == brain' = Mixed /\ store' \in {store, None}

StoreInit == brain = Newborn /\ store = None
StoreNext ==
    \/ Learn \/ GiveUp \/ Put \/ Wake \/ ColdStart \/ LoadFails \/ Reset
    \/ CaughtInSave \/ CaughtInLoad
StoreSpec == StoreInit /\ [][StoreNext]_<<brain, store>>
=============================================================================

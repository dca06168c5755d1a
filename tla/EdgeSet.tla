------------------------------- MODULE EdgeSet -------------------------------
(***************************************************************************)
(* What the edge table of a node (core/cluster_graph.h) promises: a bounded *)
(* map from targets to weights, changed by one whole operation at a time.   *)
(***************************************************************************)
EXTENDS Naturals, FiniteSets, Functions

CONSTANTS Targets,    \* the far ends an edge can have
          Strengths,  \* the strengths edges are added with
          MaxFanout,  \* MAX_FANOUT
          MaxWeight,  \* the cap on a weight, 5.0
          EdgePrune   \* EDGE_PRUNE

VARIABLE table

Capped(w) == IF w < MaxWeight THEN w ELSE MaxWeight
Put(m, t, w) == [x \in DOMAIN m \union {t} |-> IF x = t THEN w ELSE m[x]]

Strengthen(t, s) ==
    /\ t \in DOMAIN table
    /\ table' = Put(table, t, Capped(table[t] + s \div 2))

Insert(t, s) ==
    /\ t \notin DOMAIN table
    /\ Cardinality(DOMAIN table) < MaxFanout
    /\ table' = Put(table, t, s)

\* A full table gives up an edge that is weaker.
Replace(t, s) ==
    /\ t \notin DOMAIN table
    /\ Cardinality(DOMAIN table) = MaxFanout
    /\ \E v \in DOMAIN table :
        /\ table[v] < s
        /\ table' = Put(Restrict(table, DOMAIN table \ {v}), t, s)

Potentiate(t) == t \in DOMAIN table /\ table' = Put(table, t, Capped(table[t] + 1))
Depress(t) ==
    /\ t \in DOMAIN table
    /\ table' = Put(table, t, IF table[t] = 0 THEN 0 ELSE table[t] - 1)

Prune == table' = Restrict(table, {t \in DOMAIN table : table[t] >= EdgePrune})

SetNext ==
    \/ \E t \in Targets, s \in Strengths : Strengthen(t, s) \/ Insert(t, s) \/ Replace(t, s)
    \/ \E t \in Targets : Potentiate(t) \/ Depress(t)
    \/ Prune

SetInit == table = [t \in {} |-> 0]
SetSpec == SetInit /\ [][SetNext]_table
=============================================================================

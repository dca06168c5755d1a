------------------------------ MODULE EdgeTable ------------------------------
(***************************************************************************)
(* One node's edges (core/cluster_graph.h): add_edge(), apply_stdp() and    *)
(* prune() under the node's spinlock, and a spread_activation() that walks  *)
(* the same slots without it. The inverse edges have a table, a lock and    *)
(* code of the same form.                                                   *)
(*                                                                          *)
(* Whoever holds the lock is the only writer, so the writers are one        *)
(* process, which has an operation under way or none. What it writes        *)
(* reaches the slots one field at a time, and the reader comes in between.  *)
(*                                                                          *)
(* A target stands for a target and an edge type, which identify an edge    *)
(* together. Co-occurrence counts and provenance are left out. Weights are  *)
(* numbers of a unit; one STDP step is one unit.                            *)
(***************************************************************************)
EXTENDS Integers, Sequences

CONSTANTS Targets, Strengths, MaxFanout, MaxWeight, EdgePrune,
          FanoutCap,   \* SPREAD_FANOUT_CAP
          MaxChanges,  \* bound: operations
          Unwritten    \* what a slot never written holds

ASSUME TableAssumption ==
    /\ MaxFanout \in Nat \ {0} /\ FanoutCap \in Nat \ {0}
    /\ MaxWeight \in Nat /\ EdgePrune \in Nat /\ MaxChanges \in Nat
    /\ Strengths \subseteq 0 .. MaxWeight /\ Unwritten \notin Targets

VARIABLES
    edges,       \* a slot's target and weight; "of" is history: whose weight it is
    edge_count,
    stage, op,   \* the holder of edge_lock and its operation; "free" is unlocked
    out,         \* its stores that have not reached memory yet, in order
    ec, walk, gap, key,         \* its locals ec; i; j, or nc in prune(); key. What
                                \* is moved next goes to the slot after gap
    rpc, slot, limit, got,      \* the reader
    changes,     \* operations begun
    before,      \* history: the contents when the lock was taken
    jumbled      \* history: STDP has changed a weight since the last sort

holder == <<stage, op, out, ec, walk, gap, key>>
reader == <<rpc, slot, limit, got>>
tableVars == <<edges, edge_count, holder, reader, changes, before, jumbled>>

Slots == 1 .. MaxFanout
Blank == [target |-> Unwritten, weight |-> 0, of |-> Unwritten]
Edge(t, w) == [target |-> t, weight |-> w, of |-> t]
Free == [kind |-> "free"]

\* Stores to a slot and to the count
SetTarget(s, e) == [slot |-> s, target |-> e.target]
SetWeight(s, e) == [slot |-> s, weight |-> e.weight, of |-> e.of]
SetCount(c) == [count |-> c]
Copy(s, e) == <<SetTarget(s, e), SetWeight(s, e)>>

Capped(w) == IF w < MaxWeight THEN w ELSE MaxWeight

\* The table as a map from targets to weights
Contents ==
    LET at(t) == CHOOSE s \in 1 .. edge_count : edges[s].target = t
    IN  [t \in {edges[s].target : s \in 1 .. edge_count} |-> edges[at(t)].weight]

TableInit ==
    /\ edges = [s \in Slots |-> Blank] /\ edge_count = 0
    /\ stage = "free" /\ op = Free /\ out = <<>>
    /\ ec = 0 /\ walk = 0 /\ gap = 0 /\ key = Blank
    /\ rpc = "count" /\ slot = 0 /\ limit = 0 /\ got = Blank
    /\ changes = 0 /\ before = Contents /\ jumbled = FALSE

----------------------------------------------------------------------------
(***************************************************************************)
(* The lock and the stores                                                  *)
(***************************************************************************)
\* test_and_set() succeeds; the operation reads the count.
Lock(o) ==
    /\ stage = "free"
    /\ changes < MaxChanges
    /\ changes' = changes + 1
    /\ op' = o /\ stage' = o.kind
    /\ ec' = edge_count /\ walk' = 1 /\ gap' = 0
    /\ before' = Contents
    /\ UNCHANGED <<edges, edge_count, out, key, reader, jumbled>>

add_edge == \E t \in Targets, s \in Strengths :
    Lock([kind |-> "add", target |-> t, weight |-> s])
apply_stdp == \E t \in Targets, d \in {-1, 1} :
    Lock([kind |-> "stdp", target |-> t, weight |-> d])
prune == Lock([kind |-> "prune"])

Unlock ==
    /\ stage = "unlock" /\ out = <<>>
    /\ stage' = "free" /\ op' = Free
    /\ ec' = 0 /\ walk' = 0 /\ gap' = 0 /\ key' = Blank
    /\ before' = [t \in {} |-> 0]
    /\ UNCHANGED <<edges, edge_count, out, reader, changes, jumbled>>

\* One store reaches memory.
Store ==
    /\ out # <<>>
    /\ LET st == Head(out) IN
        /\ edges' = IF "slot" \notin DOMAIN st THEN edges
                    ELSE IF "target" \in DOMAIN st
                    THEN [edges EXCEPT ![st.slot].target = st.target]
                    ELSE [edges EXCEPT ![st.slot].weight = st.weight, ![st.slot].of = st.of]
        /\ edge_count' = IF "count" \in DOMAIN st THEN st.count ELSE edge_count
    /\ out' = Tail(out)
    /\ UNCHANGED <<stage, op, ec, walk, gap, key, reader, changes, before, jumbled>>

\* The holder's next action: it stores what it says and goes to l.
Continue(l, stores) ==
    /\ out = <<>> /\ out' = stores
    /\ stage' = l
    /\ UNCHANGED <<edges, edge_count, op, reader, changes, before>>

\* The slot of the operation's target, if it has one
Found == {s \in 1 .. ec : edges[s].target = op.target}

----------------------------------------------------------------------------
(***************************************************************************)
(* add_edge()                                                               *)
(***************************************************************************)
AddKnown ==
    /\ stage = "add"
    /\ \E s \in Found :
        /\ \A r \in Found : s <= r
        /\ Continue("sort", <<SetWeight(s,
               Edge(op.target, Capped(edges[s].weight + op.weight \div 2)))>>)
    /\ UNCHANGED <<ec, walk, gap, key, jumbled>>

AddNewEarlySlip ==                                  \* the count before the edge
    /\ stage = "add" /\ Found = {}
    /\ ec < MaxFanout
    /\ Continue("sort", <<SetCount(ec + 1)>> \o Copy(ec + 1, Edge(op.target, op.weight)))
    /\ ec' = ec + 1
    /\ UNCHANGED <<walk, gap, key, jumbled>>

AddNew ==
    /\ stage = "add" /\ Found = {}
    /\ ec < MaxFanout
    /\ Continue("sort", Copy(ec + 1, Edge(op.target, op.weight)) \o <<SetCount(ec + 1)>>)
    /\ ec' = ec + 1
    /\ UNCHANGED <<walk, gap, key, jumbled>>

\* A full table: the last edge is replaced if it is weaker.
AddFull ==
    /\ stage = "add" /\ Found = {}
    /\ ec = MaxFanout
    /\ Continue("sort", IF op.weight > edges[ec].weight
                        THEN Copy(ec, Edge(op.target, op.weight)) ELSE <<>>)
    /\ UNCHANGED <<ec, walk, gap, key, jumbled>>

LighterSlip(e, f) == e.weight > f.weight             \* lightest first

Lighter(e, f) == e.weight < f.weight

\* _sort_edges(): insertion sort in place, heaviest first. Slot 1 is sorted.
SortPick ==
    /\ stage = "sort" /\ walk < ec
    /\ Continue("shift", <<>>)
    /\ key' = edges[walk + 1] /\ gap' = walk /\ walk' = walk + 1
    /\ UNCHANGED <<ec, jumbled>>

SortShift ==
    /\ stage = "shift"
    /\ gap >= 1 /\ Lighter(edges[gap], key)
    /\ Continue("shift", Copy(gap + 1, edges[gap]))
    /\ gap' = gap - 1
    /\ UNCHANGED <<ec, walk, key, jumbled>>

SortPlace ==
    /\ stage = "shift"
    /\ gap >= 1 => ~Lighter(edges[gap], key)
    /\ Continue("sort", Copy(gap + 1, key))
    /\ UNCHANGED <<ec, walk, gap, key, jumbled>>

SortDone ==
    /\ stage = "sort" /\ walk >= ec
    /\ Continue("unlock", <<>>)
    /\ jumbled' = FALSE
    /\ UNCHANGED <<ec, walk, gap, key>>

Add == AddKnown \/ AddNew \/ AddFull \/ SortPick \/ SortShift \/ SortPlace \/ SortDone

----------------------------------------------------------------------------
(***************************************************************************)
(* apply_stdp() and prune()                                                 *)
(***************************************************************************)
Clamped(w) == IF w < 0 THEN 0 ELSE Capped(w)

\* The weight of the first edge to the target changes; nothing is sorted.
Stdp ==
    /\ stage = "stdp"
    /\ \/ \E s \in Found :
            /\ \A r \in Found : s <= r
            /\ Continue("unlock", <<SetWeight(s,
                   Edge(op.target, Clamped(edges[s].weight + op.weight)))>>)
            /\ jumbled' = TRUE
       \/ Found = {} /\ Continue("unlock", <<>>) /\ UNCHANGED jumbled
    /\ UNCHANGED <<ec, walk, gap, key>>

PruneKeepSlip ==                                    \* does not close the gaps
    /\ stage = "prune" /\ walk <= ec
    /\ edges[walk].weight >= EdgePrune
    /\ Continue("prune", Copy(walk, edges[walk]))
    /\ walk' = walk + 1 /\ gap' = gap + 1
    /\ UNCHANGED <<ec, key, jumbled>>

PruneKeep ==
    /\ stage = "prune" /\ walk <= ec
    /\ edges[walk].weight >= EdgePrune
    /\ Continue("prune", Copy(gap + 1, edges[walk]))
    /\ walk' = walk + 1 /\ gap' = gap + 1
    /\ UNCHANGED <<ec, key, jumbled>>

PruneDrop ==
    /\ stage = "prune" /\ walk <= ec
    /\ edges[walk].weight < EdgePrune
    /\ Continue("prune", <<>>)
    /\ walk' = walk + 1
    /\ UNCHANGED <<ec, gap, key, jumbled>>

PruneDone ==
    /\ stage = "prune" /\ walk > ec
    /\ Continue("unlock", <<SetCount(gap)>>)
    /\ UNCHANGED <<ec, walk, gap, key, jumbled>>

Write ==
    \/ add_edge \/ apply_stdp \/ prune \/ Store \/ Unlock
    \/ Add \/ Stdp \/ PruneKeep \/ PruneDrop \/ PruneDone

----------------------------------------------------------------------------
(***************************************************************************)
(* spread_activation(), without the lock                                    *)
(***************************************************************************)
ReadCount ==
    /\ rpc = "count"
    /\ limit' = IF edge_count < FanoutCap THEN edge_count ELSE FanoutCap
    /\ slot' = 1
    /\ rpc' = IF edge_count = 0 THEN "count" ELSE "target"
    /\ UNCHANGED <<edges, edge_count, holder, got, changes, before, jumbled>>

ReadTarget ==
    /\ rpc = "target"
    /\ got' = [Blank EXCEPT !.target = edges[slot].target]
    /\ rpc' = "weight"
    /\ UNCHANGED <<edges, edge_count, holder, slot, limit, changes, before, jumbled>>

ReadWeight ==
    /\ rpc = "weight"
    /\ got' = [got EXCEPT !.weight = edges[slot].weight, !.of = edges[slot].of]
    /\ rpc' = "spread"
    /\ UNCHANGED <<edges, edge_count, holder, slot, limit, changes, before, jumbled>>

\* The target's voltage is raised; the walk goes on to the next slot.
Spread ==
    /\ rpc = "spread"
    /\ got' = Blank
    /\ IF slot < limit THEN slot' = slot + 1 /\ rpc' = "target" /\ limit' = limit
                       ELSE slot' = 0 /\ rpc' = "count" /\ limit' = 0
    /\ UNCHANGED <<edges, edge_count, holder, changes, before, jumbled>>

Read == ReadCount \/ ReadTarget \/ ReadWeight \/ Spread

TableNext == Write \/ Read
TableSpec == TableInit /\ [][TableNext]_tableVars

----------------------------------------------------------------------------
(***************************************************************************)
(* Properties                                                               *)
(***************************************************************************)
Slot == [target : Targets \union {Unwritten}, weight : 0 .. MaxWeight,
         of : Targets \union {Unwritten}]

\* Types; the table never outgrows its array.
TableTypeOK ==
    /\ edges \in [Slots -> Slot] /\ edge_count \in 0 .. MaxFanout
    /\ stage \in {"free", "add", "sort", "shift", "stdp", "prune", "unlock"}
    /\ Len(out) <= 3
    /\ ec \in 0 .. MaxFanout /\ walk \in 0 .. MaxFanout + 1
    /\ gap \in 0 .. MaxFanout /\ key \in Slot
    /\ rpc \in {"count", "target", "weight", "spread"}
    /\ slot \in 0 .. MaxFanout /\ limit \in 0 .. MaxFanout /\ got \in Slot
    /\ changes \in 0 .. MaxChanges /\ jumbled \in BOOLEAN

\* When the lock is free no two slots hold the same edge, and each weight is that
\* of the target beside it: add_edge() looks before it appends, and neither sort
\* nor prune() leaves a copy behind (cluster_graph.h:199-208, 265-269, 282-291).
WholeWhenFree ==
    stage = "free" =>
        /\ \A s, r \in 1 .. edge_count : edges[s].target = edges[r].target => s = r
        /\ \A s \in 1 .. edge_count : edges[s].of = edges[s].target

\* The reader takes no target from a slot that was never written, whatever the
\* writers do between its look at the count and its look at the slot: prune()
\* shortens the table under it, and add_edge() publishes the count last.
ReadsWrittenSlots == rpc \in {"weight", "spread"} => got.target \in Targets

\* What the lock and the order of the stores keep of the table: no double, torn or
\* unwritten slot is left by a writer or taken up by the reader beside it.
TableSound == TableTypeOK /\ WholeWhenFree /\ ReadsWrittenSlots

\* A full table keeps its strongest edges: what a new edge replaces is a weakest
\* one, and a new edge stronger than a weakest one gets in. Only STDP, which
\* changes weights and does not sort, can spoil that for the next addition.
Weakest(m) == {t \in DOMAIN m : \A u \in DOMAIN m : m[t] <= m[u]}
KeepsStrongest ==
    [][(AddFull /\ ~jumbled) =>
        LET stays == edges[MaxFanout].target IN
        /\ stays \in Weakest(before)
        /\ (out' # <<>>) <=> (before[stays] < op.weight)]_tableVars

\* Taken when the lock is free, the table is a map that one whole operation at a
\* time changes.
Map == INSTANCE EdgeSet WITH table <- IF stage = "free" THEN Contents ELSE before
ImplementsEdgeSet == Map!SetSpec

\* "Readers in spread_activation are lock-free; they may see a momentarily-stale
\* order but never a torn slot": the weight read is that of the target read. (It need not
\* be: see the README.)
NeverTornSlot == rpc = "spread" => got.of = got.target
=============================================================================

------------------------------ MODULE NodePool ------------------------------
(***************************************************************************)
(* ClusterGraph::spawn() and kill() of core/cluster_graph.h: node ids come  *)
(* from a lock-free stack of killed nodes or, when it is empty, from the    *)
(* next unused slot of the arena. One action is one atomic access to the    *)
(* shared words free_head, free_next[] and node_count.                      *)
(*                                                                          *)
(* free_head packs a tag and a node id; the all-ones word FREE_STACK_EMPTY  *)
(* is the empty stack, so the empty stack's tag reads as TagMod - 1.        *)
(***************************************************************************)
EXTENDS Integers, FiniteSets

CONSTANTS Threads,      \* threads that call spawn() and kill()
          Capacity,     \* CORTEX_CAPACITY
          InitialNodes, \* nodes init() makes alive, owned by the graph itself
          TagMod,       \* 2^32: the tag is the upper half of free_head
          MaxOps        \* bound: changes of free_head

ASSUME PoolAssumption ==
    /\ IsFiniteSet(Threads)
    /\ Capacity \in Nat
    /\ InitialNodes \in 0 .. Capacity
    /\ MaxOps \in Nat
    /\ TagMod \in Nat /\ TagMod > MaxOps + 1

VARIABLES node_count,  \* ids handed out by the arena (and overshoot)
          free_head,   \* [tag, id] of the top, or Empty
          free_next,   \* free_next[i]: the node under i on the stack, or -1
          alive,       \* cortex_memory[i].alive
          pc,          \* where each thread is
          head,        \* each thread's local copy of free_head
          arg,         \* spawn: the successor it read; kill: the id to push
          owned,       \* history: ids each thread has from spawn and not killed
          stale,       \* history: has the stack been empty since head was read?
          broken,      \* history: did a pop with a stale head succeed?
          ops          \* history: changes of free_head so far

vars == <<node_count, free_head, free_next, alive, pc, head, arg, owned, stale,
          broken, ops>>

Ids   == 0 .. Capacity - 1
None  == -1
Empty == [tag |-> TagMod - 1, id |-> None]
Heads == [tag : 0 .. TagMod - 1, id : Ids] \union {Empty}

\* Slips (operators named ...Slip, here and below): one change to the definition
\* each of them precedes that a property must not survive. Spec uses none.
NextTagSlip(h) == h.tag                             \* a stack without tags

NextTag(h) == (h.tag + 1) % TagMod

----------------------------------------------------------------------------
\* ClusterGraph::init(): the first InitialNodes are alive, nothing is free.
Init ==
    /\ node_count = InitialNodes
    /\ free_head = Empty
    /\ free_next = [i \in Ids |-> None]
    /\ alive = [i \in Ids |-> i < InitialNodes]
    /\ pc = [t \in Threads |-> "idle"]
    /\ head = [t \in Threads |-> Empty]
    /\ arg = [t \in Threads |-> None]
    /\ owned \in {o \in [Threads -> SUBSET (0 .. InitialNodes - 1)] :
                     \A t, u \in Threads : t # u => o[t] \intersect o[u] = {}}
    /\ stale = [t \in Threads |-> FALSE]
    /\ broken = FALSE
    /\ ops = 0

Goto(t, label) == pc' = [pc EXCEPT ![t] = label]

\* head = free_head, and the loop test of spawn().
LookAtHead(t) ==
    /\ head' = [head EXCEPT ![t] = free_head]
    /\ stale' = [stale EXCEPT ![t] = FALSE]
    /\ Goto(t, IF free_head = Empty THEN "claim" ELSE "next")
    /\ UNCHANGED <<node_count, free_head, free_next, alive, arg, owned, broken, ops>>

SpawnLoad(t) == pc[t] = "idle" /\ LookAtHead(t)

\* next = free_next[id]
SpawnNext(t) ==
    /\ pc[t] = "next"
    /\ arg' = [arg EXCEPT ![t] = free_next[head[t].id]]
    /\ Goto(t, "cas")
    /\ UNCHANGED <<node_count, free_head, free_next, alive, head, owned, stale,
                   broken, ops>>

\* The compare-exchange of spawn() fails, spuriously or for real.
SpawnCasFail(t) == pc[t] = "cas" /\ LookAtHead(t)

\* The word spawn() puts in place of head: the empty stack's word carries no tag.
Popped(t) == IF arg[t] = None THEN Empty ELSE [tag |-> NextTag(head[t]), id |-> arg[t]]

\* A plain store in place of the compare-exchange.
SpawnCasSlip(t) ==
    /\ pc[t] = "cas"
    /\ ops < MaxOps
    /\ free_head' = Popped(t)
    /\ arg' = [arg EXCEPT ![t] = head[t].id]
    /\ Goto(t, "reuse")
    /\ stale' = [u \in Threads |-> stale[u] \/ Popped(t) = Empty]
    /\ broken' = (broken \/ stale[t])
    /\ ops' = ops + 1
    /\ UNCHANGED <<node_count, free_next, alive, head, owned>>

\* The compare-exchange of spawn() succeeds: the top is off the stack.
SpawnCas(t) ==
    /\ pc[t] = "cas"
    /\ ops < MaxOps
    /\ free_head = head[t]
    /\ free_head' = Popped(t)
    /\ arg' = [arg EXCEPT ![t] = head[t].id]
    /\ Goto(t, "reuse")
    /\ stale' = [u \in Threads |-> stale[u] \/ Popped(t) = Empty]
    /\ broken' = (broken \/ stale[t])
    /\ ops' = ops + 1
    /\ UNCHANGED <<node_count, free_next, alive, head, owned>>

\* spawn() returns id: the caller has the node.
Return(t, id) ==
    /\ alive' = [alive EXCEPT ![id] = TRUE]
    /\ owned' = [owned EXCEPT ![t] = @ \union {id}]
    /\ Goto(t, "idle")

\* cortex_memory[id].init(); return id
SpawnReuse(t) ==
    /\ pc[t] = "reuse"
    /\ Return(t, arg[t])
    /\ UNCHANGED <<node_count, free_head, free_next, head, arg, stale, broken, ops>>

\* id = node_count.fetch_add(1): the arena's next slot, if there is one.
SpawnClaim(t) ==
    /\ pc[t] = "claim"
    /\ node_count' = node_count + 1
    /\ arg' = [arg EXCEPT ![t] = node_count]
    /\ Goto(t, IF node_count >= Capacity THEN "undo" ELSE "construct")
    /\ UNCHANGED <<free_head, free_next, alive, head, owned, stale, broken, ops>>

\* node_count.fetch_sub(1); return -1
SpawnUndo(t) ==
    /\ pc[t] = "undo"
    /\ node_count' = node_count - 1
    /\ Goto(t, "idle")
    /\ UNCHANGED <<free_head, free_next, alive, head, arg, owned, stale, broken, ops>>

\* Placement-new, init(), free_next[id] = -1; return id
SpawnConstruct(t) ==
    /\ pc[t] = "construct"
    /\ free_next' = [free_next EXCEPT ![arg[t]] = None]
    /\ Return(t, arg[t])
    /\ UNCHANGED <<node_count, free_head, head, arg, stale, broken, ops>>

----------------------------------------------------------------------------
\* kill(id) by the thread that has the node: the node is dead, its edges gone,
\* and head = free_head.
KillMark(t, id) ==
    /\ pc[t] = "idle"
    /\ id \in owned[t]
    /\ owned' = [owned EXCEPT ![t] = @ \ {id}]
    /\ alive' = [alive EXCEPT ![id] = FALSE]
    /\ arg' = [arg EXCEPT ![t] = id]
    /\ head' = [head EXCEPT ![t] = free_head]
    /\ Goto(t, "link")
    /\ UNCHANGED <<node_count, free_head, free_next, stale, broken, ops>>

\* free_next[id] = old_top
KillLink(t) ==
    /\ pc[t] = "link"
    /\ free_next' = [free_next EXCEPT ![arg[t]] = head[t].id]
    /\ Goto(t, "push")
    /\ UNCHANGED <<node_count, free_head, alive, head, arg, owned, stale, broken, ops>>

\* The compare-exchange of kill() succeeds: the node is on top.
Pushed(t) == [tag |-> NextTag(head[t]), id |-> arg[t]]

KillCas(t) ==
    /\ pc[t] = "push"
    /\ ops < MaxOps
    /\ free_head = head[t]
    /\ free_head' = Pushed(t)
    /\ Goto(t, "idle")
    /\ ops' = ops + 1
    /\ UNCHANGED <<node_count, free_next, alive, head, arg, owned, stale, broken>>

\* It fails: head is the word found there.
KillCasFail(t) ==
    /\ pc[t] = "push"
    /\ head' = [head EXCEPT ![t] = free_head]
    /\ Goto(t, "link")
    /\ UNCHANGED <<node_count, free_head, free_next, alive, arg, owned, stale,
                   broken, ops>>

Spawn(t) ==
    \/ SpawnLoad(t) \/ SpawnNext(t) \/ SpawnCasFail(t) \/ SpawnCas(t)
    \/ SpawnReuse(t) \/ SpawnClaim(t) \/ SpawnUndo(t) \/ SpawnConstruct(t)

Kill(t) ==
    \/ \E id \in Ids : KillMark(t, id)
    \/ KillLink(t) \/ KillCas(t) \/ KillCasFail(t)

Next == \E t \in Threads : Spawn(t) \/ Kill(t)

Spec == Init /\ [][Next]_vars

----------------------------------------------------------------------------
(***************************************************************************)
(* Properties                                                               *)
(***************************************************************************)
TypeOK ==
    /\ node_count \in InitialNodes .. Capacity + Cardinality(Threads)
    /\ free_head \in Heads
    /\ free_next \in [Ids -> Ids \union {None}]
    /\ alive \in [Ids -> BOOLEAN]
    /\ pc \in [Threads -> {"idle", "next", "cas", "reuse", "claim", "undo",
                           "construct", "link", "push"}]
    /\ head \in [Threads -> Heads]
    /\ arg \in [Threads -> None .. Capacity + Cardinality(Threads)]
    /\ owned \in [Threads -> SUBSET Ids]
    /\ stale \in [Threads -> BOOLEAN]
    /\ broken \in BOOLEAN
    /\ ops \in 0 .. MaxOps

\* S holds the top, if there is one, and what lies under each of its members.
Closed(S, top, below) ==
    /\ top # None => top \in S
    /\ \A i \in S : below[i] # None => below[i] \in S

\* What a walk down from the top meets: it is in every closed set.
Reach(top, below) == {i \in Ids : \A S \in SUBSET Ids : Closed(S, top, below) => i \in S}

\* The ids on the stack.
OnStack == Reach(free_head.id, free_next)

\* The id a thread is moving between the stack, the arena and its caller.
InHand(t) ==
    IF pc[t] \in {"reuse", "construct", "link", "push"} THEN {arg[t]} ELSE {}

\* Ids the pool handed out and has not got back: by a thread's spawn, or on the
\* way there or back.
Held(t) == owned[t] \union InHand(t)

\* Two callers of spawn() never have the same node, and no node a caller has is
\* on the stack. (cluster_graph.h: "Treiber stack with ABA-tagged uint64 CAS".)
OneOwnerPerNode ==
    /\ \A t, u \in Threads : t # u => Held(t) \intersect Held(u) = {}
    /\ \A t \in Threads : InHand(t) \intersect owned[t] = {}
    /\ \A t \in Threads : Held(t) \intersect OnStack = {}

\* What the tag achieves: as long as no pop succeeded with a head word read
\* before the stack was last empty, every node has one owner, and no node that
\* was killed is lost: it is back on the stack or on its way.
OneOwnerUnlessReset == ~broken => OneOwnerPerNode

KilledNodesReturn ==
    ~broken => \A i \in Ids : i < node_count /\ ~alive[i] =>
        i \in OnStack \/ \E t \in Threads : i \in InHand(t)

\* A pop that succeeds on a head word no older than the last time the stack was
\* empty takes exactly the top off: what it read as the successor is still it.
PopsTakeTheTop ==
    [][\A t \in Threads : SpawnCas(t) /\ ~stale[t] /\ ~broken =>
          arg[t] = free_next[head[t].id]]_vars

\* node_count counts the slots in use plus the calls about to give one back
\* that was not there: what a reader sees runs past the arena by at most those.
CountCoversArena ==
    LET undo == {t \in Threads : pc[t] = "undo"}
    IN  /\ node_count - Cardinality(undo) \in InitialNodes .. Capacity
        /\ undo # {} => node_count - Cardinality(undo) = Capacity
        /\ \A i \in Ids : alive[i] => i < node_count

\* However spawn() and kill() of several threads interleave, also at the end of the
\* arena: the count covers what is in use, no node has two owners, and none is lost.
NodesAccounted == TypeOK /\ CountCoversArena /\ OneOwnerUnlessReset /\ KilledNodesReturn
=============================================================================

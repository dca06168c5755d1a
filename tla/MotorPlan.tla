------------------------------ MODULE MotorPlan ------------------------------
(***************************************************************************)
(* Motor plans in the graph: what a taught rule ("To save, press Control    *)
(* and S") leaves there (core/fpsan_reasoning.h), which plan of a concept   *)
(* is screened before it is carried out, by which policy, and which plan is *)
(* carried out (fpsan_live_core.cpp, core/fpsan_sandbox.h).                 *)
(*                                                                          *)
(* A motor node is its number in the order of spawning. Of a text only the  *)
(* markers the policy looks for are kept.                                   *)
(***************************************************************************)
EXTENDS Integers, Sequences, FiniteSets, SequencesExt

CONSTANTS Concepts,  \* language clusters that rules bind to motor nodes
          Rules,     \* sentences: sequences of [word, text] with text \subseteq Markers
          MaxChain,  \* MAX_MOTOR_CHAIN: motor nodes that are screened
          MaxTexts,  \* texts that fit in the 2048 characters that are screened
          MaxNodes   \* bound: motor nodes the arena has room for


VARIABLES
    motor_action,    \* the motor nodes, in the order they were spawned
    sequence_edge,   \* each one's first EDGE_SEQUENCE target, 0 for none
    implemented_by   \* the targets of a concept's EDGE_IMPLEMENTED_BY edges

plan == <<motor_action, sequence_edge, implemented_by>>

Markers == {"diskpart", "cipher", "/w", "format", "c:", "del ", "c:/"}
Action == [type : {"key", "launch", "sleep", "type"}, text : SUBSET Markers]

ASSUME PlanAssumption ==
    /\ Concepts # {}
    /\ Rules \subseteq Seq([word : {"press", "open", "type"}, text : SUBSET Markers])
    /\ MaxChain \in Nat \ {0} /\ MaxTexts \in Nat \ {0} /\ MaxNodes \in Nat

PlanInit ==
    /\ motor_action = <<>> /\ sequence_edge = <<>>
    /\ implemented_by = [c \in Concepts |-> <<>>]

----------------------------------------------------------------------------
\* The nodes a word asks for: "open" launches and then waits a while.
Nodes(w) ==
    CASE w.word = "press" -> <<[type |-> "key", text |-> {}]>>
      [] w.word = "open"  -> <<[type |-> "launch", text |-> w.text],
                               [type |-> "sleep", text |-> {}]>>
      [] w.word = "type"  -> <<[type |-> "type", text |-> w.text]>>

\* The nodes of a rule. What an exhausted arena has no room for is skipped, the
\* rest is learned all the same.
Room == MaxNodes - Len(motor_action)
Beginning(s, n) == SubSeq(s, 1, IF n < Len(s) THEN n ELSE Len(s))

\* Slips (operators named ...Slip, here and below): one change to the definition
\* each of them precedes that a property must not survive. Spec uses none.
SpawnedSlip(rule) ==                                \* takes it that there is room
    FlattenSeq([i \in DOMAIN rule |-> Nodes(rule[i])])

Spawned(rule) ==
    Beginning(FlattenSeq([i \in DOMAIN rule |-> Nodes(rule[i])]), Room)

\* ingest_motor_rule() when it returns true: a chain of new nodes behind the
\* concept. The concept's edge table is bounded: if it is full of stronger edges
\* the chain is spawned and stays unbound.
ingest_motor_rule(c, rule) ==
    LET first == Len(motor_action) + 1
        new == Spawned(rule)
    IN  /\ new # <<>>
        /\ motor_action' = motor_action \o new
        /\ sequence_edge' = sequence_edge
               \o [i \in DOMAIN new |-> IF i < Len(new) THEN first + i ELSE 0]
        /\ \/ implemented_by' = [implemented_by EXCEPT ![c] = Append(@, first)]
           \/ UNCHANGED implemented_by

\* A later edge of the concept that is stronger takes the place of the weakest.
EdgeEvicted(c) ==
    /\ implemented_by[c] # <<>>
    /\ implemented_by' = [implemented_by EXCEPT ![c] = Front(@)]
    /\ UNCHANGED <<motor_action, sequence_edge>>

----------------------------------------------------------------------------
\* The chain of a motor node, to its end.
Follow[n \in 0 .. Len(motor_action)] ==
    IF n = 0 THEN <<>> ELSE <<n>> \o Follow[sequence_edge[n]]

\* The chain of a motor node, while there is room for it.
Walk[room \in 0 .. MaxChain] ==
    [n \in 0 .. Len(motor_action) |->
        IF n = 0 \/ room = 0 THEN <<>> ELSE <<n>> \o Walk[room - 1][sequence_edge[n]]]

ScreenedChainSlip(c) ==                             \* the first chain only
    IF implemented_by[c] = <<>> THEN <<>> ELSE Walk[MaxChain][Head(implemented_by[c])]

\* collect_goal_motor_chain_flat(): the chains behind the concept, one after the
\* other, until MaxChain nodes are collected.
ScreenedChain(c) ==
    LET heads == implemented_by[c]
        Collect[k \in 0 .. Len(heads)] ==
            IF k = 0 THEN <<>>
            ELSE Collect[k - 1] \o Walk[MaxChain - Len(Collect[k - 1])][heads[k]]
    IN  Collect[Len(heads)]

\* The loop that queues the plan: every chain to its end.
QueuedChain(c) ==
    FlattenSeq([k \in DOMAIN implemented_by[c] |-> Follow[implemented_by[c][k]]])

\* motor_chain_text_blob_lower(): the texts of a chain that are looked at, the first
\* MaxTexts of them.
HasText(n) == motor_action[n].type \in {"launch", "type"}
Texts(chain) == {k \in DOMAIN chain : HasText(chain[k])}
MarkersOf(chain) == UNION {motor_action[n].text : n \in Range(chain)}
Blob(chain) ==
    UNION {motor_action[chain[k]].text :
           k \in {i \in Texts(chain) : Cardinality(Texts(chain) \intersect 1 .. i) <= MaxTexts}}

disk_ops_policy_blocks_lower(markers) ==
    \/ "diskpart" \in markers
    \/ {"cipher", "/w"} \subseteq markers
    \/ {"format", "c:"} \subseteq markers
    \/ {"del ", "c:/"} \subseteq markers

motor_chain_policy_blocks_disk_ops(chain) == disk_ops_policy_blocks_lower(Blob(chain))
=============================================================================

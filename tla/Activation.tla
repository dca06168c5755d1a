----------------------------- MODULE Activation -----------------------------
(***************************************************************************)
(* What is on the brain's mind: the voltages of cluster_graph.h, the tiers   *)
(* of fpsan_temporal_memory.h that decide how fast they fade, the spikes of  *)
(* fpsan_san_scheduler.h that pass them on, and the short-term memory with   *)
(* which the main loop carries the context of one turn into the next.        *)
(*                                                                          *)
(* All of it belongs to the main loop; only spikes are posted by others too. *)
(* A voltage is kept as a level: 0 below every cut-off, 1 above them, 2 at   *)
(* or above the threshold at which a spike is posted, -1 for the negative    *)
(* voltage of a word just said. How much a spread, a spike or a pulse adds   *)
(* is left open.                                                             *)
(***************************************************************************)
EXTENDS Integers, FiniteSets, SequencesExt

CONSTANTS Words,       \* nodes of words, always alive
          Hubs,        \* nodes an episode may get
          Directives,  \* words of data/core_directives.txt
          Succ,        \* the edges between words
          L1_CAP, STM_SIZE,
          QCap,        \* places in the spike queue
          MaxEvents,   \* spikes of one drain
          TopK         \* episodes reactivated at most

Nodes == Words \union Hubs

ASSUME ActivationAssumption ==
    /\ IsFiniteSet(Words) /\ IsFiniteSet(Hubs)
    /\ Words \intersect Hubs = {} /\ Directives \subseteq Words
    /\ Succ \in [Words -> SUBSET Words]
    /\ {L1_CAP, STM_SIZE, QCap, MaxEvents, TopK} \subseteq Nat \ {0}

VARIABLES
    pc,          \* where the main loop is
    level,       \* activation
    memory_tier, clamped,
    episodes,    \* hub -> the nodes it has an EDGE_EPISODIC_LINK to
    roster,      \* l1_nodes_ and, as an age in ticks that matter, l1_seen_
    queue,       \* posted spikes
    processed,   \* spikes of this drain
    stm, stm_write,
    sealed,      \* history: directives sealed in this graph
    remembered   \* history: what the last snapshot took

mind == <<level, memory_tier, clamped, episodes>>
spikes == <<queue, processed>>
context == <<stm, stm_write, remembered>>
vars == <<pc, mind, roster, spikes, context, sealed>>

Alive == Words \union DOMAIN episodes
None == "none"

\* Some order of each set of nodes: a heap's, or that of the edges.
InOrder == [S \in SUBSET Nodes |-> SetToSeq(S)]

\* seal_directive() for every directive of S, in a graph that was built or loaded.
SealedLevel(S) == [n \in Nodes |-> IF n \in S THEN 2 ELSE 0]
SealedTier(S) == [n \in Nodes |-> IF n \in S THEN "L3" ELSE "transient"]

Init ==
    /\ level = SealedLevel(Directives) /\ memory_tier = SealedTier(Directives)
    /\ sealed = Directives /\ clamped = [n \in Nodes |-> n \in sealed]
    /\ episodes = <<>>
    /\ pc = "idle" /\ roster = <<>>
    /\ queue = <<>> /\ processed = 0
    /\ stm = [i \in 0 .. STM_SIZE - 1 |-> None] /\ stm_write = 0
    /\ remembered = {}

----------------------------------------------------------------------------
(***************************************************************************)
(* Voltages                                                                 *)
(***************************************************************************)
\* The levels after voltage was added to the nodes of S.
Raised(S) ==
    {[n \in Nodes |-> IF n \in S THEN f[n] ELSE level[n]] :
       f \in {g \in [S -> -1 .. 2] : \A n \in S : g[n] >= level[n]}}

PostedSlip(q, s) == q \o s                          \* has no limit

\* The spikes of s are posted, one after the other; a full ring drops a spike.
Posted(q, s) ==
    SubSeq(q \o s, 1, IF QCap < Len(q) + Len(s) THEN QCap ELSE Len(q) + Len(s))

\* The same, with more of it than any cut-off.
Charged(S) == {f \in Raised(S) : \A n \in S : level[n] >= 0 => f[n] > 0}

\* add_voltage() for the nodes of S, those of T through add_voltage_to(): a spike for
\* each of these that reaches the threshold.
add_voltage(S, T) ==
    \E f \in Raised(S \union T) :
       /\ level' = f
       /\ queue' = Posted(IF pc = "drain" THEN Tail(queue) ELSE queue,
                          InOrder[{n \in T : level[n] < 2 /\ f[n] = 2}])

Cleared == [n \in Nodes |-> IF n \in Alive /\ ~clamped[n] THEN 0 ELSE level[n]]

FadingSlip == {n \in Nodes : memory_tier[n] # "L3"}  \* asks the tier only

Fading == {n \in Nodes : memory_tier[n] # "L3" /\ ~clamped[n]}

\* tick(): what is clamped is full, whatever its tier; the third tier keeps what it
\* has; the others fade, and nothing stays refractory there.
Decayed ==
    {[n \in Nodes |-> IF n \in Fading THEN f[n] ELSE IF clamped[n] THEN 2 ELSE level[n]] :
       f \in {g \in [Fading -> 0 .. 2] : \A n \in Fading : g[n] <= level[n] \/ g[n] = 0}}

----------------------------------------------------------------------------
(***************************************************************************)
(* The working set                                                          *)
(***************************************************************************)
Slot(c) == {i \in DOMAIN roster : roster[i].node = c}
Fresh(c) == [node |-> c, age |-> 0]

\* evict_lru_(): the first of those that were not seen for longest.
Oldest == CHOOSE i \in DOMAIN roster :
             \A j \in DOMAIN roster :
                \/ roster[j].age < roster[i].age
                \/ roster[j].age = roster[i].age /\ j >= i

DemotedSlip(S) == memory_tier                       \* leaves the tier as it is

Demoted(S) == [n \in Nodes |-> IF n \in S /\ memory_tier[n] = "L1" THEN "transient"
                               ELSE memory_tier[n]]

\* promote_to_l1() does not look at the tier the node had.
promote_to_l1(c) ==
    IF Slot(c) # {}
    THEN /\ roster' = [i \in DOMAIN roster |->
                          IF i \in Slot(c) THEN Fresh(c) ELSE roster[i]]
         /\ memory_tier' = [memory_tier EXCEPT ![c] = "L1"]
    ELSE IF Len(roster) < L1_CAP
    THEN /\ roster' = Append(roster, Fresh(c))
         /\ memory_tier' = [memory_tier EXCEPT ![c] = "L1"]
    ELSE /\ roster' = [roster EXCEPT ![Oldest] = Fresh(c)]
         /\ memory_tier' = [Demoted({roster[Oldest].node}) EXCEPT ![c] = "L1"]

Members == {roster[i].node : i \in DOMAIN roster}

\* A tick later; ages that no entry has are closed up.
Aged == [i \in DOMAIN roster |->
           [roster[i] EXCEPT !.age =
               1 + Cardinality({roster[j].age : j \in DOMAIN roster} \intersect 0 .. @ - 1)]]
\* The gate of phase 11 drives these two; the main loop does not.
clear_working_slots ==
    /\ pc = "idle"
    /\ memory_tier' = Demoted(Members) /\ roster' = <<>>
    /\ UNCHANGED <<pc, level, clamped, episodes, spikes, context, sealed>>

spawn_episode ==
    /\ pc = "idle"
    /\ \E h \in Hubs \ DOMAIN episodes :
          /\ episodes' = [e \in DOMAIN episodes \union {h} |->
                            IF e = h THEN Members ELSE episodes[e]]
          /\ memory_tier' = [memory_tier EXCEPT ![h] = "L2"]
          /\ level' = [level EXCEPT ![h] = 1]
    /\ UNCHANGED <<pc, clamped, roster, spikes, context, sealed>>

----------------------------------------------------------------------------
(***************************************************************************)
(* A turn                                                                   *)
(***************************************************************************)
\* stm_snapshot() at levels l: the most active, at most as many as there are places.
Best(l) ==
    LET active == {n \in Alive : l[n] > 0}
        places == IF Cardinality(active) < STM_SIZE THEN Cardinality(active) ELSE STM_SIZE
    IN  {S \in SUBSET active : /\ Cardinality(S) = places
                              /\ \A n \in S, m \in active \ S : l[m] <= l[n]}

WrittenSlip(s) == [i \in DOMAIN stm |->             \* stops at the last place
                     LET k == i - stm_write
                     IN  IF k \in 0 .. Len(s) - 1 THEN s[k + 1] ELSE stm[i]]

Written(s) == [i \in DOMAIN stm |->
                 LET k == (i - stm_write) % STM_SIZE
                 IN  IF k < Len(s) THEN s[k + 1] ELSE stm[i]]

Snapshot(l) ==
    \E S \in Best(l) :
       /\ remembered' = S
       /\ stm' = Written(InOrder[S])
       /\ stm_write' = (stm_write + Cardinality(S)) % STM_SIZE

\* The wake word raises every node, half a volt each; then "Listening." is said. A
\* turn may follow, or another command.
Wake ==
    /\ pc = "idle"
    /\ \E f \in Charged(Alive) : level' = f /\ Snapshot(f)
    /\ UNCHANGED <<pc, memory_tier, clamped, episodes, roster, spikes, sealed>>

\* A sentence, typed or heard: its words enter the working set, one after the other.
Perceive ==
    /\ pc \in {"idle", "perceive"} /\ pc' = "perceive"
    /\ \E c \in Words : promote_to_l1(c)
    /\ UNCHANGED <<level, clamped, episodes, spikes, context, sealed>>

\* clear_activation(): a sentence with a known word, promoted or not, is put in context;
\* ?word, and a sentence nothing could be said to, go on to think at once.
Clear ==
    /\ \/ pc \in {"idle", "perceive"} /\ pc' = "cleared"
       \/ pc \in {"idle", "perceive", "thinking"} /\ pc' = "thinking"
    /\ level' = Cleared
    /\ UNCHANGED <<memory_tier, clamped, episodes, roster, spikes, context, sealed>>

\* 0.3 V for each place of the short-term memory: more than any cut-off.
Prime ==
    /\ pc = "cleared" /\ pc' = "primed"
    /\ LET S == {stm[i] : i \in DOMAIN stm} \intersect Alive
       IN  level' \in Charged(S)
    /\ UNCHANGED <<memory_tier, clamped, episodes, roster, spikes, context, sealed>>

\* reactivate_similar_episodes(): of the episodes the cue was in, with enough of
\* their nodes active, those with most.
Hits(h) == Cardinality({n \in episodes[h] : level[n] > 0})
MoreSimilar(g, h) == Hits(g) * Cardinality(episodes[h]) > Hits(h) * Cardinality(episodes[g])
Candidates(cue) == {h \in DOMAIN episodes :
                      cue \in episodes[h] /\ 5 * Hits(h) >= Cardinality(episodes[h])}
Similar(cue) ==
    {S \in SUBSET Candidates(cue) :
       /\ Cardinality(S) = IF Cardinality(Candidates(cue)) < TopK
                           THEN Cardinality(Candidates(cue)) ELSE TopK
       /\ \A h \in S, g \in Candidates(cue) \ S : ~MoreSimilar(g, h)}

Reactivate ==
    /\ pc = "primed" /\ pc' = "thinking"
    /\ \E cue \in Words : \E S \in Similar(cue) :
          add_voltage(S, UNION {episodes[h] : h \in S})
    /\ UNCHANGED <<memory_tier, clamped, episodes, roster, processed, context, sealed>>

\* jarvis_say() of anything else than what was thought of.
Say ==
    /\ pc = "idle" /\ pc' = pc
    /\ Snapshot(level)
    /\ UNCHANGED <<mind, roster, spikes, sealed>>

\* What spread_activation() reaches is raised, never lowered, and without a spike; what
\* is said, up to the last word, is left refractory, directives too.
Spread(l, n) == l[n] >= level[n]
Refractory(l, n) == n \in Words /\ l[n] = -1

Thoughts == {[n \in Nodes |-> IF n \in Alive THEN f[n] ELSE level[n]] :
               f \in {l \in [Alive -> -1 .. 2] :
                       \A n \in Alive : Spread(l, n) \/ Refractory(l, n)}}

\* The reply, then said.
Think ==
    /\ pc = "thinking" /\ pc' = "idle"
    /\ \E l \in Thoughts : level' = l /\ Snapshot(l)
    /\ UNCHANGED <<memory_tier, clamped, episodes, roster, spikes, sealed>>

----------------------------------------------------------------------------
(***************************************************************************)
(* A tick, and the spikes of a tick                                         *)
(***************************************************************************)
Tick ==
    /\ pc = "idle" /\ pc' = "drain"
    /\ level' \in Decayed
    /\ roster' = Aged
    /\ UNCHANGED <<memory_tier, clamped, episodes, spikes, context, sealed>>

Targets(n) == CASE n \in Words -> Succ[n]
                [] n \in DOMAIN episodes -> episodes[n]
                [] OTHER -> {}

\* propagate_one_nolock(): the hop of an event is never counted, so it never stops one.
Propagate ==
    /\ pc = "drain" /\ queue # <<>> /\ processed < MaxEvents
    /\ add_voltage({}, Targets(Head(queue)))
    /\ processed' = processed + 1
    /\ UNCHANGED <<pc, memory_tier, clamped, episodes, roster, context, sealed>>

DrainedSlip ==                                      \* counts nothing
    /\ pc = "drain" /\ pc' = "idle"
    /\ queue = <<>> /\ processed' = 0
    /\ UNCHANGED <<mind, roster, queue, context, sealed>>

Drained ==
    /\ pc = "drain" /\ pc' = "idle"
    /\ queue = <<>> \/ processed = MaxEvents
    /\ processed' = 0
    /\ UNCHANGED <<mind, roster, queue, context, sealed>>

\* post_spike() by somebody else, while the main loop drains: one posted before might
\* as well be posted as the drain begins, nothing reads the queue in between.
post_spike ==
    /\ pc = "drain"
    /\ \E n \in Words : queue' = Posted(queue, <<n>>)
    /\ UNCHANGED <<pc, mind, roster, processed, context, sealed>>

----------------------------------------------------------------------------
(***************************************************************************)
(* Another graph                                                            *)
(***************************************************************************)
\* /load: the words and some episodes come back, quiet; nothing is sealed.
Load ==
    /\ pc = "idle"
    /\ \E E \in SUBSET DOMAIN episodes : episodes' = [e \in E |-> episodes[e]]
    /\ level' = SealedLevel({}) /\ memory_tier' = SealedTier({})
    /\ sealed' = {} /\ clamped' = [n \in Nodes |-> FALSE]
    /\ UNCHANGED <<pc, roster, spikes, context>>

\* /reset: the directives are sealed again.
Reset ==
    /\ pc = "idle"
    /\ episodes' = <<>>
    /\ level' = SealedLevel(Directives) /\ memory_tier' = SealedTier(Directives)
    /\ sealed' = Directives /\ clamped' = [n \in Nodes |-> n \in Directives]
    /\ UNCHANGED <<pc, roster, spikes, context>>

Next ==
    \/ clear_working_slots \/ spawn_episode
    \/ Wake \/ Perceive \/ Clear \/ Prime \/ Reactivate \/ Think \/ Say
    \/ Tick \/ Propagate \/ Drained \/ post_spike
    \/ Load \/ Reset

Spec == Init /\ [][Next]_vars

\* The main loop runs on.
FairSpec == Spec /\ WF_vars(Propagate \/ Drained)

----------------------------------------------------------------------------
(***************************************************************************)
(* Properties                                                               *)
(***************************************************************************)
TypeOK ==
    /\ pc \in {"idle", "perceive", "cleared", "primed", "thinking", "drain"}
    /\ level \in [Nodes -> -1 .. 2] /\ clamped \in [Nodes -> BOOLEAN]
    /\ memory_tier \in [Nodes -> {"transient", "L1", "L2", "L3"}]
    /\ DOMAIN episodes \subseteq Hubs
    /\ \A h \in DOMAIN episodes : episodes[h] \subseteq Words
    /\ roster \in Seq([node : Words, age : 0 .. L1_CAP]) /\ Len(roster) <= L1_CAP
    /\ queue \in Seq(Nodes) /\ Len(queue) <= QCap /\ processed \in 0 .. MaxEvents
    /\ stm \in [0 .. STM_SIZE - 1 -> Nodes \union {None}]
    /\ stm_write \in 0 .. STM_SIZE - 1
    /\ sealed \subseteq Directives /\ remembered \subseteq Nodes

\* What fades as the working set does is in the working set: no word stays in the
\* first tier without a slot, whatever is promoted, evicted, sealed, loaded or reset
\* in between, and no word has two slots.
WorkingSetBounded ==
    /\ {n \in Nodes : memory_tier[n] = "L1"} \subseteq Members
    /\ \A i, j \in DOMAIN roster : roster[i].node = roster[j].node => i = j

\* "L3 + directives retain voltage": a directive that was sealed is at full voltage
\* after every tick, also when it was said just before, lost its tier to the working
\* set and its slot there to other words.
DirectivesLit == pc = "drain" => \A d \in sealed : level[d] = 2

\* What the last snapshot took, of a reply, a comment or "Listening.", is active when
\* the next sentence is put in context: it has its places in the ring, wherever that
\* was written before, and nothing cleared, faded, loaded or left refractory undoes it.
ContextPrimed == pc = "primed" => \A n \in remembered \intersect Alive : level[n] > 0

\* "Contextual awareness of the previous dialogue turn": nothing but the reply of a turn
\* replaces what the next one is primed with. Refuted: whatever is said in between
\* does, and "Listening." with any nodes, all of them having just been raised.
ContextKept == [][stm' # stm => pc = "thinking"]_vars

\* A drain ends, although spikes raise others and others keep posting.
DrainEnds == pc = "drain" ~> pc # "drain"
=============================================================================

-------------------------- MODULE ActivationProofs --------------------------
(***************************************************************************)
(* Proofs about Activation, for every set of words, hubs and directives and  *)
(* every size of the working set, the queue and the short-term memory.       *)
(***************************************************************************)
EXTENDS Activation, FiniteSetTheorems, WellFoundedInduction, TLAPS

\* The part of TypeOK that the working set and the directives rest on.
Ages == 0 .. L1_CAP
Entry == [node : Words, age : Ages]

MindOK ==
    /\ level \in [Nodes -> -1 .. 2] /\ clamped \in [Nodes -> BOOLEAN]
    /\ memory_tier \in [Nodes -> {"transient", "L1", "L2", "L3"}]
    /\ roster \in Seq(Entry) /\ Len(roster) <= L1_CAP
    /\ sealed \subseteq Nodes

\* What makes DirectivesLit inductive: the seal clamps, and nothing but another
\* graph takes a clamp away.
SealClamps == \A d \in sealed : clamped[d]

IInv == MindOK /\ WorkingSetBounded /\ SealClamps /\ DirectivesLit

----------------------------------------------------------------------------
LEMMA ConstantTypes ==
    /\ L1_CAP \in Nat /\ L1_CAP > 0
    /\ Words \intersect Hubs = {} /\ Directives \subseteq Words
    /\ Words \subseteq Nodes /\ Hubs \subseteq Nodes
BY ActivationAssumption DEF Nodes

USE ConstantTypes

Less == {ss \in Nat \X Nat : ss[1] < ss[2]}

LEMMA LessWellFounded == IsWellFoundedOn(Less, Nat)
BY NatLessThanWellFounded DEF OpToRel, Less

LEMMA LeastNatural ==
    ASSUME NEW T \in SUBSET Nat, T # {}
    PROVE  \E x \in T : \A y \in T : x <= y
<1>1. PICK x \in T : \A y \in T : <<y, x>> \notin Less
  BY LessWellFounded, WFMin
<1>2. ASSUME NEW y \in T
      PROVE  x <= y
  <2>1. <<y, x>> \in Nat \X Nat
    OBVIOUS
  <2>2. ~(y < x)
    BY <1>1, <2>1 DEF Less
  <2> QED
    BY <2>2
<1> QED
  BY <1>2

\* The entry that evict_lru_() replaces is one of the roster.
LEMMA OldestIsThere ==
    ASSUME roster \in Seq(Entry), Len(roster) > 0
    PROVE  Oldest \in DOMAIN roster
<1> DEFINE Bound == L1_CAP + 1
           Youth == {Bound - roster[i].age : i \in DOMAIN roster}
<1>1. \A i \in DOMAIN roster : roster[i].age \in Nat /\ Bound - roster[i].age \in Nat
  <2>1. \A i \in DOMAIN roster : roster[i] \in Entry
    OBVIOUS
  <2>2. \A e \in Entry : e.age \in 0 .. Bound
    BY DEF Entry, Ages
  <2> HIDE DEF Entry
  <2> QED
    BY <2>1, <2>2
<1>2. Youth \in SUBSET Nat /\ Youth # {}
  BY <1>1
<1>3. PICK y \in Youth : \A z \in Youth : y <= z
  BY <1>2, LeastNatural
<1> DEFINE First == {i \in DOMAIN roster : Bound - roster[i].age = y}
<1>4. First \in SUBSET Nat /\ First # {}
  BY <1>3
<1>5. PICK i \in First : \A j \in First : i <= j
  BY <1>4, LeastNatural
<1>6. ASSUME NEW j \in DOMAIN roster
      PROVE  \/ roster[j].age < roster[i].age
             \/ roster[j].age = roster[i].age /\ j >= i
  <2>1. i \in DOMAIN roster /\ Bound - roster[i].age = y
    BY <1>5
  <2>2. y <= Bound - roster[j].age
    BY <1>3
  <2>3. CASE roster[j].age = roster[i].age
    BY <1>5, <2>1, <2>3
  <2>4. CASE roster[j].age # roster[i].age
    BY <1>1, <2>1, <2>2, <2>4
  <2> QED
    BY <2>3, <2>4
<1>7. i \in DOMAIN roster
  BY <1>5
<1> QED
  BY <1>6, <1>7 DEF Oldest

\* A tick keeps the nodes of the roster and the bound of the ages.
LEMMA AgedRoster ==
    ASSUME roster \in Seq(Entry), Len(roster) <= L1_CAP
    PROVE  /\ Aged \in Seq(Entry) /\ Len(Aged) = Len(roster)
           /\ \A i \in DOMAIN roster : Aged[i].node = roster[i].node
<1> DEFINE S == {roster[j].age : j \in DOMAIN roster}
           Older(e) == 1 + Cardinality(S \intersect 0 .. e.age - 1)
           Present == {e \in Entry : e.age \in S}
<1>1. Len(roster) \in Nat /\ DOMAIN roster = 1 .. Len(roster)
  OBVIOUS
<1>2. IsFiniteSet(DOMAIN roster) /\ Cardinality(DOMAIN roster) = Len(roster)
  <2> DEFINE k == Len(roster)
  <2>1. IsFiniteSet(1 .. k) /\ Cardinality(1 .. k) = IF 1 > k THEN 0 ELSE k - 1 + 1
    BY <1>1, FS_Interval, 1 \in Int, k \in Int
  <2> HIDE DEF k
  <2> QED
    BY <1>1, <2>1 DEF k
<1>3. IsFiniteSet(S) /\ Cardinality(S) <= Len(roster)
  <2> DEFINE f == [j \in DOMAIN roster |-> roster[j].age]
  <2>1. f \in Surjection(DOMAIN roster, S)
    BY DEF Surjection
  <2> QED
    BY <1>2, <2>1, FS_Surjection
<1>4. ASSUME NEW e \in Present
      PROVE  Older(e) \in Ages
  <2> DEFINE T == S \intersect 0 .. e.age - 1
             U == S \ {e.age}
  <2>1. IsFiniteSet(U) /\ Cardinality(U) = Cardinality(S) - 1
    BY <1>3, FS_RemoveElement
  <2>2. e.age \in Nat
    BY DEF Entry, Ages
  <2>3. IsFiniteSet(T) /\ Cardinality(T) <= Cardinality(U)
    <3>1. T \in SUBSET U
      BY <2>2
    <3> HIDE DEF T, U
    <3> QED
      BY <2>1, <3>1, FS_Subset
  <2>4. Cardinality(T) \in Nat /\ Cardinality(S) \in Nat
    BY <1>3, <2>3, FS_CardinalityType
  <2> HIDE DEF T, U
  <2>5. Cardinality(T) + 1 <= L1_CAP
    BY <1>3, <2>1, <2>3, <2>4
  <2> QED
    BY <2>4, <2>5 DEF Ages, T
<1>5. Aged = [i \in DOMAIN roster |-> [roster[i] EXCEPT !.age = Older(roster[i])]]
  BY DEF Aged
<1> HIDE DEF Older
<1>6. ASSUME NEW e \in Present
      PROVE  /\ [e EXCEPT !.age = Older(e)] \in Entry
             /\ [e EXCEPT !.age = Older(e)].node = e.node
  BY <1>4 DEF Entry
<1>7. \A i \in DOMAIN roster : roster[i] \in Present
  <2>1. \A i \in DOMAIN roster : roster[i] \in Entry
    OBVIOUS
  <2> QED
    BY <2>1
<1> DEFINE aged(i) == [roster[i] EXCEPT !.age = Older(roster[i])]
<1>8. \A i \in DOMAIN roster : aged(i) \in Entry /\ aged(i).node = roster[i].node
  BY <1>6, <1>7
<1>9. Aged = [i \in 1 .. Len(roster) |-> aged(i)]
  BY <1>1, <1>5
<1> HIDE DEF Entry, aged
<1>10. Aged \in Seq(Entry) /\ Len(Aged) = Len(roster)
  BY <1>1, <1>8, <1>9
<1> QED
  BY <1>1, <1>8, <1>9, <1>10

----------------------------------------------------------------------------
LEMMA InitInv == Init => IInv
<1> SUFFICES ASSUME Init PROVE IInv
  OBVIOUS
<1>1. Directives \subseteq Nodes /\ \A n \in Nodes : memory_tier[n] # "L1"
  BY DEF Init, SealedTier
<1>2. roster \in Seq(Entry) /\ Len(roster) = 0
  BY DEF Init
<1>3. MindOK
  BY <1>1, <1>2 DEF Init, MindOK, SealedLevel, SealedTier
<1>4. WorkingSetBounded
  BY <1>1, <1>2 DEF WorkingSetBounded
<1>5. SealClamps /\ DirectivesLit
  BY <1>1 DEF Init, SealClamps, DirectivesLit
<1> QED
  BY <1>3, <1>4, <1>5 DEF IInv

\* Voltage that is added dims no directive.
LEMMA RaisedLevels ==
    ASSUME MindOK, NEW S, NEW f \in Raised(S)
    PROVE  f \in [Nodes -> -1 .. 2] /\ \A n \in Nodes : f[n] >= level[n]
<1>1. PICK g \in [S -> -1 .. 2] :
         /\ \A n \in S : g[n] >= level[n]
         /\ f = [n \in Nodes |-> IF n \in S THEN g[n] ELSE level[n]]
  BY DEF Raised
<1> QED
  BY <1>1 DEF MindOK

LEMMA AddedLevels ==
    ASSUME MindOK, NEW S, NEW T, add_voltage(S, T)
    PROVE  level' \in [Nodes -> -1 .. 2] /\ \A n \in Nodes : level'[n] >= level[n]
<1>1. PICK f \in Raised(S \union T) : level' = f
  BY DEF add_voltage
<1> QED
  BY <1>1, RaisedLevels

\* promote_to_l1() of a node that has a slot, one that is given a free slot, and one
\* that is given the slot of another.
LEMMA Promoted ==
    ASSUME MindOK, WorkingSetBounded, NEW c \in Words, promote_to_l1(c)
    PROVE  /\ roster' \in Seq(Entry) /\ Len(roster') <= L1_CAP
           /\ memory_tier' \in [Nodes -> {"transient", "L1", "L2", "L3"}]
           /\ WorkingSetBounded'
<1>1. Fresh(c) \in Entry /\ Fresh(c).node = c
  BY DEF Fresh, Entry, Ages
<1>2. Len(roster) \in Nat /\ DOMAIN roster = 1 .. Len(roster)
      /\ \A i \in DOMAIN roster : roster[i] \in Entry
  BY DEF MindOK
<1>3. c \in Nodes
  OBVIOUS
<1>4. CASE Slot(c) # {}
  <2>1. /\ roster' = [i \in DOMAIN roster |-> IF i \in Slot(c) THEN Fresh(c) ELSE roster[i]]
        /\ memory_tier' = [memory_tier EXCEPT ![c] = "L1"]
    BY <1>4 DEF promote_to_l1
  <2>2. /\ DOMAIN roster' = DOMAIN roster
        /\ \A i \in DOMAIN roster : roster'[i] \in Entry /\ roster'[i].node = roster[i].node
    BY <1>1, <1>2, <2>1 DEF Slot
  <2>3. roster' \in Seq(Entry) /\ Len(roster') = Len(roster)
    <3> HIDE DEF Entry
    <3>1. roster' = [i \in 1 .. Len(roster) |-> roster'[i]]
      BY <1>2, <2>1
    <3> QED
      BY <1>2, <2>2, <3>1
  <2>4. Members' = Members /\ c \in Members
    BY <1>4, <2>2 DEF Members, Slot
  <2>5. WorkingSetBounded'
    BY <1>3, <2>1, <2>2, <2>4 DEF WorkingSetBounded, MindOK
  <2> QED
    BY <2>1, <2>3, <2>5 DEF MindOK
<1>5. CASE Slot(c) = {} /\ Len(roster) < L1_CAP
  <2>1. roster' = Append(roster, Fresh(c)) /\ memory_tier' = [memory_tier EXCEPT ![c] = "L1"]
    BY <1>5 DEF promote_to_l1
  <2>2. roster' \in Seq(Entry) /\ Len(roster') = Len(roster) + 1
    BY <1>1, <2>1 DEF MindOK
  <2>3. /\ DOMAIN roster' = DOMAIN roster \union {Len(roster) + 1}
        /\ \A i \in DOMAIN roster : roster'[i] = roster[i]
        /\ roster'[Len(roster) + 1] = Fresh(c)
    BY <1>1, <1>2, <2>1, <2>2 DEF MindOK
  <2>4. Members \subseteq Members' /\ c \in Members'
    BY <1>1, <2>3 DEF Members
  <2>5. \A i \in DOMAIN roster : roster[i].node # c
    BY <1>5 DEF Slot
  <2>6. WorkingSetBounded'
    BY <1>1, <1>3, <2>1, <2>3, <2>4, <2>5 DEF WorkingSetBounded, MindOK
  <2> QED
    BY <1>2, <1>5, <2>1, <2>2, <2>6 DEF MindOK
<1>6. CASE Slot(c) = {} /\ ~(Len(roster) < L1_CAP)
  <2>1. /\ roster' = [roster EXCEPT ![Oldest] = Fresh(c)]
        /\ memory_tier' = [Demoted({roster[Oldest].node}) EXCEPT ![c] = "L1"]
    BY <1>6 DEF promote_to_l1
  <2>2. Oldest \in DOMAIN roster
    BY <1>2, <1>6, OldestIsThere DEF MindOK
  <2> HIDE DEF Oldest
  <2>3. roster' \in Seq(Entry) /\ Len(roster') = Len(roster)
    BY <1>1, <2>1, <2>2 DEF MindOK
  <2>4. /\ DOMAIN roster' = DOMAIN roster
        /\ \A i \in DOMAIN roster : roster'[i] = IF i = Oldest THEN Fresh(c) ELSE roster[i]
    BY <2>1
  <2>5. \A i \in DOMAIN roster : roster[i].node # c
    BY <1>6 DEF Slot
  <2>6. memory_tier' \in [Nodes -> {"transient", "L1", "L2", "L3"}]
    BY <2>1 DEF Demoted, MindOK
  <2>7. \A n \in Nodes : memory_tier'[n] = "L1" =>
           n = c \/ (memory_tier[n] = "L1" /\ n # roster[Oldest].node)
    BY <2>1 DEF Demoted, MindOK
  <2>8. c \in Members'
    BY <1>1, <2>2, <2>4 DEF Members
  <2>9. Members \ {roster[Oldest].node} \subseteq Members'
    BY <2>4 DEF Members
  <2>10. {n \in Nodes : memory_tier'[n] = "L1"} \subseteq Members'
    BY <2>7, <2>8, <2>9 DEF WorkingSetBounded
  <2>11. \A i, j \in DOMAIN roster' : roster'[i].node = roster'[j].node => i = j
    BY <1>1, <2>4, <2>5 DEF WorkingSetBounded
  <2> QED
    BY <1>2, <2>3, <2>6, <2>10, <2>11 DEF WorkingSetBounded, MindOK
<1> QED
  BY <1>4, <1>5, <1>6

\* What a step does that leaves tiers, roster and seals alone and only adds voltage.
LEMMA Brightened ==
    ASSUME IInv, level' \in [Nodes -> -1 .. 2],
           pc' = "drain" => pc = "drain" /\ \A n \in Nodes : level'[n] >= level[n],
           UNCHANGED <<memory_tier, clamped, roster, sealed>>
    PROVE  IInv'
<1>1. MindOK' /\ WorkingSetBounded' /\ SealClamps'
  BY DEF IInv, MindOK, WorkingSetBounded, Members, SealClamps
<1>2. DirectivesLit'
  <2> SUFFICES ASSUME pc' = "drain", NEW d \in sealed
               PROVE  level'[d] = 2
    BY DEF DirectivesLit
  <2>1. d \in Nodes /\ level[d] = 2 /\ level'[d] >= level[d] /\ level'[d] \in -1 .. 2
    BY DEF IInv, MindOK, DirectivesLit
  <2> QED
    BY <2>1
<1> QED
  BY <1>1, <1>2 DEF IInv

\* Another graph: no word is in the first tier, the sealed ones are clamped.
LEMMA OtherGraph ==
    ASSUME IInv, NEW S \in SUBSET Directives, pc' = "idle",
           level' = SealedLevel(S), memory_tier' = SealedTier(S), sealed' = S,
           clamped' \in [Nodes -> BOOLEAN], \A n \in S : clamped'[n], UNCHANGED roster
    PROVE  IInv'
<1>1. S \subseteq Nodes
  OBVIOUS
<1>2. /\ level' \in [Nodes -> -1 .. 2]
      /\ memory_tier' \in [Nodes -> {"transient", "L1", "L2", "L3"}]
      /\ \A n \in Nodes : memory_tier'[n] # "L1"
  BY DEF SealedLevel, SealedTier
<1>3. MindOK'
  BY <1>1, <1>2 DEF IInv, MindOK
<1>4. WorkingSetBounded'
  BY <1>2 DEF IInv, WorkingSetBounded, Members
<1> QED
  BY <1>1, <1>3, <1>4 DEF IInv, SealClamps, DirectivesLit

LEMMA StepInv == IInv /\ [Next]_vars => IInv'
<1> SUFFICES ASSUME IInv, [Next]_vars PROVE IInv'
  OBVIOUS
<1>t. /\ level \in [Nodes -> -1 .. 2] /\ \A n \in Nodes : level[n] >= level[n]
      /\ MindOK /\ WorkingSetBounded
  BY DEF IInv, MindOK
<1>1. CASE clear_working_slots
  <2>1. memory_tier' = Demoted(Members) /\ roster' = <<>>
    BY <1>1 DEF clear_working_slots
  <2>2. /\ memory_tier' \in [Nodes -> {"transient", "L1", "L2", "L3"}]
        /\ \A n \in Nodes : memory_tier'[n] # "L1"
    BY <1>t, <2>1 DEF Demoted, MindOK, WorkingSetBounded
  <2>3. MindOK'
    BY <1>1, <1>t, <2>1, <2>2 DEF clear_working_slots, MindOK
  <2> QED
    BY <1>1, <2>1, <2>2, <2>3 DEF clear_working_slots, IInv, WorkingSetBounded,
                                  SealClamps, DirectivesLit
<1>2. CASE spawn_episode
  <2>1. PICK h \in Hubs : /\ memory_tier' = [memory_tier EXCEPT ![h] = "L2"]
                          /\ level' = [level EXCEPT ![h] = 1]
    BY <1>2 DEF spawn_episode
  <2>2. MindOK'
    BY <1>2, <1>t, <2>1 DEF spawn_episode, MindOK
  <2>3. WorkingSetBounded'
    BY <1>2, <1>t, <2>1 DEF spawn_episode, MindOK, WorkingSetBounded, Members
  <2> QED
    BY <1>2, <2>2, <2>3 DEF spawn_episode, IInv, SealClamps, DirectivesLit
<1>3. CASE Wake
  <2>1. level' \in Raised(Alive)
    BY <1>3 DEF Wake, Charged
  <2>2. level' \in [Nodes -> -1 .. 2]
    BY <1>t, <2>1, RaisedLevels
  <2> QED
    BY <1>3, <2>2, Brightened DEF Wake
<1>4. CASE Perceive
  <2>1. PICK c \in Words : promote_to_l1(c)
    BY <1>4 DEF Perceive
  <2>2. /\ roster' \in Seq(Entry) /\ Len(roster') <= L1_CAP
        /\ memory_tier' \in [Nodes -> {"transient", "L1", "L2", "L3"}]
        /\ WorkingSetBounded'
    BY <1>t, <2>1, Promoted
  <2>3. MindOK'
    BY <1>4, <1>t, <2>2 DEF Perceive, MindOK
  <2> QED
    BY <1>4, <2>2, <2>3 DEF Perceive, IInv, SealClamps, DirectivesLit
<1>5. CASE Clear
  <2>1. level' \in [Nodes -> -1 .. 2]
    BY <1>5, <1>t DEF Clear, Cleared
  <2> QED
    BY <1>5, <2>1, Brightened DEF Clear
<1>6. CASE Prime
  <2>1. PICK S : level' \in Raised(S)
    BY <1>6 DEF Prime, Charged
  <2>2. level' \in [Nodes -> -1 .. 2]
    BY <1>t, <2>1, RaisedLevels
  <2> QED
    BY <1>6, <2>2, Brightened DEF Prime
<1>7. CASE Reactivate
  <2>1. PICK S, T : add_voltage(S, T)
    BY <1>7 DEF Reactivate
  <2>2. level' \in [Nodes -> -1 .. 2]
    BY <1>t, <2>1, AddedLevels
  <2> QED
    BY <1>7, <2>2, Brightened DEF Reactivate
<1>8. CASE Think
  <2>1. level' \in [Nodes -> -1 .. 2]
    BY <1>8, <1>t DEF Think, Thoughts
  <2> QED
    BY <1>8, <2>1, Brightened DEF Think
<1>9. CASE Say
  BY <1>9, <1>t, Brightened DEF Say, mind
<1>10. CASE Tick
  <2>1. PICK f \in [Fading -> 0 .. 2] :
           level' = [n \in Nodes |-> IF n \in Fading THEN f[n]
                                     ELSE IF clamped[n] THEN 2 ELSE level[n]]
    BY <1>10 DEF Tick, Decayed
  <2>2. \A n \in Fading : f[n] \in 0 .. 2
    OBVIOUS
  <2>3. level' \in [Nodes -> -1 .. 2]
    BY <1>t, <2>1, <2>2
  <2>4. roster' = Aged /\ UNCHANGED <<memory_tier, clamped, sealed>>
    BY <1>10 DEF Tick
  <2>5. /\ roster' \in Seq(Entry) /\ Len(roster') = Len(roster)
        /\ \A i \in DOMAIN roster : roster'[i].node = roster[i].node
    BY <1>t, <2>4, AgedRoster DEF MindOK
  <2>6. MindOK'
    BY <1>t, <2>3, <2>4, <2>5 DEF MindOK
  <2>7. DOMAIN roster' = DOMAIN roster
    BY <1>t, <2>5 DEF MindOK
  <2>8. WorkingSetBounded'
    BY <1>t, <2>4, <2>5, <2>7 DEF WorkingSetBounded, Members
  <2>9. SealClamps' /\ DirectivesLit'
    BY <1>t, <2>1, <2>4 DEF IInv, MindOK, SealClamps, DirectivesLit, Fading
  <2> QED
    BY <2>6, <2>8, <2>9 DEF IInv
<1>11. CASE Propagate
  <2>1. add_voltage({}, Targets(Head(queue)))
    BY <1>11 DEF Propagate
  <2>2. level' \in [Nodes -> -1 .. 2] /\ \A n \in Nodes : level'[n] >= level[n]
    BY <1>t, <2>1, AddedLevels
  <2> QED
    BY <1>11, <2>2, Brightened DEF Propagate
<1>12. CASE Drained
  BY <1>12, <1>t, Brightened DEF Drained, mind
<1>13. CASE post_spike
  BY <1>13, <1>t, Brightened DEF post_spike, mind
<1>14. CASE Load
  <2>1. clamped' \in [Nodes -> BOOLEAN]
    BY <1>14 DEF Load
  <2> QED
    BY <1>14, <2>1, OtherGraph DEF Load
<1>15. CASE Reset
  <2>1. clamped' = [n \in Nodes |-> n \in Directives]
    BY <1>15 DEF Reset
  <2>2. clamped' \in [Nodes -> BOOLEAN]
    BY <2>1
  <2>3. \A n \in Directives : clamped'[n]
    BY <2>1
  <2> QED
    BY <1>15, <2>2, <2>3, OtherGraph DEF Reset
<1>16. CASE UNCHANGED vars
  BY <1>16, <1>t, Brightened DEF vars, mind
<1> QED
  BY <1>1, <1>2, <1>3, <1>4, <1>5, <1>6, <1>7, <1>8, <1>9, <1>10, <1>11, <1>12, <1>13,
     <1>14, <1>15, <1>16 DEF Next

----------------------------------------------------------------------------
\* Every node of the first tier has one slot of the working set, for any capacity.
THEOREM WorkingSetHolds == Spec => []WorkingSetBounded
<1>1. IInv => WorkingSetBounded
  BY DEF IInv
<1> QED
  BY InitInv, StepInv, <1>1, PTL DEF Spec

\* Every sealed directive is at full voltage after every tick, whatever was said,
\* promoted, evicted, loaded or reset in between.
THEOREM DirectivesStayLit == Spec => []DirectivesLit
<1>1. IInv => DirectivesLit
  BY DEF IInv
<1> QED
  BY InitInv, StepInv, <1>1, PTL DEF Spec

----------------------------------------------------------------------------
(* Spikes, episodes and the short-term memory *)

NodesFinite == IsFiniteSet(Nodes)

LEMMA FiniteNodes == NodesFinite
BY ActivationAssumption, FS_Union DEF NodesFinite, Nodes

LEMMA CapTypes ==
    /\ STM_SIZE \in Nat /\ STM_SIZE > 0 /\ QCap \in Nat /\ QCap > 0
    /\ MaxEvents \in Nat /\ MaxEvents > 0
    /\ \A n \in Words : Succ[n] \subseteq Words
BY ActivationAssumption

\* A sequence of the elements of a set has each of them once.
LEMMA SequenceOfSet ==
    ASSUME NEW S, IsFiniteSet(S)
    PROVE  /\ SetToSeq(S) \in Seq(S) /\ Len(SetToSeq(S)) = Cardinality(S)
           /\ \A x \in S : \E k \in 1 .. Cardinality(S) : SetToSeq(S)[k] = x
<1> DEFINE n == Cardinality(S)
           s == SetToSeq(S)
<1>1. n \in Nat /\ \E f : f \in Bijection(1 .. n, S)
  BY FS_CardinalityType DEF ExistsBijection
<1>2. \E f \in [1 .. n -> S] : IsInjective(f)
  BY <1>1 DEF Bijection, Injection
<1>3. s \in [1 .. n -> S] /\ IsInjective(s)
  BY <1>2 DEF SetToSeq
<1>4. s \in Injection(1 .. n, S)
  BY <1>3 DEF Injection
<1>5. Cardinality(1 .. n) = n
  <2>1. Cardinality(1 .. n) = IF 1 > n THEN 0 ELSE n - 1 + 1
    BY <1>1, FS_Interval, 1 \in Int, n \in Int
  <2> HIDE DEF n
  <2> QED
    BY <1>1, <2>1
<1>6. s \in Surjection(1 .. n, S)
  BY <1>4, <1>5, FS_Injection
<1> HIDE DEF n, s
<1>7. s \in Seq(S) /\ Len(s) = n
  BY <1>1, <1>3
<1>8. \A x \in S : \E k \in 1 .. n : s[k] = x
  BY <1>6 DEF Surjection
<1> QED
  BY <1>7, <1>8 DEF n, s

\* The ring of spikes stays within its places.
LEMMA PostedFits ==
    ASSUME NEW q \in Seq(Nodes), NEW s \in Seq(Nodes)
    PROVE  Posted(q, s) \in Seq(Nodes) /\ Len(Posted(q, s)) <= QCap
<1> DEFINE r == q \o s
           n == IF QCap < Len(q) + Len(s) THEN QCap ELSE Len(q) + Len(s)
<1>1. r \in Seq(Nodes) /\ Len(r) = Len(q) + Len(s) /\ Len(q) \in Nat /\ Len(s) \in Nat
  OBVIOUS
<1>2. n \in Nat /\ n <= Len(r) /\ n <= QCap
  BY <1>1, CapTypes
<1> HIDE DEF r, n
<1>3. SubSeq(r, 1, n) \in Seq(Nodes) /\ Len(SubSeq(r, 1, n)) = n
  BY <1>1, <1>2
<1> QED
  BY <1>2, <1>3 DEF Posted, r, n

SpikesOK ==
    /\ queue \in Seq(Nodes) /\ Len(queue) <= QCap /\ processed \in 0 .. MaxEvents
    /\ pc \in {"idle", "perceive", "cleared", "primed", "thinking", "drain"}

EpisodesOK ==
    /\ DOMAIN episodes \subseteq Hubs
    /\ \A h \in DOMAIN episodes : episodes[h] \subseteq Words

LEMMA AddedSpikes ==
    ASSUME SpikesOK, pc = "drain" => queue # <<>>, NEW S, NEW T \in SUBSET Nodes,
           add_voltage(S, T)
    PROVE  queue' \in Seq(Nodes) /\ Len(queue') <= QCap
<1>1. PICK f \in Raised(S \union T) :
          queue' = Posted(IF pc = "drain" THEN Tail(queue) ELSE queue,
                          InOrder[{n \in T : level[n] < 2 /\ f[n] = 2}])
  BY DEF add_voltage
<1> DEFINE base == IF pc = "drain" THEN Tail(queue) ELSE queue
           hot == {n \in T : level[n] < 2 /\ f[n] = 2}
<1>2. base \in Seq(Nodes)
  BY DEF SpikesOK
<1>3. InOrder[hot] \in Seq(Nodes)
  <2>1. hot \in SUBSET Nodes
    OBVIOUS
  <2> HIDE DEF hot
  <2>2. IsFiniteSet(hot)
    BY <2>1, FiniteNodes, FS_Subset DEF NodesFinite
  <2>3. SetToSeq(hot) \in Seq(hot)
    BY <2>2, SequenceOfSet
  <2>4. InOrder[hot] = SetToSeq(hot)
    BY <2>1 DEF InOrder
  <2> QED
    BY <2>1, <2>3, <2>4
<1> HIDE DEF base, hot
<1> QED
  BY <1>1, <1>2, <1>3, PostedFits DEF base, hot

LEMMA InitSpikes == Init => SpikesOK /\ EpisodesOK
BY CapTypes DEF Init, SpikesOK, EpisodesOK

LEMMA SpikesStep ==
    IInv /\ SpikesOK /\ EpisodesOK /\ [Next]_vars => SpikesOK' /\ EpisodesOK'
<1> SUFFICES ASSUME IInv, SpikesOK, EpisodesOK, [Next]_vars PROVE SpikesOK' /\ EpisodesOK'
  OBVIOUS
<1>1. CASE clear_working_slots \/ Wake \/ Perceive \/ Clear \/ Prime \/ Say \/ Think
           \/ Tick \/ Drained \/ UNCHANGED vars
  <2>1. queue' = queue /\ episodes' = episodes /\ processed' \in {processed, 0}
        /\ pc' \in {pc, "idle", "perceive", "cleared", "primed", "thinking", "drain"}
    BY <1>1 DEF clear_working_slots, Wake, Perceive, Clear, Prime, Say, Think, Tick,
                Drained, spikes, mind, vars
  <2> QED
    BY <2>1, CapTypes DEF SpikesOK, EpisodesOK
<1>2. CASE spawn_episode
  <2>1. PICK h \in Hubs \ DOMAIN episodes :
            episodes' = [e \in DOMAIN episodes \union {h} |->
                            IF e = h THEN Members ELSE episodes[e]]
    BY <1>2 DEF spawn_episode
  <2>2. Members \subseteq Words
    <3>1. \A i \in DOMAIN roster : roster[i] \in Entry
      BY DEF IInv, MindOK
    <3> QED
      BY <3>1 DEF Members, Entry
  <2>3. EpisodesOK'
    BY <2>1, <2>2 DEF EpisodesOK
  <2> QED
    BY <1>2, <2>3 DEF spawn_episode, spikes, SpikesOK
<1>3. CASE Reactivate
  <2>1. PICK cue \in Words : \E S \in Similar(cue) :
            add_voltage(S, UNION {episodes[h] : h \in S})
    BY <1>3 DEF Reactivate
  <2>2. PICK S \in Similar(cue) : add_voltage(S, UNION {episodes[h] : h \in S})
    BY <2>1
  <2>3. UNION {episodes[h] : h \in S} \subseteq Nodes
    BY DEF Similar, Candidates, EpisodesOK
  <2>4. queue' \in Seq(Nodes) /\ Len(queue') <= QCap
    BY <1>3, <2>2, <2>3, AddedSpikes DEF Reactivate
  <2> QED
    BY <1>3, <2>4 DEF Reactivate, SpikesOK, EpisodesOK
<1>4. CASE Propagate
  <2>1. Targets(Head(queue)) \subseteq Nodes
    BY CapTypes DEF EpisodesOK, Targets
  <2>2. queue' \in Seq(Nodes) /\ Len(queue') <= QCap
    BY <1>4, <2>1, AddedSpikes DEF Propagate
  <2>3. processed' \in 0 .. MaxEvents
    BY <1>4, CapTypes DEF Propagate, SpikesOK
  <2> QED
    BY <1>4, <2>2, <2>3 DEF Propagate, SpikesOK, EpisodesOK
<1>5. CASE post_spike
  <2>1. PICK n \in Words : queue' = Posted(queue, <<n>>)
    BY <1>5 DEF post_spike
  <2>2. queue' \in Seq(Nodes) /\ Len(queue') <= QCap
    <3>1. n \in Nodes /\ <<n>> \in Seq(Nodes)
      OBVIOUS
    <3> QED
      BY <2>1, <3>1, PostedFits DEF SpikesOK
  <2> QED
    BY <1>5, <2>2 DEF post_spike, mind, SpikesOK, EpisodesOK
<1>6. CASE Load \/ Reset
  <2>1. /\ DOMAIN episodes' \subseteq DOMAIN episodes
        /\ \A e \in DOMAIN episodes' : episodes'[e] = episodes[e]
    BY <1>6 DEF Load, Reset
  <2>2. EpisodesOK'
    BY <2>1 DEF EpisodesOK
  <2> QED
    BY <1>6, <2>2 DEF Load, Reset, spikes, SpikesOK
<1> QED
  BY <1>1, <1>2, <1>3, <1>4, <1>5, <1>6 DEF Next

\* Division with remainder has one answer.
LEMMA DivisionUnique ==
    ASSUME NEW M \in Nat, M > 0, NEW q \in Int, NEW r \in 0 .. M - 1
    PROVE  (M * q + r) % M = r
<1> DEFINE a == M * q + r
           d == q - (a \div M)
<1>1. a \in Int /\ a % M \in 0 .. M - 1 /\ a = M * (a \div M) + (a % M)
  OBVIOUS
<1>2. d \in Int /\ M * d = (a % M) - r
  BY <1>1
<1> HIDE DEF d
<1>3. CASE d >= 1
  BY <1>1, <1>2, <1>3, M * d >= M
<1>4. CASE d <= -1
  BY <1>1, <1>2, <1>4, M * d <= -M
<1>5. CASE d = 0
  BY <1>1, <1>2, <1>5
<1> QED
  BY <1>2, <1>3, <1>4, <1>5

\* The place k after the writing position is the one Written finds k at.
LEMMA PlaceOf ==
    ASSUME NEW w \in 0 .. STM_SIZE - 1, NEW k \in 0 .. STM_SIZE - 1
    PROVE  \E i \in 0 .. STM_SIZE - 1 : (i - w) % STM_SIZE = k
<1> DEFINE i == IF w + k < STM_SIZE THEN w + k ELSE w + k - STM_SIZE
<1>1. i \in 0 .. STM_SIZE - 1
  BY CapTypes
<1>2. (STM_SIZE * 0 + k) % STM_SIZE = k /\ (STM_SIZE * (-1) + k) % STM_SIZE = k
  BY DivisionUnique, CapTypes
<1>3. i - w = STM_SIZE * 0 + k \/ i - w = STM_SIZE * (-1) + k
  BY CapTypes
<1>4. (i - w) % STM_SIZE = k
  BY <1>2, <1>3
<1> QED
  BY <1>1, <1>4

\* What was remembered is in the short-term memory, and has not been said since.
ContextOK ==
    /\ stm \in [0 .. STM_SIZE - 1 -> Nodes \union {None}]
    /\ stm_write \in 0 .. STM_SIZE - 1
    /\ remembered \subseteq Nodes
    /\ \A n \in remembered : level[n] >= 0 /\ \E i \in DOMAIN stm : stm[i] = n

\* As many places are written as there are nodes to write, so all of them are there.
LEMMA WrittenAll ==
    ASSUME ContextOK, NEW s \in Seq(Nodes), Len(s) <= STM_SIZE
    PROVE  /\ Written(s) \in [0 .. STM_SIZE - 1 -> Nodes \union {None}]
           /\ \A k \in 1 .. Len(s) : \E i \in 0 .. STM_SIZE - 1 : Written(s)[i] = s[k]
<1> DEFINE K(i) == (i - stm_write) % STM_SIZE
<1>1. /\ DOMAIN stm = 0 .. STM_SIZE - 1 /\ stm_write \in 0 .. STM_SIZE - 1
      /\ \A i \in DOMAIN stm : stm[i] \in Nodes \union {None}
  BY DEF ContextOK
<1>2. \A i \in 0 .. STM_SIZE - 1 : K(i) \in 0 .. STM_SIZE - 1
  BY <1>1, CapTypes
<1>3. \A i \in 0 .. STM_SIZE - 1, k \in 1 .. Len(s) : k = K(i) + 1 => K(i) < Len(s)
  BY <1>2
<1>4. Written(s) = [i \in 0 .. STM_SIZE - 1 |-> IF K(i) < Len(s) THEN s[K(i) + 1] ELSE stm[i]]
  BY <1>1 DEF Written
<1>5. ASSUME NEW k \in 1 .. Len(s)
      PROVE  \E i \in 0 .. STM_SIZE - 1 : K(i) = k - 1
  <2>1. k - 1 \in 0 .. STM_SIZE - 1
    BY CapTypes
  <2> QED
    BY <1>1, <2>1, PlaceOf
<1> HIDE DEF K
<1>6. ASSUME NEW i \in 0 .. STM_SIZE - 1, K(i) < Len(s)
      PROVE  s[K(i) + 1] \in Nodes
  BY <1>2, <1>6
<1>7. Written(s) \in [0 .. STM_SIZE - 1 -> Nodes \union {None}]
  BY <1>1, <1>4, <1>6
<1>8. ASSUME NEW k \in 1 .. Len(s)
      PROVE  \E i \in 0 .. STM_SIZE - 1 : Written(s)[i] = s[k]
  <2>1. PICK i \in 0 .. STM_SIZE - 1 : K(i) = k - 1
    BY <1>5
  <2>2. K(i) < Len(s) /\ K(i) + 1 = k
    BY <2>1
  <2> QED
    BY <1>4, <2>2
<1> QED
  BY <1>7, <1>8

LEMMA Remembers ==
    ASSUME ContextOK, EpisodesOK, NEW l, level' = l, Snapshot(l),
           \A n \in Nodes : l[n] \in -1 .. 2
    PROVE  ContextOK'
<1>1. PICK S \in Best(l) : /\ remembered' = S
                           /\ stm' = Written(InOrder[S])
                           /\ stm_write' = (stm_write + Cardinality(S)) % STM_SIZE
  BY DEF Snapshot
<1>2. Alive \subseteq Nodes
  BY DEF Alive, EpisodesOK
<1> DEFINE active == {n \in Alive : l[n] > 0}
           k == Cardinality(S)
<1>3. S \in SUBSET active /\ S \subseteq Alive
  BY DEF Best
<1>3a. IsFiniteSet(S) /\ IsFiniteSet(active)
  BY <1>2, <1>3, FiniteNodes, FS_Subset DEF NodesFinite
<1>3b. InOrder[S] = SetToSeq(S)
  BY <1>2, <1>3 DEF InOrder
<1>4. S \subseteq active /\ k = IF Cardinality(active) < STM_SIZE THEN Cardinality(active)
                                ELSE STM_SIZE
  BY DEF Best
<1>5. k \in Nat /\ k <= STM_SIZE
  BY <1>3a, <1>4, FS_CardinalityType, CapTypes
<1>6. InOrder[S] \in Seq(Nodes) /\ Len(InOrder[S]) = k
      /\ \A x \in S : \E j \in 1 .. k : InOrder[S][j] = x
  <2>1. InOrder[S] \in Seq(S) /\ S \subseteq Nodes
    BY <1>2, <1>3, <1>3a, <1>3b, SequenceOfSet
  <2> QED
    BY <1>3a, <1>3b, <2>1, SequenceOfSet
<1>7. \A n \in S : l[n] >= 0
  BY <1>2, <1>3, <1>4
<1> HIDE DEF k, active
<1>8. stm' \in [0 .. STM_SIZE - 1 -> Nodes \union {None}]
      /\ \A j \in 1 .. k : \E i \in 0 .. STM_SIZE - 1 : stm'[i] = InOrder[S][j]
  BY <1>1, <1>5, <1>6, WrittenAll
<1>9. stm_write' \in 0 .. STM_SIZE - 1
  BY <1>1, <1>5, CapTypes DEF ContextOK, k
<1>10. \A n \in S : \E i \in 0 .. STM_SIZE - 1 : stm'[i] = n
  BY <1>6, <1>8
<1>11. DOMAIN stm' = 0 .. STM_SIZE - 1
  BY <1>8
<1> QED
  BY <1>1, <1>2, <1>3, <1>7, <1>8, <1>9, <1>10, <1>11 DEF ContextOK

\* A step that takes no snapshot and leaves nothing refractory.
LEMMA StillRemembers ==
    ASSUME ContextOK, \A n \in Nodes : level[n] >= 0 => level'[n] >= 0, UNCHANGED context
    PROVE  ContextOK'
BY DEF ContextOK, context

LEMMA ContextStep ==
    IInv /\ EpisodesOK /\ ContextOK /\ [Next]_vars => ContextOK'
<1> SUFFICES ASSUME IInv, EpisodesOK, ContextOK, [Next]_vars PROVE ContextOK'
  OBVIOUS
<1>t. level \in [Nodes -> -1 .. 2] /\ MindOK
  BY DEF IInv, MindOK
<1>1. CASE clear_working_slots \/ Perceive \/ Drained \/ post_spike \/ UNCHANGED vars
  BY <1>1, StillRemembers DEF clear_working_slots, Perceive, Drained, post_spike, mind, vars
<1>2. CASE spawn_episode
  <2>1. PICK h \in Hubs : level' = [level EXCEPT ![h] = 1]
    BY <1>2 DEF spawn_episode
  <2>2. \A n \in Nodes : level[n] >= 0 => level'[n] >= 0
    BY <1>t, <2>1
  <2> QED
    BY <1>2, <2>2, StillRemembers DEF spawn_episode
<1>3. CASE Prime
  <2>1. PICK S : level' \in Raised(S)
    BY <1>3 DEF Prime, Charged
  <2>2. level' \in [Nodes -> -1 .. 2] /\ \A n \in Nodes : level'[n] >= level[n]
    BY <1>t, <2>1, RaisedLevels
  <2>3. \A n \in Nodes : level[n] >= 0 => level'[n] >= 0
    BY <1>t, <2>2
  <2> QED
    BY <1>3, <2>3, StillRemembers DEF Prime
<1>4. CASE Reactivate \/ Propagate
  <2>1. PICK S, T : add_voltage(S, T)
    BY <1>4 DEF Reactivate, Propagate
  <2>2. level' \in [Nodes -> -1 .. 2] /\ \A n \in Nodes : level'[n] >= level[n]
    BY <1>t, <2>1, AddedLevels
  <2>3. \A n \in Nodes : level[n] >= 0 => level'[n] >= 0
    BY <1>t, <2>2
  <2> QED
    BY <1>4, <2>3, StillRemembers DEF Reactivate, Propagate
<1>5. CASE Clear
  <2>1. \A n \in Nodes : level[n] >= 0 => level'[n] >= 0
    BY <1>5, <1>t DEF Clear, Cleared
  <2> QED
    BY <1>5, <2>1, StillRemembers DEF Clear
<1>6. CASE Tick
  <2>1. PICK f \in [Fading -> 0 .. 2] :
           level' = [n \in Nodes |-> IF n \in Fading THEN f[n]
                                     ELSE IF clamped[n] THEN 2 ELSE level[n]]
    BY <1>6 DEF Tick, Decayed
  <2>2. \A n \in Fading : f[n] \in 0 .. 2
    OBVIOUS
  <2>3. \A n \in Nodes : level[n] >= 0 => level'[n] >= 0
    BY <1>t, <2>1, <2>2
  <2> QED
    BY <1>6, <2>3, StillRemembers DEF Tick
<1>7. CASE Think
  <2>1. PICK l \in Thoughts : level' = l /\ Snapshot(l)
    BY <1>7 DEF Think
  <2>2. \A n \in Nodes : l[n] \in -1 .. 2
    BY <1>t DEF Thoughts
  <2> QED
    BY <2>1, <2>2, Remembers
<1>8. CASE Wake \/ Say
  <2>1. CASE Wake
    <3>1. PICK f \in Charged(Alive) : level' = f /\ Snapshot(f)
      BY <2>1 DEF Wake
    <3>2. f \in [Nodes -> -1 .. 2]
      BY <1>t, <3>1, RaisedLevels DEF Charged
    <3>3. \A n \in Nodes : f[n] \in -1 .. 2
      BY <3>2
    <3> QED
      BY <3>1, <3>3, Remembers
  <2>2. CASE Say
    BY <1>t, <2>2, Remembers DEF Say, mind
  <2> QED
    BY <1>8, <2>1, <2>2
<1>9. CASE Load \/ Reset
  <2>1. \A n \in Nodes : level'[n] >= 0
    BY <1>9 DEF Load, Reset, SealedLevel
  <2> QED
    BY <1>9, <2>1, StillRemembers DEF Load, Reset
<1> QED
  BY <1>1, <1>2, <1>3, <1>4, <1>5, <1>6, <1>7, <1>8, <1>9 DEF Next

\* Nothing but the priming leads to where the context is primed.
LEMMA PrimedStep ==
    IInv /\ EpisodesOK /\ ContextOK /\ ContextPrimed /\ [Next]_vars => ContextPrimed'
<1> SUFFICES ASSUME IInv, EpisodesOK, ContextOK, ContextPrimed, [Next]_vars, pc' = "primed",
                    NEW n \in remembered' \intersect Alive'
             PROVE  level'[n] > 0
  BY DEF ContextPrimed
<1>1. Prime \/ UNCHANGED vars
  BY DEF Next, clear_working_slots, spawn_episode, Wake, Perceive, Clear, Reactivate, Think, Say,
         Tick, Propagate, Drained, post_spike, Load, Reset
<1>2. CASE UNCHANGED vars
  BY <1>2 DEF vars, mind, context, Alive, ContextPrimed
<1>3. CASE Prime
  <2>1. remembered' = remembered /\ Alive' = Alive
    BY <1>3 DEF Prime, context, Alive
  <2> DEFINE S == {stm[i] : i \in DOMAIN stm} \intersect Alive
  <2>2. n \in S /\ level[n] >= 0
    BY <2>1 DEF ContextOK
  <2>3. level' \in Charged(S)
    BY <1>3 DEF Prime
  <2> QED
    BY <2>2, <2>3 DEF Charged
<1> QED
  BY <1>1, <1>2, <1>3

MindInv == IInv /\ SpikesOK /\ EpisodesOK /\ ContextOK /\ ContextPrimed /\ sealed \subseteq Directives

LEMMA InitMind == Init => MindInv
<1> SUFFICES ASSUME Init PROVE MindInv
  OBVIOUS
<1>1. ContextOK /\ ContextPrimed /\ sealed \subseteq Directives
  BY CapTypes DEF Init, ContextOK, ContextPrimed
<1> QED
  BY <1>1, InitInv, InitSpikes DEF MindInv

LEMMA MindStep == MindInv /\ [Next]_vars => MindInv'
<1> SUFFICES ASSUME MindInv, [Next]_vars PROVE MindInv'
  OBVIOUS
<1>1. IInv' /\ SpikesOK' /\ EpisodesOK' /\ ContextOK' /\ ContextPrimed'
  BY StepInv, SpikesStep, ContextStep, PrimedStep DEF MindInv
<1>2. sealed' \subseteq Directives
  BY DEF MindInv, Next, vars, clear_working_slots, spawn_episode, Wake, Perceive, Clear, Prime,
         Reactivate, Think, Say, Tick, Propagate, Drained, post_spike, Load, Reset
<1> QED
  BY <1>1, <1>2 DEF MindInv

\* Types, with the bounds of the working set, the ages, the spike queue and the ring of
\* the short-term memory.
THEOREM TypeCorrect == Spec => []TypeOK
<1>1. MindInv => TypeOK
  BY DEF MindInv, IInv, MindOK, Entry, Ages, SpikesOK, EpisodesOK, ContextOK, TypeOK
<1> QED
  BY <1>1, InitMind, MindStep, PTL DEF Spec

\* What the last snapshot took, of a reply, a comment or the "Listening." of a wake word,
\* is active when the next sentence is put in context: the ring has a place for all of
\* it, and nothing that happens between leaves it refractory.
THEOREM ContextIsPrimed == Spec => []ContextPrimed
<1>1. MindInv => ContextPrimed
  BY DEF MindInv
<1> QED
  BY <1>1, InitMind, MindStep, PTL DEF Spec
=============================================================================

------------------------- MODULE ClusterGraphProofs -------------------------
(***************************************************************************)
(* Proofs about the cluster graph. First NodePool, for every number of      *)
(* threads, every size of the arena and every number of changes of          *)
(* free_head smaller than the tags; then EdgeTable, for every fan-out, cap   *)
(* on the reader's walk, set of targets and range of weights.               *)
(***************************************************************************)
EXTENDS NodePool, EdgeTable, FiniteSetTheorems, SequenceTheorems, TLAPS

\* The threads about to give back an id that the arena did not have.
Undoing == {t \in Threads : pc[t] = "undo"}

\* What a thread's local variables hold at each place of spawn() and kill().
LocalsOK ==
    \A t \in Threads :
        /\ pc[t] \in {"next", "cas"} => head[t] # Empty
        /\ pc[t] = "cas" => arg[t] \in Ids \union {None}
        /\ pc[t] \in {"reuse", "construct", "link", "push"} => arg[t] \in Ids

\* No id that anyone remembers is still in the unused part of the arena.
IdsKnown ==
    /\ free_head.id < node_count
    /\ \A i \in Ids : free_next[i] < node_count /\ (alive[i] => i < node_count)
    /\ \A t \in Threads :
          /\ head[t].id < node_count
          /\ pc[t] \in {"cas", "reuse", "construct", "link", "push"} => arg[t] < node_count
          /\ \A i \in owned[t] : i < node_count

\* The tag counts changes of free_head: it has not come round.
TagsBehind == free_head # Empty => free_head.tag < ops

\* A pop whose head word is not stale sees tags that only grow, so an equal tag
\* is the same word, and what it read under the top is still there.
HeadsFresh ==
    \A t \in Threads : pc[t] \in {"next", "cas"} /\ ~stale[t] =>
        /\ free_head # Empty /\ head[t].tag <= free_head.tag
        /\ head[t].tag = free_head.tag => head[t] = free_head
        /\ pc[t] = "cas" /\ head[t] = free_head => arg[t] = free_next[head[t].id]

\* A node about to be pushed points at the top its thread saw.
PushLinked ==
    \A t \in Threads : pc[t] = "push" => free_next[arg[t]] = head[t].id

\* The stack has no cycle: some measure falls from each node to the one below.
Falls(d, below, S) ==
    \A i \in S : below[i] # None => d[below[i]] < d[i]

Acyclic(top, below) == \E d \in [Ids -> Nat] : Falls(d, below, Reach(top, below))

KilledBack ==
    \A i \in Ids : i < node_count /\ ~alive[i] =>
        i \in OnStack \/ \E t \in Threads : i \in InHand(t)

StackSound ==
    /\ HeadsFresh /\ PushLinked /\ Acyclic(free_head.id, free_next)
    /\ OneOwnerPerNode /\ KilledBack

PoolInv ==
    /\ TypeOK /\ LocalsOK /\ IdsKnown /\ CountCoversArena /\ TagsBehind
    /\ ~broken => StackSound

----------------------------------------------------------------------------
(* Constants and tags *)

LEMMA ConstantTypes ==
    /\ Capacity \in Nat /\ InitialNodes \in 0 .. Capacity
    /\ MaxOps \in Nat /\ TagMod \in Nat /\ TagMod > MaxOps + 1
    /\ None = -1 /\ None \notin Ids
    /\ \A i \in Ids : i \in Nat /\ i < Capacity
    /\ \A i \in Nat : i < Capacity => i \in Ids
BY PoolAssumption DEF Ids, None

\* Division with remainder has one answer.
LEMMA DivisionUnique ==
    ASSUME NEW M \in Nat, M > 0, NEW q \in Int, NEW r \in 0 .. M - 1
    PROVE  (M * q + r) % M = r
<1> DEFINE a == M * q + r
           d == q - (a \div M)
<1>1. a \in Int /\ a % M \in 0 .. M - 1 /\ a = M * (a \div M) + (a % M)
  OBVIOUS
<1>2. d \in Int /\ M * d = (a % M) - r
  BY <1>1
<1> HIDE DEF d
<1>3. CASE d >= 1
  BY <1>1, <1>2, <1>3, M * d >= M
<1>4. CASE d <= -1
  BY <1>1, <1>2, <1>4, M * d <= -M
<1>5. CASE d = 0
  BY <1>1, <1>2, <1>5
<1> QED
  BY <1>2, <1>3, <1>4, <1>5

\* The first tag after an empty stack is 0; below the modulus tags count up.
LEMMA NextTagCounts ==
    /\ NextTag(Empty) = 0
    /\ \A h \in Heads : h.tag < MaxOps => NextTag(h) = h.tag + 1
<1>1. \A k \in 0 .. TagMod - 1 : (TagMod * 0 + k) % TagMod = k
  BY DivisionUnique, ConstantTypes
<1>2. (TagMod * 1 + 0) % TagMod = 0
  BY DivisionUnique, ConstantTypes
<1>3. NextTag(Empty) = 0
  <2>1. TagMod - 1 + 1 = TagMod * 1 + 0
    BY ConstantTypes
  <2> QED
    BY <1>2, <2>1 DEF NextTag, Empty
<1>4. ASSUME NEW h \in Heads, h.tag < MaxOps
      PROVE  NextTag(h) = h.tag + 1
  <2>1. h.tag \in 0 .. TagMod - 1
    BY ConstantTypes DEF Heads, Empty
  <2>2. h.tag + 1 \in 0 .. TagMod - 1
    BY <1>4, <2>1, ConstantTypes
  <2>3. h.tag + 1 = TagMod * 0 + (h.tag + 1)
    BY <2>1, ConstantTypes
  <2> QED
    BY <1>1, <2>2, <2>3 DEF NextTag
<1> QED
  BY <1>3, <1>4

LEMMA HeadTypes ==
    /\ Empty \in Heads /\ Empty.id = None
    /\ \A h \in Heads : h.tag \in 0 .. TagMod - 1 /\ h.id \in Ids \union {None}
    /\ \A h \in Heads : h = Empty <=> h.id = None
    /\ \A k \in 0 .. TagMod - 1, i \in Ids :
          LET h == [tag |-> k, id |-> i]
          IN  h \in Heads /\ h # Empty /\ h.tag = k /\ h.id = i
BY ConstantTypes DEF Heads, Empty

----------------------------------------------------------------------------
(* What is on the stack *)

LEMMA ReachClosed ==
    ASSUME NEW top \in Ids \union {None}, NEW below \in [Ids -> Ids \union {None}]
    PROVE  Reach(top, below) \in SUBSET Ids /\ Closed(Reach(top, below), top, below)
BY DEF Reach, Closed

LEMMA ReachLeast ==
    ASSUME NEW top, NEW below, NEW S \in SUBSET Ids, Closed(S, top, below)
    PROVE  Reach(top, below) \subseteq S
BY DEF Reach

LEMMA ReachNothing ==
    ASSUME NEW below
    PROVE  Reach(None, below) = {}
<1>1. Closed({}, None, below)
  BY DEF Closed
<1> QED
  BY <1>1, ReachLeast

\* Writing the link of a node that is not on the stack changes nothing there.
LEMMA ReachSame ==
    ASSUME NEW top \in Ids \union {None}, NEW below \in [Ids -> Ids \union {None}],
           NEW x \in Ids, NEW y \in Ids \union {None}, x \notin Reach(top, below)
    PROVE  Reach(top, [below EXCEPT ![x] = y]) = Reach(top, below)
<1> DEFINE new == [below EXCEPT ![x] = y]
           R == Reach(top, below)
           S == Reach(top, new)
<1>1. new \in [Ids -> Ids \union {None}] /\ \A i \in Ids : i # x => new[i] = below[i]
  OBVIOUS
<1>2. R \in SUBSET Ids /\ Closed(R, top, below) /\ x \notin R
  BY ReachClosed
<1>3. S \in SUBSET Ids /\ Closed(S, top, new)
  BY <1>1, ReachClosed
<1> HIDE DEF R, S, new
<1>4. Closed(R, top, new)
  BY <1>1, <1>2 DEF Closed
<1>5. Closed(R \intersect S, top, below)
  BY <1>1, <1>2, <1>3 DEF Closed
<1>6. S \subseteq R
  BY <1>2, <1>4, ReachLeast DEF S
<1>7. R \subseteq R \intersect S
  BY <1>2, <1>5, ReachLeast DEF R
<1> QED
  BY <1>6, <1>7 DEF R, S, new

\* A node that points at the top and is not on the stack becomes the top.
LEMMA ReachPush ==
    ASSUME NEW top \in Ids \union {None}, NEW below \in [Ids -> Ids \union {None}],
           NEW x \in Ids, x \notin Reach(top, below), below[x] = top
    PROVE  Reach(x, below) = Reach(top, below) \union {x}
<1> DEFINE R == Reach(top, below)
           S == Reach(x, below)
<1>1. R \in SUBSET Ids /\ Closed(R, top, below)
  BY ReachClosed
<1>2. S \in SUBSET Ids /\ Closed(S, x, below)
  BY ReachClosed
<1> HIDE DEF R, S
<1>3. Closed(R \union {x}, x, below)
  BY <1>1 DEF Closed
<1>4. x \in S /\ Closed(S, top, below)
  BY <1>2, ConstantTypes DEF Closed
<1>5. S \subseteq R \union {x}
  BY <1>1, <1>3, ReachLeast DEF S
<1>6. R \subseteq S
  BY <1>2, <1>4, ReachLeast DEF R
<1> QED
  BY <1>4, <1>5, <1>6 DEF R, S

\* Without a cycle nothing on the stack points at the top, so the top is all
\* that leaves it.
LEMMA ReachPop ==
    ASSUME NEW x \in Ids, NEW below \in [Ids -> Ids \union {None}], Acyclic(x, below)
    PROVE  Reach(below[x], below) = Reach(x, below) \ {x}
<1> DEFINE R == Reach(x, below)
           S == Reach(below[x], below)
<1>1. R \in SUBSET Ids /\ Closed(R, x, below) /\ x \in R
  BY ReachClosed, ConstantTypes DEF Closed
<1>2. S \in SUBSET Ids /\ Closed(S, below[x], below)
  BY ReachClosed
<1>3. PICK d \in [Ids -> Nat] : Falls(d, below, R)
  BY DEF Acyclic
<1> HIDE DEF R, S
<1> DEFINE T == {i \in R : i = x \/ d[i] < d[x]}
<1>4. Closed(T, x, below)
  <2>1. ASSUME NEW i \in T, below[i] # None
        PROVE  below[i] \in T
    <3>1. i \in R /\ below[i] \in R /\ d[below[i]] < d[i] /\ d[i] <= d[x]
      BY <1>1, <1>3, <2>1 DEF Closed, Falls
    <3>2. d[below[i]] \in Nat /\ d[i] \in Nat /\ d[x] \in Nat
      BY <1>1, <3>1
    <3> QED
      BY <3>1, <3>2
  <2> QED
    BY <1>1, <2>1 DEF Closed
<1>5. R \subseteq T
  BY <1>1, <1>4, ReachLeast DEF R
<1>6. \A i \in R : below[i] # x
  <2> SUFFICES ASSUME NEW i \in R, below[i] = x
               PROVE  FALSE
    OBVIOUS
  <2>1. d[x] < d[i] /\ (i = x \/ d[i] < d[x])
    BY <1>3, <1>5, ConstantTypes DEF Falls
  <2>2. d[x] \in Nat /\ d[i] \in Nat
    BY <1>1
  <2> QED
    BY <2>1, <2>2
<1>7. Closed(R \ {x}, below[x], below)
  BY <1>1, <1>6 DEF Closed
<1>8. Closed(S \union {x}, x, below)
  BY <1>2 DEF Closed
<1>9. S \subseteq R \ {x}
  BY <1>1, <1>7, ReachLeast DEF S
<1>10. R \subseteq S \union {x}
  BY <1>2, <1>8, ReachLeast DEF R
<1> QED
  BY <1>9, <1>10 DEF R, S

LEMMA AcyclicPush ==
    ASSUME NEW top \in Ids \union {None}, NEW below \in [Ids -> Ids \union {None}],
           NEW x \in Ids, x \notin Reach(top, below), below[x] = top, Acyclic(top, below)
    PROVE  Acyclic(x, below)
<1> DEFINE R == Reach(top, below)
<1>1. R \in SUBSET Ids /\ Closed(R, top, below)
  BY ReachClosed
<1>2. Reach(x, below) = R \union {x}
  BY ReachPush
<1>3. PICK d \in [Ids -> Nat] : Falls(d, below, R)
  BY DEF Acyclic
<1> HIDE DEF R
<1> DEFINE e == [d EXCEPT ![x] = IF top = None THEN 0 ELSE d[top] + 1]
<1>4. e \in [Ids -> Nat] /\ \A i \in Ids : i # x => e[i] = d[i]
  OBVIOUS
<1>5. top # None => e[x] = d[top] + 1 /\ d[top] \in Nat /\ top \in R
  BY <1>1 DEF Closed
<1> HIDE DEF e
<1>6. ASSUME NEW i \in R, below[i] # None
      PROVE  e[below[i]] < e[i]
  <2>1. below[i] \in R /\ d[below[i]] < d[i]
    BY <1>1, <1>3, <1>6 DEF Closed, Falls
  <2>2. below[i] # x /\ i # x
    BY <2>1 DEF R
  <2> QED
    BY <1>1, <1>4, <2>1, <2>2
<1>7. below[x] # None => e[below[x]] < e[x]
  BY <1>1, <1>4, <1>5 DEF R
<1>8. Falls(e, below, R \union {x})
  BY <1>6, <1>7 DEF Falls
<1> QED
  BY <1>2, <1>4, <1>8 DEF Acyclic

LEMMA AcyclicPop ==
    ASSUME NEW x \in Ids, NEW below \in [Ids -> Ids \union {None}], Acyclic(x, below)
    PROVE  Acyclic(below[x], below)
<1>1. Reach(below[x], below) = Reach(x, below) \ {x}
  BY ReachPop
<1> QED
  BY <1>1 DEF Acyclic, Falls

LEMMA AcyclicSame ==
    ASSUME NEW top \in Ids \union {None}, NEW below \in [Ids -> Ids \union {None}],
           NEW x \in Ids, NEW y \in Ids \union {None}, x \notin Reach(top, below),
           Acyclic(top, below)
    PROVE  Acyclic(top, [below EXCEPT ![x] = y])
<1> DEFINE new == [below EXCEPT ![x] = y]
<1>1. Reach(top, new) = Reach(top, below)
  BY ReachSame
<1>2. \A i \in Reach(top, below) : new[i] = below[i]
  BY ReachClosed
<1> HIDE DEF new
<1>3. Acyclic(top, new)
  BY <1>1, <1>2 DEF Acyclic, Falls
<1> QED
  BY <1>3 DEF new

----------------------------------------------------------------------------
(* The count and what the threads remember *)

Shape == TypeOK /\ LocalsOK /\ IdsKnown /\ CountCoversArena /\ TagsBehind

LEMMA CountMeans ==
    CountCoversArena <=>
        /\ node_count - Cardinality(Undoing) \in InitialNodes .. Capacity
        /\ Undoing # {} => node_count - Cardinality(Undoing) = Capacity
        /\ \A i \in Ids : alive[i] => i < node_count
BY DEF CountCoversArena, Undoing

LEMMA UndoingCounts ==
    /\ IsFiniteSet(Threads) /\ Cardinality(Threads) \in Nat
    /\ IsFiniteSet(Undoing) /\ Cardinality(Undoing) \in 0 .. Cardinality(Threads)
    /\ Undoing = {} <=> Cardinality(Undoing) = 0
<1>1. IsFiniteSet(Threads) /\ Undoing \in SUBSET Threads
  BY PoolAssumption DEF Undoing
<1>2. IsFiniteSet(Undoing) /\ Cardinality(Undoing) <= Cardinality(Threads)
  BY <1>1, FS_Subset
<1> QED
  BY <1>1, <1>2, FS_CardinalityType, FS_EmptySet

\* Every id is below the count, also while calls are about to give one back.
LEMMA CountBounds ==
    ASSUME Shape
    PROVE  /\ node_count \in Nat /\ InitialNodes <= node_count
           /\ node_count < Capacity => Undoing = {}
           /\ Undoing # {} => node_count > Capacity
           /\ node_count <= Capacity + Cardinality(Undoing)
BY UndoingCounts, CountMeans, ConstantTypes DEF Shape, TypeOK

LEMMA InitShape == Init => Shape
<1> SUFFICES ASSUME Init PROVE Shape
  OBVIOUS
<1>1. Undoing = {}
  BY DEF Init, Undoing
<1>2. CountCoversArena
  <2>1. /\ node_count = InitialNodes /\ Cardinality(Undoing) = 0
        /\ \A i \in Ids : alive[i] => i < node_count
    BY <1>1, UndoingCounts DEF Init
  <2> QED
    BY <1>1, <2>1, CountMeans, ConstantTypes
<1>3. owned \in [Threads -> SUBSET Ids] /\ \A t \in Threads : \A i \in owned[t] : i < InitialNodes
  <2>1. owned \in [Threads -> SUBSET (0 .. InitialNodes - 1)]
    BY DEF Init
  <2>2. \A i \in 0 .. InitialNodes - 1 : i \in Ids /\ i < InitialNodes
    BY ConstantTypes
  <2> QED
    BY <2>1, <2>2
<1>4. IdsKnown
  <2>1. /\ free_head = Empty /\ node_count = InitialNodes
        /\ free_next = [i \in Ids |-> None] /\ alive = [i \in Ids |-> i < InitialNodes]
        /\ head = [t \in Threads |-> Empty] /\ pc = [t \in Threads |-> "idle"]
    BY DEF Init
  <2>2. node_count \in Nat /\ None < node_count
    BY <2>1, ConstantTypes
  <2>3. \A i \in Ids : free_next[i] = None /\ (alive[i] => i < node_count)
    BY <2>1
  <2>4. \A t \in Threads : head[t] = Empty /\ pc[t] = "idle"
    BY <2>1
  <2> QED
    BY <1>3, <2>1, <2>2, <2>3, <2>4, HeadTypes DEF IdsKnown
<1>5. TypeOK
  <2>1. /\ free_head = Empty /\ node_count = InitialNodes
        /\ head = [t \in Threads |-> Empty] /\ pc = [t \in Threads |-> "idle"]
        /\ arg = [t \in Threads |-> None] /\ ops = 0
    BY DEF Init
  <2>2. /\ free_next = [i \in Ids |-> None] /\ alive = [i \in Ids |-> i < InitialNodes]
        /\ stale = [t \in Threads |-> FALSE] /\ broken = FALSE
    BY DEF Init
  <2>3. alive \in [Ids -> BOOLEAN]
    <3>1. \A i \in Ids : (i < InitialNodes) \in BOOLEAN
      OBVIOUS
    <3> QED
      BY <2>2, <3>1, Zenon
  <2>4. stale \in [Threads -> BOOLEAN] /\ broken \in BOOLEAN
    BY <2>2
  <2>5. free_next \in [Ids -> Ids \union {None}]
    BY <2>2
  <2> QED
    BY <1>3, <2>1, <2>3, <2>4, <2>5, UndoingCounts, HeadTypes, ConstantTypes DEF TypeOK
<1>6. LocalsOK /\ TagsBehind
  BY DEF Init, LocalsOK, TagsBehind
<1> QED
  BY <1>2, <1>4, <1>5, <1>6 DEF Shape

\* A step that leaves node_count and the threads about to undo alone, and brings
\* nothing to life that the count does not cover.
LEMMA CountKept ==
    ASSUME Shape, node_count' = node_count, Undoing' = Undoing,
           \A i \in Ids : alive'[i] => i < node_count
    PROVE  CountCoversArena'
BY CountMeans DEF Shape, CountCoversArena, Undoing

LEMMA LookShape ==
    ASSUME Shape, NEW t \in Threads, SpawnLoad(t) \/ SpawnCasFail(t)
    PROVE  Shape'
<1> USE DEF SpawnLoad, SpawnCasFail, LookAtHead, Goto
<1>1. TypeOK'
  <2>1. head' \in [Threads -> Heads]
    BY DEF Shape, TypeOK
  <2>2. stale' \in [Threads -> BOOLEAN]
    BY DEF Shape, TypeOK
  <2>3. pc' \in [Threads -> {"idle", "next", "cas", "reuse", "claim", "undo",
                            "construct", "link", "push"}]
    BY DEF Shape, TypeOK
  <2> QED
    BY <2>1, <2>2, <2>3 DEF Shape, TypeOK
<1>2. LocalsOK'
  BY DEF Shape, TypeOK, LocalsOK
<1>3. IdsKnown'
  BY DEF Shape, TypeOK, IdsKnown
<1>4. TagsBehind'
  BY DEF Shape, TagsBehind
<1>5. Undoing' = Undoing
  BY DEF Shape, TypeOK, Undoing
<1>6. CountCoversArena'
  BY <1>5, CountKept, CountMeans DEF Shape
<1> QED
  BY <1>1, <1>2, <1>3, <1>4, <1>6 DEF Shape

LEMMA NextShape ==
    ASSUME Shape, NEW t \in Threads, SpawnNext(t)
    PROVE  Shape'
<1> USE DEF SpawnNext, Goto
<1>1. head[t].id \in Ids /\ free_next[head[t].id] \in Ids \union {None}
  BY HeadTypes DEF Shape, TypeOK, LocalsOK
<1>2. TypeOK'
  BY <1>1, UndoingCounts, ConstantTypes DEF Shape, TypeOK
<1>3. LocalsOK'
  BY <1>1 DEF Shape, TypeOK, LocalsOK
<1>4. IdsKnown'
  BY <1>1 DEF Shape, TypeOK, IdsKnown
<1>5. TagsBehind'
  BY DEF Shape, TagsBehind
<1>6. Undoing' = Undoing
  BY DEF Shape, TypeOK, Undoing
<1>7. CountCoversArena'
  BY <1>6, CountKept, CountMeans DEF Shape
<1> QED
  BY <1>2, <1>3, <1>4, <1>5, <1>7 DEF Shape

\* The words that the compare-exchanges write.
LEMMA NewHeads ==
    ASSUME Shape, NEW t \in Threads, free_head = head[t], ops < MaxOps
    PROVE  /\ pc[t] = "cas" =>
                /\ Popped(t) \in Heads /\ Popped(t).id = arg[t]
                /\ Popped(t) # Empty => Popped(t).tag = free_head.tag + 1 /\ Popped(t).tag < ops + 1
           /\ pc[t] = "push" =>
                /\ Pushed(t) \in Heads /\ Pushed(t) # Empty /\ Pushed(t).id = arg[t]
                /\ free_head # Empty => Pushed(t).tag = free_head.tag + 1
                /\ Pushed(t).tag < ops + 1
<1>1. /\ free_head \in Heads /\ ops \in Nat /\ ops < MaxOps
      /\ free_head # Empty => free_head.tag < ops
  BY DEF Shape, TypeOK, TagsBehind
<1>2. free_head.tag \in Nat
  BY <1>1, HeadTypes
<1>3. free_head # Empty => NextTag(head[t]) = free_head.tag + 1
  BY <1>1, <1>2, NextTagCounts, ConstantTypes
<1>4. free_head = Empty => NextTag(head[t]) = 0
  BY NextTagCounts
<1>5. NextTag(head[t]) \in 0 .. TagMod - 1 /\ NextTag(head[t]) < ops + 1
  BY <1>1, <1>2, <1>3, <1>4, ConstantTypes
<1>6. CASE pc[t] = "cas"
  <2>1. head[t] # Empty /\ arg[t] \in Ids \union {None}
    BY <1>6 DEF Shape, LocalsOK
  <2>2. CASE arg[t] = None
    BY <1>6, <2>1, <2>2, HeadTypes DEF Popped
  <2>3. CASE arg[t] # None
    BY <1>3, <1>5, <1>6, <2>1, <2>3, HeadTypes DEF Popped
  <2> QED
    BY <2>2, <2>3
<1>7. CASE pc[t] = "push"
  <2>1. arg[t] \in Ids
    BY <1>7 DEF Shape, LocalsOK
  <2> QED
    BY <1>3, <1>5, <1>7, <2>1, HeadTypes DEF Pushed
<1> QED
  BY <1>6, <1>7

LEMMA PopShape ==
    ASSUME Shape, NEW t \in Threads, SpawnCas(t)
    PROVE  Shape'
<1> USE DEF SpawnCas, Goto
<1>1. head[t].id \in Ids
  BY HeadTypes DEF Shape, TypeOK, LocalsOK
<1>2. /\ Popped(t) \in Heads /\ Popped(t).id = arg[t]
      /\ Popped(t) # Empty => Popped(t).tag < ops + 1
  BY NewHeads
<1>3. TypeOK'
  BY <1>1, <1>2, UndoingCounts, ConstantTypes DEF Shape, TypeOK
<1>4. LocalsOK'
  BY <1>1 DEF Shape, TypeOK, LocalsOK
<1>5. IdsKnown'
  BY <1>1, <1>2 DEF Shape, TypeOK, IdsKnown
<1>6. TagsBehind'
  BY <1>2 DEF TagsBehind
<1>7. Undoing' = Undoing
  BY DEF Shape, TypeOK, Undoing
<1>8. CountCoversArena'
  BY <1>7, CountKept, CountMeans DEF Shape
<1> QED
  BY <1>3, <1>4, <1>5, <1>6, <1>8 DEF Shape

LEMMA ReturnShape ==
    ASSUME Shape, NEW t \in Threads, SpawnReuse(t) \/ SpawnConstruct(t)
    PROVE  Shape'
<1> USE DEF SpawnReuse, SpawnConstruct, Return, Goto
<1>1. arg[t] \in Ids /\ arg[t] < node_count
  BY DEF Shape, LocalsOK, IdsKnown
<1>2. TypeOK'
  <2>1. alive' \in [Ids -> BOOLEAN]
    BY DEF Shape, TypeOK
  <2>2. owned' \in [Threads -> SUBSET Ids]
    BY <1>1 DEF Shape, TypeOK
  <2>3. pc' \in [Threads -> {"idle", "next", "cas", "reuse", "claim", "undo",
                            "construct", "link", "push"}]
    BY DEF Shape, TypeOK
  <2>4. free_next' \in [Ids -> Ids \union {None}]
    BY DEF Shape, TypeOK
  <2> QED
    BY <2>1, <2>2, <2>3, <2>4 DEF Shape, TypeOK
<1>3. LocalsOK'
  BY <1>1 DEF Shape, TypeOK, LocalsOK
<1>4. IdsKnown'
  BY <1>1, CountBounds, ConstantTypes DEF Shape, TypeOK, IdsKnown
<1>5. TagsBehind'
  BY DEF Shape, TagsBehind
<1>6. Undoing' = Undoing
  BY DEF Shape, TypeOK, Undoing
<1>7. \A i \in Ids : alive'[i] => i < node_count
  BY <1>1, CountMeans DEF Shape, TypeOK
<1>8. CountCoversArena'
  BY <1>6, <1>7, CountKept
<1> QED
  BY <1>2, <1>3, <1>4, <1>5, <1>8 DEF Shape

LEMMA ClaimShape ==
    ASSUME Shape, NEW t \in Threads, SpawnClaim(t)
    PROVE  Shape'
<1> USE DEF SpawnClaim, Goto
<1> DEFINE n == Cardinality(Undoing)
           m == Cardinality(Undoing')
<1>1. /\ node_count \in Nat /\ node_count <= Capacity + n /\ n \in Nat /\ m \in Nat
      /\ m <= Cardinality(Threads) /\ Cardinality(Threads) \in Nat
  <2>1. Cardinality(Undoing') \in 0 .. Cardinality(Threads)
    <3>1. IsFiniteSet(Threads) /\ Undoing' \in SUBSET Threads
      BY PoolAssumption DEF Undoing
    <3> QED
      BY <3>1, FS_Subset, FS_CardinalityType
  <2> QED
    BY <2>1, CountBounds, UndoingCounts
<1>2. CASE node_count >= Capacity
  <2>1. Undoing' = Undoing \union {t} /\ t \notin Undoing
    BY <1>2 DEF Shape, TypeOK, Undoing
  <2>2. m = n + 1 /\ Undoing' # {}
    BY <2>1, UndoingCounts, FS_AddElement
  <2>3. node_count' - m = Capacity
    <3>1. node_count - n = Capacity
      BY <1>1, <1>2, UndoingCounts, CountMeans, ConstantTypes DEF Shape
    <3> QED
      BY <1>1, <2>2, <3>1, ConstantTypes
  <2> HIDE DEF n, m
  <2>4. CountCoversArena'
    <3>1. \A i \in Ids : alive'[i] => i < node_count'
      BY <1>1, CountMeans, ConstantTypes DEF Shape
    <3> QED
      BY <2>3, <3>1, ConstantTypes DEF CountCoversArena, Undoing, m
  <2>5. TypeOK'
    BY <1>1, <1>2, <2>3, ConstantTypes DEF Shape, TypeOK
  <2>6. LocalsOK'
    BY <1>2 DEF Shape, TypeOK, LocalsOK
  <2>7. IdsKnown'
    BY <1>1, <1>2, ConstantTypes, HeadTypes DEF Shape, TypeOK, IdsKnown, LocalsOK
  <2> QED
    BY <2>4, <2>5, <2>6, <2>7 DEF Shape, TagsBehind
<1>3. CASE node_count < Capacity
  <2>1. Undoing' = Undoing /\ Undoing = {} /\ n = 0
    <3>1. Undoing = {} /\ n = 0
      BY <1>3, CountBounds, UndoingCounts
    <3>2. ~(node_count >= Capacity)
      BY <1>1, <1>3, ConstantTypes
    <3>3. Undoing' = Undoing
      BY <3>2 DEF Shape, TypeOK, Undoing
    <3> QED
      BY <3>1, <3>3
  <2>2. node_count \in Ids
    BY <1>1, <1>3, ConstantTypes
  <2>3. CountCoversArena'
    <3>1. \A i \in Ids : alive'[i] => i < node_count'
      BY <1>1, CountMeans, ConstantTypes DEF Shape
    <3>2. node_count' - n \in InitialNodes .. Capacity
      BY <1>1, <1>3, <2>1, CountBounds, ConstantTypes
    <3> QED
      BY <2>1, <3>1, <3>2 DEF CountCoversArena, Undoing
  <2> HIDE DEF n, m
  <2>4. TypeOK'
    BY <1>1, <1>3, CountBounds, ConstantTypes DEF Shape, TypeOK
  <2>5. LocalsOK'
    BY <1>3, <2>2 DEF Shape, TypeOK, LocalsOK
  <2>6. IdsKnown'
    BY <1>1, <1>3, ConstantTypes, HeadTypes DEF Shape, TypeOK, IdsKnown, LocalsOK
  <2> QED
    BY <2>3, <2>4, <2>5, <2>6 DEF Shape, TagsBehind
<1> QED
  BY <1>1, <1>2, <1>3, ConstantTypes

LEMMA UndoShape ==
    ASSUME Shape, NEW t \in Threads, SpawnUndo(t)
    PROVE  Shape'
<1> USE DEF SpawnUndo, Goto
<1> DEFINE n == Cardinality(Undoing)
           m == Cardinality(Undoing')
<1>1. t \in Undoing /\ Undoing' = Undoing \ {t}
  BY DEF Shape, TypeOK, Undoing
<1>2. n \in Nat /\ m = n - 1 /\ m \in Nat /\ n <= Cardinality(Threads)
  BY <1>1, UndoingCounts, FS_RemoveElement, FS_CardinalityType
<1>3. node_count \in Nat /\ node_count - n = Capacity /\ node_count > Capacity
  BY <1>1, CountBounds, CountMeans DEF Shape
<1>4. node_count' - m = Capacity
  BY <1>2, <1>3, ConstantTypes
<1> HIDE DEF n, m
<1>5. \A i \in Ids \union {None} : i < node_count'
  BY <1>3, ConstantTypes
<1>6. CountCoversArena'
  BY <1>4, <1>5, ConstantTypes DEF CountCoversArena, Undoing, m
<1>7. TypeOK'
  BY <1>2, <1>3, UndoingCounts, ConstantTypes DEF Shape, TypeOK
<1>8. LocalsOK'
  BY DEF Shape, TypeOK, LocalsOK
<1>9. IdsKnown'
  BY <1>5, <1>8, HeadTypes DEF Shape, TypeOK, IdsKnown, LocalsOK
<1> QED
  BY <1>6, <1>7, <1>8, <1>9 DEF Shape, TagsBehind

LEMMA MarkShape ==
    ASSUME Shape, NEW t \in Threads, NEW id \in Ids, KillMark(t, id)
    PROVE  Shape'
<1> USE DEF KillMark, Goto
<1>1. id < node_count /\ id \in None .. Capacity + Cardinality(Threads)
  BY UndoingCounts, ConstantTypes DEF Shape, TypeOK, IdsKnown
<1>2. TypeOK'
  BY <1>1 DEF Shape, TypeOK
<1>3. LocalsOK'
  BY DEF Shape, TypeOK, LocalsOK
<1>4. IdsKnown'
  BY <1>1 DEF Shape, TypeOK, IdsKnown
<1>5. TagsBehind'
  BY DEF Shape, TagsBehind
<1>6. Undoing' = Undoing
  BY DEF Shape, TypeOK, Undoing
<1>7. \A i \in Ids : alive'[i] => i < node_count
  BY CountMeans DEF Shape, TypeOK
<1>8. CountCoversArena'
  BY <1>6, <1>7, CountKept
<1> QED
  BY <1>2, <1>3, <1>4, <1>5, <1>8 DEF Shape

LEMMA LinkShape ==
    ASSUME Shape, NEW t \in Threads, KillLink(t) \/ KillCasFail(t)
    PROVE  Shape'
<1> USE DEF KillLink, KillCasFail, Goto
<1>1. head[t].id \in Ids \union {None} /\ arg[t] \in Ids
  BY HeadTypes DEF Shape, TypeOK, LocalsOK
<1>2. TypeOK'
  BY <1>1 DEF Shape, TypeOK
<1>3. LocalsOK'
  BY <1>1 DEF Shape, TypeOK, LocalsOK
<1>4. IdsKnown'
  BY <1>1 DEF Shape, TypeOK, IdsKnown
<1>5. TagsBehind'
  BY DEF Shape, TagsBehind
<1>6. Undoing' = Undoing
  BY DEF Shape, TypeOK, Undoing
<1>7. CountCoversArena'
  BY <1>6, CountKept, CountMeans DEF Shape
<1> QED
  BY <1>2, <1>3, <1>4, <1>5, <1>7 DEF Shape

LEMMA PushShape ==
    ASSUME Shape, NEW t \in Threads, KillCas(t)
    PROVE  Shape'
<1> USE DEF KillCas, Goto
<1>1. /\ Pushed(t) \in Heads /\ Pushed(t) # Empty /\ Pushed(t).id = arg[t]
      /\ Pushed(t).tag < ops + 1
  BY NewHeads
<1>2. TypeOK'
  BY <1>1, ConstantTypes DEF Shape, TypeOK
<1>3. LocalsOK'
  BY DEF Shape, TypeOK, LocalsOK
<1>4. IdsKnown'
  BY <1>1 DEF Shape, TypeOK, IdsKnown
<1>5. TagsBehind'
  BY <1>1 DEF TagsBehind
<1>6. Undoing' = Undoing
  BY DEF Shape, TypeOK, Undoing
<1>7. CountCoversArena'
  BY <1>6, CountKept, CountMeans DEF Shape
<1> QED
  BY <1>2, <1>3, <1>4, <1>5, <1>7 DEF Shape

LEMMA ShapeStep == Shape /\ [Next]_vars => Shape'
<1> SUFFICES ASSUME Shape, [Next]_vars PROVE Shape'
  OBVIOUS
<1>1. CASE UNCHANGED vars
  <2>1. TypeOK' /\ LocalsOK' /\ IdsKnown' /\ TagsBehind'
    BY <1>1 DEF vars, Shape, TypeOK, LocalsOK, IdsKnown, TagsBehind
  <2>2. CountCoversArena'
    BY <1>1 DEF vars, Shape, CountCoversArena
  <2> QED
    BY <2>1, <2>2 DEF Shape
<1>2. ASSUME NEW t \in Threads, Spawn(t)
      PROVE  Shape'
  BY <1>2, LookShape, NextShape, PopShape, ReturnShape, ClaimShape, UndoShape DEF Spawn
<1>3. ASSUME NEW t \in Threads, Kill(t)
      PROVE  Shape'
  BY <1>3, MarkShape, LinkShape, PushShape DEF Kill
<1> QED
  BY <1>1, <1>2, <1>3 DEF Next

----------------------------------------------------------------------------
(* One owner per node *)

\* Nothing is claimed of the stack until a pop with a stale head succeeds.
LEMMA InitStack == Init => StackSound
<1> SUFFICES ASSUME Init PROVE StackSound
  OBVIOUS
<1>1. OnStack = {}
  BY ReachNothing, HeadTypes DEF Init, OnStack
<1>2. Acyclic(free_head.id, free_next)
  <2>1. [i \in Ids |-> 0] \in [Ids -> Nat]
    OBVIOUS
  <2> QED
    BY <1>1, <2>1 DEF OnStack, Acyclic, Falls
<1>3. \A t \in Threads : pc[t] = "idle" /\ InHand(t) = {}
  BY DEF Init, InHand
<1>4. \A t, u \in Threads : t # u => owned[t] \intersect owned[u] = {}
  BY DEF Init
<1>5. OneOwnerPerNode
  BY <1>1, <1>3, <1>4 DEF OneOwnerPerNode, Held
<1>6. \A i \in Ids : i < node_count => alive[i]
  BY DEF Init
<1> QED
  BY <1>2, <1>3, <1>5, <1>6 DEF StackSound, HeadsFresh, PushLinked, KilledBack

\* What the stack's soundness says of the top and of a node in a thread's hand.
LEMMA StackFacts ==
    ASSUME Shape, StackSound
    PROVE  /\ free_head.id \in Ids \union {None} /\ free_next \in [Ids -> Ids \union {None}]
           /\ OnStack \in SUBSET Ids
           /\ free_head # Empty => free_head.id \in Ids /\ free_head.id \in OnStack
           /\ \A t \in Threads : \A i \in Held(t) : i \notin OnStack
<1>1. free_head.id \in Ids \union {None} /\ free_next \in [Ids -> Ids \union {None}]
  BY HeadTypes DEF Shape, TypeOK
<1>2. free_head # Empty => free_head.id \in Ids
  BY HeadTypes DEF Shape, TypeOK
<1>3. OnStack \in SUBSET Ids /\ Closed(OnStack, free_head.id, free_next)
  BY <1>1, ReachClosed DEF OnStack
<1>4. free_head # Empty => free_head.id \in OnStack
  BY <1>2, <1>3, ConstantTypes DEF Closed
<1> QED
  BY <1>1, <1>2, <1>3, <1>4 DEF StackSound, OneOwnerPerNode

LEMMA LookStack ==
    ASSUME Shape, StackSound, NEW t \in Threads, SpawnLoad(t) \/ SpawnCasFail(t)
    PROVE  StackSound'
<1> USE DEF SpawnLoad, SpawnCasFail, LookAtHead, Goto
<1>1. OnStack' = OnStack /\ Acyclic(free_head.id, free_next)'
  BY DEF OnStack, StackSound, Acyclic
<1>2. \A u \in Threads : InHand(u)' = InHand(u) /\ Held(u)' = Held(u)
  BY DEF Shape, TypeOK, InHand, Held
<1>3. OneOwnerPerNode' /\ KilledBack'
  BY <1>1, <1>2 DEF StackSound, OneOwnerPerNode, KilledBack
<1>4. PushLinked'
  BY DEF Shape, TypeOK, StackSound, PushLinked
<1>5. HeadsFresh'
  <2> SUFFICES ASSUME NEW u \in Threads, pc'[u] \in {"next", "cas"}, ~stale'[u]
               PROVE  /\ free_head # Empty /\ head'[u].tag <= free_head.tag
                      /\ head'[u].tag = free_head.tag => head'[u] = free_head
                      /\ pc'[u] = "cas" /\ head'[u] = free_head =>
                            arg[u] = free_next[head'[u].id]
    BY DEF HeadsFresh
  <2>1. CASE u = t
    <3>1. free_head # Empty /\ head'[u] = free_head /\ pc'[u] = "next"
      BY <2>1 DEF Shape, TypeOK
    <3>2. free_head.tag \in Nat
      BY HeadTypes DEF Shape, TypeOK
    <3> QED
      BY <3>1, <3>2
  <2>2. CASE u # t
    BY <2>2 DEF Shape, TypeOK, StackSound, HeadsFresh
  <2> QED
    BY <2>1, <2>2
<1> QED
  BY <1>1, <1>3, <1>4, <1>5 DEF StackSound

LEMMA NextStack ==
    ASSUME Shape, StackSound, NEW t \in Threads, SpawnNext(t)
    PROVE  StackSound'
<1> USE DEF SpawnNext, Goto
<1>1. OnStack' = OnStack /\ Acyclic(free_head.id, free_next)'
  BY DEF OnStack, StackSound, Acyclic
<1>2. \A u \in Threads : InHand(u)' = InHand(u) /\ Held(u)' = Held(u)
  BY DEF Shape, TypeOK, InHand, Held
<1>3. OneOwnerPerNode' /\ KilledBack'
  BY <1>1, <1>2 DEF StackSound, OneOwnerPerNode, KilledBack
<1>4. PushLinked'
  BY DEF Shape, TypeOK, StackSound, PushLinked
<1>5. HeadsFresh'
  BY DEF Shape, TypeOK, StackSound, HeadsFresh
<1> QED
  BY <1>1, <1>3, <1>4, <1>5 DEF StackSound

\* A pop with a fresh head takes the top off, whose successor it knows.
LEMMA FreshPop ==
    ASSUME Shape, StackSound, NEW t \in Threads, SpawnCas(t), ~stale[t]
    PROVE  /\ free_head # Empty /\ arg[t] = free_next[free_head.id]
           /\ head[t] = free_head
BY DEF StackSound, HeadsFresh, SpawnCas

LEMMA PopStack ==
    ASSUME Shape, StackSound, NEW t \in Threads, SpawnCas(t), ~stale[t]
    PROVE  StackSound'
<1> DEFINE top == free_head.id
<1>1. top \in Ids /\ top \in OnStack /\ head[t] = free_head /\ arg[t] = free_next[top]
  BY FreshPop, StackFacts
<1>2. free_head' = Popped(t) /\ free_head'.id = arg[t] /\ free_next' = free_next
  BY NewHeads DEF SpawnCas
<1>3. OnStack' = OnStack \ {top}
  BY <1>1, <1>2, ReachPop, StackFacts DEF StackSound, OnStack
<1>4. Acyclic(free_head.id, free_next)'
  <2>1. Acyclic(free_next[top], free_next)
    BY <1>1, AcyclicPop, StackFacts DEF StackSound
  <2> QED
    BY <1>1, <1>2, <2>1 DEF Acyclic
<1> HIDE DEF top
<1>5. /\ InHand(t) = {} /\ InHand(t)' = {top} /\ owned' = owned
      /\ \A u \in Threads : u # t => InHand(u)' = InHand(u)
  BY <1>1 DEF Shape, TypeOK, SpawnCas, Goto, InHand, top
<1>6. OneOwnerPerNode'
  BY <1>1, <1>3, <1>5, StackFacts DEF StackSound, OneOwnerPerNode, Held
<1>7. KilledBack'
  <2>1. node_count' = node_count /\ alive' = alive
    BY DEF SpawnCas
  <2> QED
    BY <1>3, <1>5, <2>1 DEF StackSound, KilledBack
<1>8. PushLinked'
  BY DEF Shape, TypeOK, SpawnCas, Goto, StackSound, PushLinked
<1>9. HeadsFresh'
  <2> SUFFICES ASSUME NEW u \in Threads, pc'[u] \in {"next", "cas"}, ~stale'[u]
               PROVE  /\ free_head' # Empty /\ head'[u].tag < free_head'.tag
                      /\ head'[u].tag \in Nat /\ free_head'.tag \in Nat
    BY DEF HeadsFresh
  <2>1. u # t /\ pc[u] \in {"next", "cas"} /\ ~stale[u] /\ Popped(t) # Empty
    BY DEF Shape, TypeOK, SpawnCas, Goto
  <2>2. head'[u] = head[u] /\ head[u].tag <= free_head.tag
    BY <2>1 DEF SpawnCas, StackSound, HeadsFresh
  <2>3. free_head'.tag = free_head.tag + 1
    BY <1>2, <2>1, NewHeads DEF SpawnCas
  <2>4. head[u].tag \in Nat /\ free_head.tag \in Nat
    BY HeadTypes DEF Shape, TypeOK
  <2> QED
    BY <1>2, <2>1, <2>2, <2>3, <2>4
<1> QED
  BY <1>4, <1>6, <1>7, <1>8, <1>9 DEF StackSound

LEMMA ReuseStack ==
    ASSUME Shape, StackSound, NEW t \in Threads, SpawnReuse(t)
    PROVE  StackSound'
<1> USE DEF SpawnReuse, Return, Goto
<1>1. OnStack' = OnStack /\ Acyclic(free_head.id, free_next)'
  BY DEF OnStack, StackSound, Acyclic
<1>2. /\ InHand(t) = {arg[t]} /\ InHand(t)' = {} /\ owned'[t] = owned[t] \union {arg[t]}
      /\ \A u \in Threads : u # t => InHand(u)' = InHand(u) /\ owned'[u] = owned[u]
  BY DEF Shape, TypeOK, InHand
<1>3. OneOwnerPerNode'
  <2>1. \A u \in Threads : Held(u)' = Held(u)
    BY <1>2 DEF Held
  <2> QED
    BY <1>1, <1>2, <2>1 DEF StackSound, OneOwnerPerNode
<1>4. KilledBack'
  <2>1. \A i \in Ids : alive'[i] <=> alive[i] \/ i = arg[t]
    BY DEF Shape, TypeOK
  <2>2. \A i \in Ids, u \in Threads : i \in InHand(u) => i \in InHand(u)' \/ i = arg[t]
    BY <1>2
  <2> QED
    BY <1>1, <2>1, <2>2 DEF StackSound, KilledBack
<1>5. PushLinked'
  BY DEF Shape, TypeOK, StackSound, PushLinked
<1>6. HeadsFresh'
  BY DEF Shape, TypeOK, StackSound, HeadsFresh
<1> QED
  BY <1>1, <1>3, <1>4, <1>5, <1>6 DEF StackSound

\* Writing the link of the node in a thread's hand disturbs no one.
LEMMA LinkApart ==
    ASSUME Shape, StackSound, NEW t \in Threads, pc[t] \in {"construct", "link"},
           NEW y \in Ids \union {None}, free_head' = free_head,
           free_next' = [free_next EXCEPT ![arg[t]] = y]
    PROVE  /\ OnStack' = OnStack /\ Acyclic(free_head.id, free_next)'
           /\ \A u \in Threads : u # t /\ pc[u] = "push" =>
                  free_next'[arg[u]] = free_next[arg[u]]
           /\ free_head # Empty => free_next'[free_head.id] = free_next[free_head.id]
<1>1. arg[t] \in Ids /\ arg[t] \in InHand(t) /\ arg[t] \in Held(t)
  BY DEF Shape, LocalsOK, InHand, Held
<1>2. arg[t] \notin OnStack
  BY <1>1, StackFacts
<1>3. OnStack' = OnStack
  <2>1. Reach(free_head.id, [free_next EXCEPT ![arg[t]] = y]) = Reach(free_head.id, free_next)
    BY <1>1, <1>2, ReachSame, StackFacts DEF OnStack
  <2> QED
    BY <2>1 DEF OnStack
<1>4. Acyclic(free_head.id, free_next)'
  <2>1. Acyclic(free_head.id, [free_next EXCEPT ![arg[t]] = y])
    BY <1>1, <1>2, AcyclicSame, StackFacts DEF StackSound, OnStack
  <2> QED
    BY <2>1 DEF Acyclic
<1>5. ASSUME NEW u \in Threads, u # t, pc[u] = "push"
      PROVE  free_next'[arg[u]] = free_next[arg[u]]
  <2>1. arg[u] \in Ids /\ arg[u] \in Held(u)
    BY <1>5 DEF Shape, LocalsOK, InHand, Held
  <2>2. arg[u] # arg[t]
    BY <1>1, <1>5, <2>1 DEF StackSound, OneOwnerPerNode
  <2> QED
    BY <2>1, <2>2, StackFacts
<1>6. free_head # Empty => free_next'[free_head.id] = free_next[free_head.id]
  BY <1>2, StackFacts
<1> QED
  BY <1>3, <1>4, <1>5, <1>6

\* A thread's fresh head stays so when the stack and its variables do.
LEMMA FreshKept ==
    ASSUME Shape, StackSound, free_head' = free_head, stale' = stale, head' = head,
           free_head # Empty => free_next'[free_head.id] = free_next[free_head.id],
           \A u \in Threads : pc'[u] \in {"next", "cas"} =>
               pc[u] = pc'[u] /\ arg'[u] = arg[u]
    PROVE  HeadsFresh'
BY DEF StackSound, HeadsFresh

LEMMA ConstructStack ==
    ASSUME Shape, StackSound, NEW t \in Threads, SpawnConstruct(t)
    PROVE  StackSound'
<1> USE DEF SpawnConstruct, Return, Goto
<1>1. /\ OnStack' = OnStack /\ Acyclic(free_head.id, free_next)'
      /\ \A u \in Threads : u # t /\ pc[u] = "push" => free_next'[arg[u]] = free_next[arg[u]]
      /\ free_head # Empty => free_next'[free_head.id] = free_next[free_head.id]
  BY LinkApart
<1>2. /\ InHand(t) = {arg[t]} /\ InHand(t)' = {} /\ owned'[t] = owned[t] \union {arg[t]}
      /\ \A u \in Threads : u # t => InHand(u)' = InHand(u) /\ owned'[u] = owned[u]
  BY DEF Shape, TypeOK, InHand
<1>3. OneOwnerPerNode'
  <2>1. \A u \in Threads : Held(u)' = Held(u)
    BY <1>2 DEF Held
  <2> QED
    BY <1>1, <1>2, <2>1 DEF StackSound, OneOwnerPerNode
<1>4. KilledBack'
  <2>1. \A i \in Ids : alive'[i] <=> alive[i] \/ i = arg[t]
    BY DEF Shape, TypeOK
  <2>2. \A i \in Ids, u \in Threads : i \in InHand(u) => i \in InHand(u)' \/ i = arg[t]
    BY <1>2
  <2> QED
    BY <1>1, <2>1, <2>2 DEF StackSound, KilledBack
<1>5. PushLinked'
  BY <1>1 DEF Shape, TypeOK, StackSound, PushLinked
<1>6. HeadsFresh'
  BY <1>1, FreshKept DEF Shape, TypeOK
<1> QED
  BY <1>1, <1>3, <1>4, <1>5, <1>6 DEF StackSound

\* The arena's next slot is new to everyone.
LEMMA ClaimStack ==
    ASSUME Shape, StackSound, NEW t \in Threads, SpawnClaim(t)
    PROVE  StackSound'
<1> USE DEF SpawnClaim, Goto
<1>1. OnStack' = OnStack /\ Acyclic(free_head.id, free_next)'
  BY DEF OnStack, StackSound, Acyclic
<1>2. /\ InHand(t) = {} /\ owned' = owned
      /\ InHand(t)' = IF node_count >= Capacity THEN {} ELSE {node_count}
      /\ \A u \in Threads : u # t => InHand(u)' = InHand(u)
  BY DEF Shape, TypeOK, InHand
<1>3. /\ node_count \in Nat
      /\ \A u \in Threads : \A i \in Held(u) : i < node_count
  BY CountBounds DEF Shape, IdsKnown, LocalsOK, Held, InHand
<1>4. \A i \in OnStack : i < node_count
  <2> DEFINE S == {i \in Ids : i < node_count}
  <2>1. Closed(S, free_head.id, free_next)
    BY StackFacts DEF Shape, IdsKnown, Closed
  <2> QED
    BY <2>1, ReachLeast DEF OnStack
<1>5. /\ \A u \in Threads : node_count \notin Held(u)
      /\ node_count \notin OnStack
  BY <1>3, <1>4
<1>6. OneOwnerPerNode'
  BY <1>1, <1>2, <1>5 DEF StackSound, OneOwnerPerNode, Held
<1>7. KilledBack'
  <2> SUFFICES ASSUME NEW i \in Ids, i < node_count + 1, ~alive[i]
               PROVE  i \in OnStack \/ \E u \in Threads : i \in InHand(u)'
    BY <1>1 DEF KilledBack
  <2>1. CASE i < node_count
    BY <1>2, <2>1 DEF StackSound, KilledBack
  <2>2. CASE i = node_count
    BY <1>2, <2>2, ConstantTypes
  <2> QED
    BY <1>3, <2>1, <2>2, ConstantTypes
<1>8. PushLinked'
  BY DEF Shape, TypeOK, StackSound, PushLinked
<1>9. HeadsFresh'
  BY FreshKept DEF Shape, TypeOK
<1> QED
  BY <1>1, <1>6, <1>7, <1>8, <1>9 DEF StackSound

LEMMA UndoStack ==
    ASSUME Shape, StackSound, NEW t \in Threads, SpawnUndo(t)
    PROVE  StackSound'
<1> USE DEF SpawnUndo, Goto
<1>1. OnStack' = OnStack /\ Acyclic(free_head.id, free_next)'
  BY DEF OnStack, StackSound, Acyclic
<1>2. \A u \in Threads : InHand(u)' = InHand(u) /\ Held(u)' = Held(u)
  BY DEF Shape, TypeOK, InHand, Held
<1>3. OneOwnerPerNode'
  BY <1>1, <1>2 DEF StackSound, OneOwnerPerNode
<1>4. KilledBack'
  <2>1. \A i \in Ids : i < node_count' => i < node_count
    BY CountBounds, ConstantTypes
  <2> QED
    BY <1>1, <1>2, <2>1 DEF StackSound, KilledBack
<1>5. PushLinked'
  BY DEF Shape, TypeOK, StackSound, PushLinked
<1>6. HeadsFresh'
  BY FreshKept DEF Shape, TypeOK
<1> QED
  BY <1>1, <1>3, <1>4, <1>5, <1>6 DEF StackSound

LEMMA MarkStack ==
    ASSUME Shape, StackSound, NEW t \in Threads, NEW id \in Ids, KillMark(t, id)
    PROVE  StackSound'
<1> USE DEF KillMark, Goto
<1>1. OnStack' = OnStack /\ Acyclic(free_head.id, free_next)'
  BY DEF OnStack, StackSound, Acyclic
<1>2. /\ InHand(t) = {} /\ InHand(t)' = {id} /\ id \in owned[t]
      /\ owned'[t] = owned[t] \ {id}
      /\ \A u \in Threads : u # t => InHand(u)' = InHand(u) /\ owned'[u] = owned[u]
  BY DEF Shape, TypeOK, InHand
<1>3. OneOwnerPerNode'
  <2>1. \A u \in Threads : Held(u)' = Held(u)
    BY <1>2 DEF Held
  <2> QED
    BY <1>1, <1>2, <2>1 DEF StackSound, OneOwnerPerNode
<1>4. KilledBack'
  <2>1. \A i \in Ids : alive[i] => alive'[i] \/ i = id
    BY DEF Shape, TypeOK
  <2>2. \A i \in Ids, u \in Threads : i \in InHand(u) => i \in InHand(u)'
    BY <1>2
  <2>3. id \in InHand(t)'
    BY <1>2
  <2> QED
    BY <1>1, <2>1, <2>2, <2>3 DEF StackSound, KilledBack
<1>5. PushLinked'
  BY DEF Shape, TypeOK, StackSound, PushLinked
<1>6. HeadsFresh'
  BY DEF Shape, TypeOK, StackSound, HeadsFresh
<1> QED
  BY <1>1, <1>3, <1>4, <1>5, <1>6 DEF StackSound

LEMMA LinkStack ==
    ASSUME Shape, StackSound, NEW t \in Threads, KillLink(t)
    PROVE  StackSound'
<1> USE DEF KillLink, Goto
<1>1. /\ OnStack' = OnStack /\ Acyclic(free_head.id, free_next)'
      /\ \A u \in Threads : u # t /\ pc[u] = "push" => free_next'[arg[u]] = free_next[arg[u]]
      /\ free_head # Empty => free_next'[free_head.id] = free_next[free_head.id]
  <2>1. head[t].id \in Ids \union {None}
    BY HeadTypes DEF Shape, TypeOK
  <2> QED
    BY <2>1, LinkApart
<1>2. \A u \in Threads : InHand(u)' = InHand(u) /\ Held(u)' = Held(u)
  BY DEF Shape, TypeOK, InHand, Held
<1>3. OneOwnerPerNode' /\ KilledBack'
  BY <1>1, <1>2 DEF StackSound, OneOwnerPerNode, KilledBack
<1>4. PushLinked'
  <2>1. free_next'[arg[t]] = head[t].id
    BY DEF Shape, TypeOK, LocalsOK
  <2> QED
    BY <1>1, <2>1 DEF Shape, TypeOK, StackSound, PushLinked
<1>5. HeadsFresh'
  BY <1>1, FreshKept DEF Shape, TypeOK
<1> QED
  BY <1>1, <1>3, <1>4, <1>5 DEF StackSound

LEMMA PushFailStack ==
    ASSUME Shape, StackSound, NEW t \in Threads, KillCasFail(t)
    PROVE  StackSound'
<1> USE DEF KillCasFail, Goto
<1>1. OnStack' = OnStack /\ Acyclic(free_head.id, free_next)'
  BY DEF OnStack, StackSound, Acyclic
<1>2. \A u \in Threads : InHand(u)' = InHand(u) /\ Held(u)' = Held(u)
  BY DEF Shape, TypeOK, InHand, Held
<1>3. OneOwnerPerNode' /\ KilledBack'
  BY <1>1, <1>2 DEF StackSound, OneOwnerPerNode, KilledBack
<1>4. PushLinked'
  BY DEF Shape, TypeOK, StackSound, PushLinked
<1>5. HeadsFresh'
  BY DEF Shape, TypeOK, StackSound, HeadsFresh
<1> QED
  BY <1>1, <1>3, <1>4, <1>5 DEF StackSound

LEMMA PushStack ==
    ASSUME Shape, StackSound, NEW t \in Threads, KillCas(t)
    PROVE  StackSound'
<1> DEFINE id == arg[t]
<1>1. /\ id \in Ids /\ id \in InHand(t) /\ id \in Held(t) /\ id \notin OnStack
      /\ free_head = head[t] /\ free_next[id] = free_head.id
  <2>1. id \in Ids /\ id \in InHand(t)
    BY DEF KillCas, Shape, LocalsOK, InHand
  <2>2. id \in Held(t) /\ id \notin OnStack
    BY <2>1, StackFacts DEF Held
  <2> QED
    BY <2>1, <2>2 DEF KillCas, StackSound, PushLinked
<1>2. free_head' = Pushed(t) /\ free_head'.id = id /\ free_next' = free_next
  BY NewHeads DEF KillCas
<1>3. OnStack' = OnStack \union {id}
  BY <1>1, <1>2, ReachPush, StackFacts DEF OnStack
<1>4. Acyclic(free_head.id, free_next)'
  <2>1. Acyclic(id, free_next)
    BY <1>1, AcyclicPush, StackFacts DEF StackSound, OnStack
  <2> QED
    BY <1>2, <2>1 DEF Acyclic
<1>5. /\ InHand(t) = {id} /\ InHand(t)' = {} /\ owned' = owned
      /\ \A u \in Threads : u # t => InHand(u)' = InHand(u)
  BY DEF Shape, TypeOK, KillCas, Goto, InHand
<1> HIDE DEF id
<1>6. OneOwnerPerNode'
  BY <1>1, <1>3, <1>5 DEF StackSound, OneOwnerPerNode, Held
<1>7. KilledBack'
  <2>1. node_count' = node_count /\ alive' = alive
    BY DEF KillCas
  <2> QED
    BY <1>3, <1>5, <2>1 DEF StackSound, KilledBack
<1>8. PushLinked'
  BY DEF Shape, TypeOK, KillCas, Goto, StackSound, PushLinked
<1>9. HeadsFresh'
  <2> SUFFICES ASSUME NEW u \in Threads, pc'[u] \in {"next", "cas"}, ~stale'[u]
               PROVE  /\ free_head' # Empty /\ head'[u].tag < free_head'.tag
                      /\ head'[u].tag \in Nat /\ free_head'.tag \in Nat
    BY DEF HeadsFresh
  <2>1. u # t /\ pc[u] \in {"next", "cas"} /\ ~stale[u]
    BY DEF Shape, TypeOK, KillCas, Goto
  <2>2. head'[u] = head[u] /\ free_head # Empty /\ head[u].tag <= free_head.tag
    BY <2>1 DEF KillCas, StackSound, HeadsFresh
  <2>3. free_head'.tag = free_head.tag + 1 /\ free_head' # Empty
    BY <1>2, <2>2, NewHeads DEF KillCas
  <2>4. head[u].tag \in Nat /\ free_head.tag \in Nat
    BY HeadTypes DEF Shape, TypeOK
  <2> QED
    BY <2>2, <2>3, <2>4
<1> QED
  BY <1>4, <1>6, <1>7, <1>8, <1>9 DEF StackSound

LEMMA StackStep ==
    Shape /\ (~broken => StackSound) /\ [Next]_vars => (~broken => StackSound)'
<1> SUFFICES ASSUME Shape, ~broken => StackSound, [Next]_vars, ~broken'
             PROVE  StackSound'
  OBVIOUS
<1>1. CASE UNCHANGED vars
  <2>1. StackSound
    BY <1>1 DEF vars
  <2>2. OnStack' = OnStack /\ Acyclic(free_head.id, free_next)'
    BY <1>1, <2>1 DEF vars, OnStack, StackSound, Acyclic
  <2>3. \A u \in Threads : InHand(u)' = InHand(u) /\ Held(u)' = Held(u)
    BY <1>1 DEF vars, InHand, Held
  <2>4. OneOwnerPerNode' /\ KilledBack'
    BY <1>1, <2>1, <2>2, <2>3 DEF vars, StackSound, OneOwnerPerNode, KilledBack
  <2>5. PushLinked' /\ HeadsFresh'
    BY <1>1, <2>1 DEF vars, StackSound, PushLinked, HeadsFresh
  <2> QED
    BY <2>2, <2>4, <2>5 DEF StackSound
<1>2. ASSUME NEW t \in Threads, SpawnCas(t)
      PROVE  StackSound'
  <2>1. ~broken /\ ~stale[t]
    BY <1>2 DEF SpawnCas
  <2> QED
    BY <1>2, <2>1, PopStack
<1>3. ASSUME NEW t \in Threads, Spawn(t), ~SpawnCas(t)
      PROVE  StackSound'
  <2>1. ~broken
    BY <1>3 DEF Spawn, SpawnLoad, SpawnCasFail, LookAtHead, SpawnNext, SpawnReuse,
                SpawnClaim, SpawnUndo, SpawnConstruct
  <2> QED
    BY <1>3, <2>1, LookStack, NextStack, ReuseStack, ClaimStack, UndoStack,
       ConstructStack DEF Spawn
<1>4. ASSUME NEW t \in Threads, Kill(t)
      PROVE  StackSound'
  <2>1. ~broken
    BY <1>4 DEF Kill, KillMark, KillLink, KillCas, KillCasFail
  <2> QED
    BY <1>4, <2>1, MarkStack, LinkStack, PushStack, PushFailStack DEF Kill
<1> QED
  BY <1>1, <1>2, <1>3, <1>4 DEF Next

----------------------------------------------------------------------------
\* What carries the results below: ids below the count, tags that only grow, and
\* until a stale pop succeeds a stack without cycles and without ids in use.
THEOREM PoolInvariant == Spec => []PoolInv
<1>1. Init => PoolInv
  BY InitShape, InitStack DEF PoolInv, Shape
<1>2. PoolInv /\ [Next]_vars => PoolInv'
  <2> SUFFICES ASSUME PoolInv, [Next]_vars PROVE PoolInv'
    OBVIOUS
  <2>1. Shape'
    BY ShapeStep DEF PoolInv, Shape
  <2>2. (~broken => StackSound)'
    BY StackStep DEF PoolInv, Shape
  <2> QED
    BY <2>1, <2>2 DEF PoolInv, Shape
<1> QED
  BY <1>1, <1>2, PTL DEF Spec

\* Of every number of threads that spawn and kill in whatever order: the count
\* covers the nodes in use and exceeds the arena only by calls about to give one
\* back, and unless a pop spanned an empty stack no node has two owners and none
\* that was killed is lost.
THEOREM EveryNodeAccounted == Spec => []NodesAccounted
<1>1. PoolInv => NodesAccounted
  BY DEF PoolInv, StackSound, KilledBack, NodesAccounted, OneOwnerUnlessReset,
         KilledNodesReturn
<1> QED
  BY <1>1, PoolInvariant, PTL

\* A pop with a head word no older than the last empty stack knows what is under
\* the top it takes off: as long as the tag has not come round, no other pop or
\* push goes unnoticed.
THEOREM TopsAreTaken == Spec => PopsTakeTheTop
<1>1. PoolInv /\ [Next]_vars =>
        [\A t \in Threads : SpawnCas(t) /\ ~stale[t] /\ ~broken =>
            arg[t] = free_next[head[t].id]]_vars
  BY DEF PoolInv, StackSound, HeadsFresh, SpawnCas
<1> QED
  BY <1>1, PoolInvariant, PTL DEF Spec, PopsTakeTheTop

----------------------------------------------------------------------------
(***************************************************************************)
(* The invariant of EdgeTable                                               *)
(***************************************************************************)
\* e and c are what the slots and the count are when the stores under way have
\* reached memory.
Pending(e, c) ==
    \/ out = <<>> /\ e = edges /\ c = edge_count
    \/ out = <<SetCount(c)>> /\ e = edges
    \/ \E s \in Slots, new \in Slot :
        /\ new.target \in Targets
        /\ e = [edges EXCEPT ![s] = new]
        /\ \/ out = Copy(s, new) /\ c = edge_count
           \/ out = Copy(s, new) \o <<SetCount(c)>>
           \/ /\ edges[s].target = new.target
              /\ \/ out = <<SetWeight(s, new)>> /\ c = edge_count
                 \/ out = <<SetWeight(s, new), SetCount(c)>>

\* No edge twice; heaviest first; the same slots; f is what the slots in S hold.
Distinct(e, S) == \A s, r \in S : e[s].target = e[r].target => s = r
Sorted(e, S) == \A s, r \in S : s < r => e[s].weight >= e[r].weight
Alike(g, e, S) == \A r \in S : g[r] = e[r]
IsMapOf(f, e, S) ==
    /\ f = [t \in {e[s].target : s \in S} |-> f[t]]
    /\ \A s \in S : f[e[s].target] = e[s].weight

RealEdge == {x \in Slot : x.target \in Targets /\ x.of = x.target}

\* What the operation o may make of the map m
Outcome(o, m, f) ==
    \/ f = m
    \/ /\ o.kind = "add" /\ o.target \in DOMAIN m
       /\ f = Map!Put(m, o.target, Capped(m[o.target] + o.weight \div 2))
    \/ /\ o.kind = "add" /\ o.target \notin DOMAIN m
       /\ Cardinality(DOMAIN m) < MaxFanout /\ f = Map!Put(m, o.target, o.weight)
    \/ /\ o.kind = "add" /\ o.target \notin DOMAIN m /\ Cardinality(DOMAIN m) = MaxFanout
       /\ \E v \in DOMAIN m : /\ m[v] < o.weight
                              /\ f = Map!Put(Restrict(m, DOMAIN m \ {v}), o.target, o.weight)
    \/ /\ o.kind = "stdp" /\ o.target \in DOMAIN m /\ m[o.target] \in 0 .. MaxWeight
       /\ f = Map!Put(m, o.target, Clamped(m[o.target] + o.weight))
    \/ o.kind = "prune" /\ f = Restrict(m, {t \in DOMAIN m : m[t] >= EdgePrune})

\* The table with the key where the gap is; in prune(), the slots that count
Filled(e) == [e EXCEPT ![gap + 1] = key]
Live == (1 .. gap) \union (walk .. ec)
Strong(m, e) == {t \in DOMAIN m : m[t] >= EdgePrune \/ \E s \in walk .. ec : e[s].target = t}

IsOp ==
    \/ op.kind = "add" /\ op.target \in Targets /\ op.weight \in Strengths
    \/ op.kind = "stdp" /\ op.target \in Targets /\ op.weight \in {-1, 1}
    \/ op.kind = "prune"

InFree(e, c) ==
    /\ out = <<>> /\ Distinct(e, 1 .. c) /\ (~jumbled => Sorted(e, 1 .. c))
InFirst(e, c) ==
    /\ out = <<>> /\ op.kind = stage /\ ec = c /\ walk = 1 /\ gap = 0
    /\ Distinct(e, 1 .. c) /\ (~jumbled => Sorted(e, 1 .. c)) /\ IsMapOf(before, e, 1 .. c)
InPrune(e, c) ==
    /\ op.kind = "prune" /\ ec = c /\ walk \in 1 .. ec + 1 /\ gap \in 0 .. walk - 1
    /\ Distinct(e, Live) /\ (~jumbled => Sorted(e, Live))
    /\ \A s \in 1 .. gap : e[s].weight >= EdgePrune
    /\ IsMapOf(Restrict(before, Strong(before, e)), e, Live)
InSort(e, c) ==
    /\ op.kind = "add" /\ ec = c /\ walk \in 1 .. ec
    /\ Distinct(e, 1 .. ec) /\ Sorted(e, 1 .. walk)
    /\ \E f : Outcome(op, before, f) /\ IsMapOf(f, e, 1 .. ec)
InShift(e, c) ==
    /\ op.kind = "add" /\ ec = c /\ walk \in 1 .. ec /\ gap \in 0 .. walk - 1
    /\ key \in RealEdge
    /\ Distinct(Filled(e), 1 .. ec)
    /\ Sorted(e, (1 .. walk) \ {gap + 1})
    /\ \A s \in gap + 2 .. walk : e[s].weight < key.weight
    /\ \E f : Outcome(op, before, f) /\ IsMapOf(f, Filled(e), 1 .. ec)
InUnlock(e, c) ==
    /\ Distinct(e, 1 .. c) /\ (~jumbled => Sorted(e, 1 .. c))
    /\ \E f : Outcome(op, before, f) /\ IsMapOf(f, e, 1 .. c)

Sound(e, c) ==
    /\ \A s \in 1 .. c : e[s] \in RealEdge
    /\ stage # "free" => IsOp
    /\ stage = "free" => InFree(e, c)
    /\ stage \in {"add", "stdp"} => InFirst(e, c)
    /\ stage = "prune" => InPrune(e, c)
    /\ stage = "sort" => InSort(e, c)
    /\ stage = "shift" => InShift(e, c)
    /\ stage = "unlock" => InUnlock(e, c)

HolderInv == \E e \in [Slots -> Slot], c \in 0 .. MaxFanout : Pending(e, c) /\ Sound(e, c)

\* The reader: what it has read of the count, or still finds there, was written.
ReaderInv ==
    /\ \A s \in 1 .. edge_count : edges[s].target \in Targets
    /\ \A s \in 1 .. limit : edges[s].target \in Targets
    /\ rpc # "count" => slot \in 1 .. limit
    /\ ReadsWrittenSlots

TableInv == TableTypeOK /\ HolderInv /\ ReaderInv

----------------------------------------------------------------------------
(***************************************************************************)
(* Slots, stores and maps                                                   *)
(***************************************************************************)
LEMMA TableConstants ==
    /\ MaxFanout \in Nat /\ MaxFanout >= 1 /\ FanoutCap \in Nat /\ FanoutCap >= 1
    /\ MaxWeight \in Nat /\ EdgePrune \in Nat /\ MaxChanges \in Nat
    /\ \A w \in Strengths : w \in 0 .. MaxWeight
    /\ Unwritten \notin Targets
BY TableAssumption

LEMMA Triple ==
    ASSUME NEW a, NEW b, NEW c
    PROVE  /\ <<a, b>> \o <<c>> = <<a, b, c>>
           /\ Head(<<a, b, c>>) = a /\ Tail(<<a, b, c>>) = <<b, c>> /\ Len(<<a, b, c>>) = 3
<1> DEFINE S == {a, b, c}
           left == <<a, b>> \o <<c>>
           right == <<a, b, c>>
<1>1. left \in Seq(S) /\ Len(left) = 3 /\ left[1] = a /\ left[2] = b /\ left[3] = c
  <2>1. <<a, b>> \in Seq(S) /\ <<c>> \in Seq(S)
    OBVIOUS
  <2> QED
    BY <2>1
<1>2. right \in Seq(S) /\ Len(right) = 3 /\ right[1] = a /\ right[2] = b /\ right[3] = c
  OBVIOUS
<1>3. Head(right) = a /\ Tail(right) = <<b, c>>
  OBVIOUS
<1> HIDE DEF S, left, right
<1>4. \A s \in 1 .. 3 : left[s] = right[s]
  BY <1>1, <1>2
<1>5. left = right
  BY <1>1, <1>2, <1>4, SeqEqual
<1> QED
  BY <1>2, <1>3, <1>5 DEF left, right

\* What a store does when it reaches memory.
LEMMA TargetStored ==
    ASSUME Store, NEW s \in Slots, NEW new, Head(out) = SetTarget(s, new),
           edges \in [Slots -> Slot]
    PROVE  /\ edge_count' = edge_count
           /\ edges' = [edges EXCEPT ![s] = [target |-> new.target, weight |-> edges[s].weight,
                                             of |-> edges[s].of]]
<1> DEFINE st == Head(out)
<1>1. st = [slot |-> s, target |-> new.target]
  BY DEF SetTarget
<1>2. "slot" \in DOMAIN st /\ "target" \in DOMAIN st /\ "count" \notin DOMAIN st
      /\ st.slot = s /\ st.target = new.target
  BY <1>1
<1>3. /\ edges' = IF "slot" \notin DOMAIN st THEN edges
                  ELSE IF "target" \in DOMAIN st
                  THEN [edges EXCEPT ![st.slot].target = st.target]
                  ELSE [edges EXCEPT ![st.slot].weight = st.weight, ![st.slot].of = st.of]
      /\ edge_count' = IF "count" \in DOMAIN st THEN st.count ELSE edge_count
  BY DEF Store
<1> HIDE DEF st
<1>4. edges' = [edges EXCEPT ![s].target = new.target]
  BY <1>2, <1>3
<1>5. edges[s] \in Slot
  OBVIOUS
<1>6. [edges[s] EXCEPT !.target = new.target] =
          [target |-> new.target, weight |-> edges[s].weight, of |-> edges[s].of]
  BY <1>5 DEF Slot
<1> QED
  BY <1>2, <1>3, <1>4, <1>6

LEMMA WeightStored ==
    ASSUME Store, NEW s \in Slots, NEW new, Head(out) = SetWeight(s, new),
           edges \in [Slots -> Slot]
    PROVE  /\ edge_count' = edge_count
           /\ edges' = [edges EXCEPT ![s] = [target |-> edges[s].target, weight |-> new.weight,
                                             of |-> new.of]]
<1> DEFINE st == Head(out)
<1>1. st = [slot |-> s, weight |-> new.weight, of |-> new.of]
  BY DEF SetWeight
<1>2. "slot" \in DOMAIN st /\ "target" \notin DOMAIN st /\ "count" \notin DOMAIN st
      /\ st.slot = s /\ st.weight = new.weight /\ st.of = new.of
  BY <1>1
<1>3. /\ edges' = IF "slot" \notin DOMAIN st THEN edges
                  ELSE IF "target" \in DOMAIN st
                  THEN [edges EXCEPT ![st.slot].target = st.target]
                  ELSE [edges EXCEPT ![st.slot].weight = st.weight, ![st.slot].of = st.of]
      /\ edge_count' = IF "count" \in DOMAIN st THEN st.count ELSE edge_count
  BY DEF Store
<1> HIDE DEF st
<1>4. edges' = [edges EXCEPT ![s].weight = new.weight, ![s].of = new.of]
  BY <1>2, <1>3
<1>5. edges[s] \in Slot
  OBVIOUS
<1> DEFINE x == [edges[s] EXCEPT !.weight = new.weight]
<1>6. x = [target |-> edges[s].target, weight |-> new.weight, of |-> edges[s].of]
  BY <1>5 DEF Slot
<1> DEFINE half == [edges EXCEPT ![s] = x]
<1>7. edges' = [half EXCEPT ![s] = [x EXCEPT !.of = new.of]]
  BY <1>4
<1> HIDE DEF x
<1>8. [x EXCEPT !.of = new.of] = [target |-> edges[s].target, weight |-> new.weight, of |-> new.of]
  BY <1>6
<1> QED
  BY <1>2, <1>3, <1>7, <1>8

LEMMA CountStored ==
    ASSUME Store, NEW c, Head(out) = SetCount(c)
    PROVE  edges' = edges /\ edge_count' = c
<1> DEFINE st == Head(out)
<1>1. st = [count |-> c]
  BY DEF SetCount
<1>2. "slot" \notin DOMAIN st /\ "count" \in DOMAIN st /\ st.count = c
  BY <1>1
<1> HIDE DEF st
<1>3. /\ edges' = IF "slot" \notin DOMAIN st THEN edges
                  ELSE IF "target" \in DOMAIN st
                  THEN [edges EXCEPT ![st.slot].target = st.target]
                  ELSE [edges EXCEPT ![st.slot].weight = st.weight, ![st.slot].of = st.of]
      /\ edge_count' = IF "count" \in DOMAIN st THEN st.count ELSE edge_count
  BY DEF Store, st
<1> QED
  BY <1>2, <1>3

\* The contents of slots are one map, and it does not depend on their order.
LEMMA OneMap ==
    ASSUME NEW e, NEW S, NEW f, IsMapOf(f, e, S), NEW g, IsMapOf(g, e, S)
    PROVE  f = g
<1>1. \A t \in {e[s].target : s \in S} : f[t] = g[t]
  BY DEF IsMapOf
<1> QED
  BY <1>1 DEF IsMapOf

LEMMA ContentsAreMap ==
    ASSUME NEW e, NEW S, Distinct(e, S)
    PROVE  IsMapOf([t \in {e[s].target : s \in S} |->
                        e[CHOOSE s \in S : e[s].target = t].weight], e, S)
<1> DEFINE f == [t \in {e[s].target : s \in S} |-> e[CHOOSE s \in S : e[s].target = t].weight]
<1>1. ASSUME NEW s \in S PROVE f[e[s].target] = e[s].weight
  <2>1. (CHOOSE r \in S : e[r].target = e[s].target) = s
    BY DEF Distinct
  <2> QED
    BY <2>1
<1> QED
  BY <1>1 DEF IsMapOf

\* Swapping two slots changes neither.
LEMMA Swapped ==
    ASSUME NEW e, NEW S, NEW a \in S, NEW b \in S, NEW g,
           g[a] = e[b], g[b] = e[a], Alike(g, e, S \ {a, b}),
           Distinct(e, S), NEW f, IsMapOf(f, e, S)
    PROVE  Distinct(g, S) /\ IsMapOf(f, g, S)
<1> DEFINE p(s) == IF s = a THEN b ELSE IF s = b THEN a ELSE s
<1>1. \A s \in S : p(s) \in S /\ g[s] = e[p(s)] /\ e[s] = g[p(s)] /\ p(p(s)) = s
  BY DEF Alike
<1> HIDE DEF p
<1>2. {g[s].target : s \in S} = {e[s].target : s \in S}
  BY <1>1
<1>3. ASSUME NEW s \in S PROVE f[g[s].target] = g[s].weight
  <2>1. p(s) \in S /\ g[s] = e[p(s)]
    BY <1>1
  <2>2. f[e[p(s)].target] = e[p(s)].weight
    BY <2>1 DEF IsMapOf
  <2> QED
    BY <2>1, <2>2
<1>4. Distinct(g, S)
  BY <1>1 DEF Distinct
<1> QED
  BY <1>2, <1>3, <1>4 DEF IsMapOf

----------------------------------------------------------------------------
(***************************************************************************)
(* The lock and the stores                                                  *)
(***************************************************************************)
LEMMA SoundStays ==
    ASSUME NEW e, NEW c, Sound(e, c),
           UNCHANGED <<stage, op, ec, walk, gap, key, before, jumbled>>,
           out' = out \/ stage \notin {"free", "add", "stdp"}
    PROVE  Sound(e, c)'
<1>1. IsOp' = IsOp
  BY DEF IsOp
<1>2. Live' = Live /\ Filled(e)' = Filled(e) /\ Strong(before, e)' = Strong(before, e)
  BY DEF Live, Filled, Strong
<1>3. InFree(e, c) /\ out' = out => InFree(e, c)'
  BY DEF InFree
<1>4. InFirst(e, c) /\ out' = out => InFirst(e, c)'
  BY DEF InFirst
<1>5. InPrune(e, c) => InPrune(e, c)'
  BY <1>2 DEF InPrune
<1>6. InSort(e, c) => InSort(e, c)'
  BY DEF InSort
<1>7. InShift(e, c) => InShift(e, c)'
  BY <1>2 DEF InShift
<1>8. InUnlock(e, c) => InUnlock(e, c)'
  BY DEF InUnlock
<1> QED
  BY <1>1, <1>3, <1>4, <1>5, <1>6, <1>7, <1>8 DEF Sound

LEMMA StoreSettles ==
    ASSUME NEW e \in [Slots -> Slot], NEW c \in 0 .. MaxFanout, Pending(e, c), Store,
           edges \in [Slots -> Slot], edge_count \in 0 .. MaxFanout
    PROVE  /\ Pending(e, c)' /\ edges' \in [Slots -> Slot] /\ Len(out') <= 3
           /\ \/ edge_count' = edge_count
              \/ edge_count' = c /\ edges' = e
           /\ \A r \in Slots : edges[r].target \in Targets => edges'[r].target \in Targets
<1>1. out # <<>> /\ out' = Tail(out)
  BY DEF Store
<1>2. CASE out = <<SetCount(c)>> /\ e = edges
  <2>1. Head(out) = SetCount(c) /\ out' = <<>> /\ Len(out') <= 3
    BY <1>1, <1>2
  <2>2. edges' = e /\ edge_count' = c
    BY <1>2, <2>1, CountStored
  <2> QED
    BY <1>2, <2>1, <2>2 DEF Pending
<1>3. ASSUME NEW s \in Slots, NEW new \in Slot, new.target \in Targets,
             e = [edges EXCEPT ![s] = new],
             \/ out = Copy(s, new) /\ c = edge_count
             \/ out = Copy(s, new) \o <<SetCount(c)>>
      PROVE  /\ Pending(e, c)' /\ edges' \in [Slots -> Slot] /\ Len(out') <= 3
             /\ edge_count' = edge_count
             /\ \A r \in Slots : edges[r].target \in Targets => edges'[r].target \in Targets
  <2>1. /\ Head(out) = SetTarget(s, new) /\ Len(out') <= 3
        /\ \/ out' = <<SetWeight(s, new)>> /\ c = edge_count
           \/ out' = <<SetWeight(s, new), SetCount(c)>>
    <3>1. CASE out = <<SetTarget(s, new), SetWeight(s, new)>> /\ c = edge_count
      <4>1. Head(out) = SetTarget(s, new) /\ out' = <<SetWeight(s, new)>>
        BY <1>1, <3>1
      <4> QED
        BY <3>1, <4>1
    <3>2. CASE out = <<SetTarget(s, new), SetWeight(s, new), SetCount(c)>>
      <4>1. Head(out) = SetTarget(s, new) /\ out' = <<SetWeight(s, new), SetCount(c)>>
        BY <1>1, <3>2, Triple
      <4> QED
        BY <4>1
    <3> QED
      BY <1>3, <3>1, <3>2, Triple DEF Copy
  <2> DEFINE x == [target |-> new.target, weight |-> edges[s].weight, of |-> edges[s].of]
  <2>2. x \in Slot /\ x.target = new.target
    BY DEF Slot
  <2>3. edge_count' = edge_count /\ edges' = [edges EXCEPT ![s] = x]
    BY <2>1, TargetStored
  <2> HIDE DEF x
  <2>4. edges' \in [Slots -> Slot] /\ e = [edges' EXCEPT ![s] = new] /\ edges'[s] = x
    BY <1>3, <2>2, <2>3
  <2>5. \A r \in Slots : edges[r].target \in Targets => edges'[r].target \in Targets
    BY <1>3, <2>2, <2>3
  <2>6. Pending(e, c)'
    BY <1>3, <2>1, <2>2, <2>3, <2>4 DEF Pending
  <2> QED
    BY <2>1, <2>3, <2>4, <2>5, <2>6
<1>4. ASSUME NEW s \in Slots, NEW new \in Slot, new.target \in Targets,
             e = [edges EXCEPT ![s] = new], edges[s].target = new.target,
             \/ out = <<SetWeight(s, new)>> /\ c = edge_count
             \/ out = <<SetWeight(s, new), SetCount(c)>>
      PROVE  /\ Pending(e, c)' /\ edges' \in [Slots -> Slot] /\ Len(out') <= 3
             /\ edge_count' = edge_count
             /\ \A r \in Slots : edges[r].target \in Targets => edges'[r].target \in Targets
  <2>1. /\ Head(out) = SetWeight(s, new) /\ Len(out') <= 3
        /\ \/ out' = <<>> /\ c = edge_count
           \/ out' = <<SetCount(c)>>
    <3>1. CASE out = <<SetWeight(s, new)>> /\ c = edge_count
      <4>1. Head(out) = SetWeight(s, new) /\ out' = <<>>
        BY <1>1, <3>1
      <4> QED
        BY <3>1, <4>1
    <3>2. CASE out = <<SetWeight(s, new), SetCount(c)>>
      <4>1. Head(out) = SetWeight(s, new) /\ out' = <<SetCount(c)>>
        BY <1>1, <3>2
      <4> QED
        BY <4>1
    <3> QED
      BY <1>4, <3>1, <3>2
  <2>2. new = [target |-> edges[s].target, weight |-> new.weight, of |-> new.of]
    BY <1>4 DEF Slot
  <2>3. edge_count' = edge_count /\ edges' = [edges EXCEPT ![s] = new]
    BY <2>1, <2>2, WeightStored
  <2>4. edges' = e
    BY <1>4, <2>3
  <2>5. \A r \in Slots : edges[r].target \in Targets => edges'[r].target \in Targets
    BY <1>4, <2>3
  <2>6. Pending(e, c)'
    BY <2>1, <2>3, <2>4 DEF Pending
  <2> QED
    BY <2>1, <2>3, <2>4, <2>5, <2>6
<1> QED
  BY <1>1, <1>2, <1>3, <1>4 DEF Pending

LEMMA StoreStep ==
    ASSUME TableInv, Store
    PROVE  TableInv'
<1>1. PICK e \in [Slots -> Slot], c \in 0 .. MaxFanout : Pending(e, c) /\ Sound(e, c)
  BY DEF TableInv, HolderInv
<1>2. /\ edges \in [Slots -> Slot] /\ edge_count \in 0 .. MaxFanout
      /\ limit \in 0 .. MaxFanout
  BY DEF TableInv, TableTypeOK
<1>3. /\ out # <<>>
      /\ UNCHANGED <<stage, op, ec, walk, gap, key, rpc, slot, limit, got, changes,
                     before, jumbled>>
  BY DEF Store, reader
<1>4. /\ Pending(e, c)' /\ edges' \in [Slots -> Slot] /\ Len(out') <= 3
      /\ \/ edge_count' = edge_count
         \/ edge_count' = c /\ edges' = e
      /\ \A r \in Slots : edges[r].target \in Targets => edges'[r].target \in Targets
  BY <1>1, <1>2, StoreSettles
<1>5. stage \notin {"free", "add", "stdp"}
  BY <1>1, <1>3 DEF Sound, InFree, InFirst
<1>6. Sound(e, c)'
  BY <1>1, <1>3, <1>5, SoundStays
<1>7. HolderInv'
  BY <1>1, <1>4, <1>6 DEF HolderInv
<1>8. TableTypeOK'
  BY <1>1, <1>2, <1>3, <1>4 DEF TableInv, TableTypeOK
<1>9. \A s \in 1 .. edge_count' : edges'[s].target \in Targets
  <2>1. CASE edge_count' = edge_count
    <3>1. \A s \in 1 .. edge_count : s \in Slots /\ edges[s].target \in Targets
      BY <1>2, TableConstants DEF TableInv, ReaderInv, Slots
    <3> QED
      BY <1>4, <2>1, <3>1
  <2>2. CASE edge_count' = c /\ edges' = e
    BY <1>1, <2>2 DEF Sound, RealEdge
  <2> QED
    BY <1>4, <2>1, <2>2
<1>10. \A s \in 1 .. limit : edges'[s].target \in Targets
  <2>1. \A s \in 1 .. limit : s \in Slots /\ edges[s].target \in Targets
    BY <1>2, TableConstants DEF TableInv, ReaderInv, Slots
  <2> QED
    BY <1>4, <2>1
<1>11. ReaderInv'
  BY <1>3, <1>9, <1>10 DEF TableInv, ReaderInv, ReadsWrittenSlots
<1> QED
  BY <1>7, <1>8, <1>11 DEF TableInv

LEMMA Settled ==
    ASSUME HolderInv, out = <<>>
    PROVE  Sound(edges, edge_count)
<1>1. PICK e \in [Slots -> Slot], c \in 0 .. MaxFanout : Pending(e, c) /\ Sound(e, c)
  BY DEF HolderInv
<1>2. ASSUME NEW s, NEW new, NEW d
      PROVE  /\ <<SetCount(d)>> # <<>> /\ Copy(s, new) # <<>> /\ Copy(s, new) \o <<SetCount(d)>> # <<>>
             /\ <<SetWeight(s, new)>> # <<>> /\ <<SetWeight(s, new), SetCount(d)>> # <<>>
  <2>1. Copy(s, new) \o <<SetCount(d)>> # <<>>
    BY Triple DEF Copy
  <2> QED
    BY <2>1 DEF Copy
<1>3. e = edges /\ c = edge_count
  BY <1>1, <1>2 DEF Pending
<1> QED
  BY <1>1, <1>3

\* What is handed over by a step that writes no slot will make of the table.
LEMMA Handed ==
    ASSUME edges' = edges, edge_count' = edge_count
    PROVE  /\ out' = <<>> => Pending(edges, edge_count)'
           /\ \A c : out' = <<SetCount(c)>> => Pending(edges, c)'
BY DEF Pending

\* The steps of the holder leave the reader's part alone.
LEMMA HolderMoves ==
    ASSUME TableInv, edges' = edges, edge_count' = edge_count,
           UNCHANGED <<reader, changes>>,
           stage' \in {"free", "add", "sort", "shift", "stdp", "prune", "unlock"},
           Len(out') <= 3, ec' \in 0 .. MaxFanout, walk' \in 0 .. MaxFanout + 1,
           gap' \in 0 .. MaxFanout, key' \in Slot, jumbled' \in BOOLEAN,
           NEW e \in [Slots -> Slot], NEW c \in 0 .. MaxFanout, Pending(e, c)', Sound(e, c)'
    PROVE  TableInv'
<1>1. ReaderInv'
  BY DEF TableInv, ReaderInv, ReadsWrittenSlots, reader
<1>2. HolderInv'
  BY DEF HolderInv
<1>3. TableTypeOK'
  BY DEF TableInv, TableTypeOK, reader
<1> QED
  BY <1>1, <1>2, <1>3 DEF TableInv

LEMMA TypesOf ==
    ASSUME TableInv
    PROVE  /\ edges \in [Slots -> Slot] /\ edge_count \in 0 .. MaxFanout
           /\ ec \in 0 .. MaxFanout /\ walk \in 0 .. MaxFanout + 1 /\ gap \in 0 .. MaxFanout
           /\ key \in Slot /\ changes \in 0 .. MaxChanges /\ jumbled \in BOOLEAN
           /\ MaxFanout \in Nat /\ MaxWeight \in Nat /\ EdgePrune \in Nat
           /\ Slots = 1 .. MaxFanout /\ HolderInv
BY TableConstants DEF TableInv, TableTypeOK, Slots

LEMMA LockStep ==
    ASSUME TableInv, NEW o, Lock(o), IsOp', o.kind \in {"add", "stdp", "prune"}
    PROVE  TableInv'
<1>1. /\ stage = "free" /\ stage' = o.kind /\ op' = o /\ ec' = edge_count /\ walk' = 1 /\ gap' = 0
      /\ before' = Contents /\ edges' = edges /\ edge_count' = edge_count /\ out' = out
      /\ key' = key /\ jumbled' = jumbled /\ reader' = reader
      /\ changes < MaxChanges /\ changes' = changes + 1
  BY DEF Lock
<1>2. HolderInv /\ edges \in [Slots -> Slot] /\ edge_count \in 0 .. MaxFanout
  BY TypesOf
<1>3. out = <<>>
  BY <1>1, <1>2 DEF HolderInv, Sound, InFree
<1>4. Sound(edges, edge_count)
  BY <1>2, <1>3, Settled
<1>5. /\ Distinct(edges, 1 .. edge_count) /\ (~jumbled => Sorted(edges, 1 .. edge_count))
      /\ \A s \in 1 .. edge_count : edges[s] \in RealEdge
  BY <1>1, <1>4 DEF Sound, InFree
<1>6. IsMapOf(before', edges, 1 .. edge_count)
  BY <1>1, <1>5, ContentsAreMap DEF Contents
<1>7. DOMAIN before' = {edges[s].target : s \in 1 .. edge_count}
  BY <1>6 DEF IsMapOf
<1> DEFINE m == before'
<1>8. ASSUME stage' = "prune" PROVE InPrune(edges, edge_count)'
  <2>1. Live' = 1 .. edge_count
    BY <1>1, <1>2 DEF Live
  <2>2. Strong(before, edges)' = DOMAIN m
    BY <1>1, <1>7 DEF Strong
  <2>3. Restrict(m, DOMAIN m) = m
    BY <1>6 DEF IsMapOf, Restrict
  <2>4. IsMapOf(Restrict(before, Strong(before, edges)), edges, Live)'
    BY <1>1, <1>6, <2>1, <2>2, <2>3
  <2>5. op'.kind = "prune" /\ walk' \in 1 .. ec' + 1 /\ gap' \in 0 .. walk' - 1
    BY <1>1, <1>2, <1>8
  <2> QED
    BY <1>1, <1>5, <2>1, <2>4, <2>5 DEF InPrune
<1>9. InFirst(edges, edge_count)'
  BY <1>1, <1>3, <1>5, <1>6 DEF InFirst
<1>10. Sound(edges, edge_count)'
  BY <1>1, <1>5, <1>8, <1>9 DEF Sound
<1>11. Pending(edges, edge_count)'
  BY <1>1, <1>3, Handed
<1>12. HolderInv'
  BY <1>1, <1>2, <1>10, <1>11 DEF HolderInv
<1>13. TableTypeOK'
  BY <1>1, <1>3, TableConstants DEF TableInv, TableTypeOK, reader
<1>14. ReaderInv'
  BY <1>1 DEF TableInv, ReaderInv, ReadsWrittenSlots, reader
<1> QED
  BY <1>12, <1>13, <1>14 DEF TableInv

LEMMA UnlockStep ==
    ASSUME TableInv, Unlock
    PROVE  TableInv'
<1>1. /\ stage = "unlock" /\ out = <<>> /\ stage' = "free" /\ out' = <<>>
      /\ ec' = 0 /\ walk' = 0 /\ gap' = 0 /\ key' = Blank
      /\ edges' = edges /\ edge_count' = edge_count /\ UNCHANGED <<reader, changes>>
      /\ jumbled' = jumbled
  BY DEF Unlock
<1>2. /\ Sound(edges, edge_count) /\ edges \in [Slots -> Slot] /\ edge_count \in 0 .. MaxFanout
      /\ MaxFanout \in Nat /\ MaxWeight \in Nat /\ jumbled \in BOOLEAN
  BY <1>1, TypesOf, Settled
<1>3. Sound(edges, edge_count)'
  BY <1>1, <1>2 DEF Sound, InFree, InUnlock
<1>4. Pending(edges, edge_count)'
  BY <1>1, Handed
<1>5. key' \in Slot
  BY <1>1, <1>2 DEF Blank, Slot
<1>6. Len(out') <= 3
  BY <1>1
<1> QED
  BY <1>1, <1>2, <1>3, <1>4, <1>5, <1>6, HolderMoves

----------------------------------------------------------------------------
(***************************************************************************)
(* add_edge(): what it makes of the map                                     *)
(***************************************************************************)
\* A slot whose target stays changes one weight of the map.
LEMMA Reweighed ==
    ASSUME NEW e, NEW S, Distinct(e, S), NEW f, IsMapOf(f, e, S), NEW s \in S, NEW g,
           g[s].target = e[s].target, \A r \in S \ {s} : g[r] = e[r]
    PROVE  Distinct(g, S) /\ IsMapOf(Map!Put(f, e[s].target, g[s].weight), g, S)
<1> DEFINE t == e[s].target
           h == Map!Put(f, t, g[s].weight)
<1>1. \A r \in S : g[r].target = e[r].target
  OBVIOUS
<1>2. {g[r].target : r \in S} = {e[r].target : r \in S}
  BY <1>1
<1>3. DOMAIN f = {e[r].target : r \in S}
  BY DEF IsMapOf
<1>4. h = [x \in {g[r].target : r \in S} |-> IF x = t THEN g[s].weight ELSE f[x]]
  BY <1>2, <1>3 DEF Map!Put
<1> HIDE DEF h
<1>5. ASSUME NEW r \in S PROVE h[g[r].target] = g[r].weight
  <2>1. CASE r = s
    BY <1>1, <1>4, <2>1
  <2>2. CASE r # s
    <3>1. e[r].target # t /\ f[e[r].target] = e[r].weight /\ g[r] = e[r]
      BY <2>2 DEF Distinct, IsMapOf
    <3> QED
      BY <1>4, <3>1
  <2> QED
    BY <2>1, <2>2
<1>6. Distinct(g, S)
  BY <1>1 DEF Distinct
<1> QED
  BY <1>4, <1>5, <1>6 DEF IsMapOf, h

\* A slot more, with a target that no other has
LEMMA Joined ==
    ASSUME NEW e, NEW S, Distinct(e, S), NEW f, IsMapOf(f, e, S), NEW s, s \notin S, NEW g,
           Alike(g, e, S), g[s].target \notin DOMAIN f
    PROVE  /\ Distinct(g, S \union {s})
           /\ IsMapOf(Map!Put(f, g[s].target, g[s].weight), g, S \union {s})
<1> DEFINE t == g[s].target
           h == Map!Put(f, t, g[s].weight)
           R == S \union {s}
<1>1. \A r \in S : g[r] = e[r] /\ e[r].target # t
  BY DEF Alike, IsMapOf
<1>2. {g[r].target : r \in R} = {e[r].target : r \in S} \union {t}
  BY <1>1
<1>3. DOMAIN f = {e[r].target : r \in S}
  BY DEF IsMapOf
<1>4. h = [x \in {g[r].target : r \in R} |-> IF x = t THEN g[s].weight ELSE f[x]]
  BY <1>2, <1>3 DEF Map!Put
<1> HIDE DEF h
<1>5. ASSUME NEW r \in R PROVE h[g[r].target] = g[r].weight
  <2>1. CASE r = s
    BY <1>4, <2>1
  <2>2. CASE r \in S
    <3>1. e[r].target # t /\ f[e[r].target] = e[r].weight /\ g[r] = e[r]
      BY <1>1, <2>2 DEF IsMapOf
    <3> QED
      BY <1>4, <3>1
  <2> QED
    BY <2>1, <2>2
<1>6. Distinct(g, R)
  BY <1>1 DEF Distinct
<1> QED
  BY <1>4, <1>5, <1>6 DEF IsMapOf, h

\* A slot less
LEMMA Left ==
    ASSUME NEW e, NEW S, Distinct(e, S), NEW f, IsMapOf(f, e, S), NEW s \in S
    PROVE  /\ Distinct(e, S \ {s})
           /\ IsMapOf(Restrict(f, DOMAIN f \ {e[s].target}), e, S \ {s})
<1> DEFINE R == S \ {s}
           h == Restrict(f, DOMAIN f \ {e[s].target})
<1>1. DOMAIN f = {e[r].target : r \in S}
  BY DEF IsMapOf
<1>2. {e[r].target : r \in R} = DOMAIN f \ {e[s].target}
  BY <1>1 DEF Distinct
<1>3. h = [x \in {e[r].target : r \in R} |-> f[x]]
  BY <1>2 DEF Restrict
<1>4. \A r \in R : h[e[r].target] = e[r].weight
  BY <1>3 DEF IsMapOf
<1>5. Distinct(e, R)
  BY DEF Distinct
<1> QED
  BY <1>3, <1>4, <1>5 DEF IsMapOf

\* The map has as many targets as there are slots.
LEMMA AsMany ==
    ASSUME NEW e, NEW c \in Nat, Distinct(e, 1 .. c), NEW f, IsMapOf(f, e, 1 .. c)
    PROVE  Cardinality(DOMAIN f) = c
<1> DEFINE S == 1 .. c
           D == DOMAIN f
           b == [s \in S |-> e[s].target]
<1>1. D = {e[s].target : s \in S}
  BY DEF IsMapOf
<1>2. b \in Bijection(S, D)
  <2>1. b \in [S -> D]
    BY <1>1
  <2>2. \A s, r \in S : b[s] = b[r] => s = r
    BY DEF Distinct
  <2>3. \A t \in D : \E s \in S : b[s] = t
    BY <1>1
  <2> QED
    BY <2>1, <2>2, <2>3 DEF Bijection, Injection, Surjection, IsInjective
<1>3. IsFiniteSet(S) /\ Cardinality(S) = c
  BY FS_Interval
<1> QED
  BY <1>2, <1>3, FS_Bijection DEF ExistsBijection

LEMMA AtFirst ==
    ASSUME TableInv, stage \in {"add", "stdp"}, out = <<>>
    PROVE  /\ Sound(edges, edge_count) /\ IsOp /\ op.kind = stage
           /\ ec = edge_count /\ walk = 1 /\ gap = 0 /\ ec \in 0 .. MaxFanout
           /\ Distinct(edges, 1 .. ec) /\ (~jumbled => Sorted(edges, 1 .. ec))
           /\ IsMapOf(before, edges, 1 .. ec)
           /\ DOMAIN before = {edges[s].target : s \in 1 .. ec}
           /\ \A s \in 1 .. ec : /\ edges[s] \in RealEdge /\ s \in Slots
                                 /\ edges[s].target \in DOMAIN before
                                 /\ before[edges[s].target] = edges[s].weight
<1>1. Sound(edges, edge_count) /\ ec \in 0 .. MaxFanout /\ Slots = 1 .. MaxFanout
  BY TypesOf, Settled
<1>2. InFirst(edges, edge_count) /\ IsOp /\ \A s \in 1 .. edge_count : edges[s] \in RealEdge
  BY <1>1 DEF Sound
<1>3. /\ op.kind = stage /\ ec = edge_count /\ walk = 1 /\ gap = 0
      /\ Distinct(edges, 1 .. ec) /\ (~jumbled => Sorted(edges, 1 .. ec))
      /\ IsMapOf(before, edges, 1 .. ec)
  BY <1>2 DEF InFirst
<1>4. DOMAIN before = {edges[s].target : s \in 1 .. ec}
  BY <1>3 DEF IsMapOf
<1>5. \A s \in 1 .. ec : /\ edges[s] \in RealEdge /\ s \in Slots
                         /\ edges[s].target \in DOMAIN before
                         /\ before[edges[s].target] = edges[s].weight
  <2>1. \A s \in 1 .. ec : edges[s] \in RealEdge /\ s \in Slots
    BY <1>1, <1>2, <1>3, TableConstants
  <2>2. \A s \in 1 .. ec : edges[s].target \in DOMAIN before
    BY <1>4
  <2>3. \A s \in 1 .. ec : before[edges[s].target] = edges[s].weight
    BY <1>3 DEF IsMapOf
  <2> QED
    BY <2>1, <2>2, <2>3
<1> QED
  BY <1>1, <1>2, <1>3, <1>4, <1>5

LEMMA AnEdge ==
    ASSUME NEW t \in Targets, NEW w \in 0 .. MaxWeight
    PROVE  /\ Edge(t, w) \in Slot /\ Edge(t, w) \in RealEdge
           /\ Edge(t, w).target = t /\ Edge(t, w).weight = w
BY DEF Edge, RealEdge, Slot

LEMMA CopyLen ==
    ASSUME NEW s, NEW new, NEW c
    PROVE  /\ Len(<<>>) <= 3 /\ Len(<<SetCount(c)>>) <= 3 /\ Len(<<SetWeight(s, new)>>) <= 3
           /\ Len(Copy(s, new)) <= 3 /\ Len(Copy(s, new) \o <<SetCount(c)>>) <= 3
<1>1. Len(Copy(s, new) \o <<SetCount(c)>>) = 3
  BY Triple DEF Copy
<1>2. Len(Copy(s, new)) = 2
  BY DEF Copy
<1> QED
  BY <1>1, <1>2

\* AddKnown and Stdp: a slot of the operation's target gets another weight.
LEMMA Known ==
    ASSUME TableInv, stage \in {"add", "stdp"}, out = <<>>, NEW s \in Found, NEW w \in 0 .. MaxWeight
    PROVE  LET new == Edge(op.target, w)
               e == [edges EXCEPT ![s] = new] IN
           /\ op.target \in Targets /\ s \in 1 .. ec /\ s \in Slots /\ new \in Slot
           /\ new.target = op.target
           /\ edges[s].target = op.target /\ e \in [Slots -> Slot]
           /\ \A r \in 1 .. ec : e[r] \in RealEdge
           /\ op.target \in DOMAIN before /\ before[op.target] = edges[s].weight
           /\ Distinct(e, 1 .. ec) /\ IsMapOf(Map!Put(before, op.target, w), e, 1 .. ec)
<1> DEFINE new == Edge(op.target, w)
           e == [edges EXCEPT ![s] = new]
<1>1. /\ s \in 1 .. ec /\ s \in Slots /\ edges[s].target = op.target /\ edges[s] \in RealEdge
      /\ op.target \in DOMAIN before /\ before[op.target] = edges[s].weight
  BY AtFirst DEF Found
<1>2. op.target \in Targets
  BY <1>1 DEF RealEdge
<1>3. new \in Slot /\ new \in RealEdge /\ new.target = op.target /\ new.weight = w
  BY <1>2, AnEdge
<1>4. edges \in [Slots -> Slot] /\ Slots = 1 .. MaxFanout /\ ec \in 0 .. MaxFanout
  BY TypesOf
<1> HIDE DEF new
<1>5. e \in [Slots -> Slot] /\ e[s] = new /\ \A r \in 1 .. ec \ {s} : e[r] = edges[r]
  BY <1>1, <1>3, <1>4
<1> HIDE DEF e
<1>6. Distinct(e, 1 .. ec) /\ IsMapOf(Map!Put(before, op.target, w), e, 1 .. ec)
  <2>1. Distinct(edges, 1 .. ec) /\ IsMapOf(before, edges, 1 .. ec)
    BY AtFirst
  <2>2. e[s].target = edges[s].target /\ e[s].weight = w
    BY <1>1, <1>3, <1>5
  <2> QED
    BY <1>1, <1>5, <2>1, <2>2, Reweighed
<1>7. \A r \in 1 .. ec : e[r] \in RealEdge
  BY <1>1, <1>3, <1>5, AtFirst
<1> QED
  BY <1>1, <1>2, <1>3, <1>5, <1>6, <1>7 DEF e, new

LEMMA AddKnownStep ==
    ASSUME TableInv, AddKnown
    PROVE  TableInv'
<1>1. /\ stage = "add" /\ out = <<>> /\ stage' = "sort"
      /\ edges' = edges /\ edge_count' = edge_count /\ op' = op /\ before' = before
      /\ UNCHANGED <<reader, changes, ec, walk, gap, key, jumbled>>
  BY DEF AddKnown, Continue
<1>2. PICK s \in Found :
           out' = <<SetWeight(s, Edge(op.target, Capped(edges[s].weight + op.weight \div 2)))>>
  BY DEF AddKnown, Continue
<1>3. PICK w : /\ out' = <<SetWeight(s, Edge(op.target, w))>>
               /\ w = Capped(edges[s].weight + op.weight \div 2)
  BY <1>2
<1>4. /\ Slots = 1 .. MaxFanout /\ edges \in [Slots -> Slot] /\ MaxWeight \in Nat
      /\ edge_count \in 0 .. MaxFanout /\ MaxFanout \in Nat
      /\ ec \in 0 .. MaxFanout /\ walk \in 0 .. MaxFanout + 1 /\ gap \in 0 .. MaxFanout
      /\ key \in Slot /\ jumbled \in BOOLEAN
  BY TypesOf
<1>5. /\ op.kind = "add" /\ ec = edge_count /\ walk = 1 /\ IsOp
      /\ s \in 1 .. ec /\ s \in Slots
  BY <1>1, AtFirst DEF Found
<1>6. w \in 0 .. MaxWeight
  <2>1. edges[s].weight \in Nat
    BY <1>4, <1>5 DEF Slot
  <2>2. op.weight \in Nat
    BY <1>5, TableConstants DEF IsOp
  <2>3. op.weight \div 2 \in Nat
    BY <2>2
  <2> QED
    BY <1>3, <1>4, <2>1, <2>3 DEF Capped
<1> PICK new, e, f : /\ new = Edge(op.target, w) /\ e = [edges EXCEPT ![s] = new]
                     /\ f = Map!Put(before, op.target, w)
  OBVIOUS
<1>7. /\ op.target \in Targets /\ new \in Slot /\ new.target = op.target
      /\ edges[s].target = op.target /\ e \in [Slots -> Slot]
      /\ \A r \in 1 .. ec : e[r] \in RealEdge
      /\ op.target \in DOMAIN before /\ before[op.target] = edges[s].weight
      /\ Distinct(e, 1 .. ec) /\ IsMapOf(f, e, 1 .. ec)
  BY <1>1, <1>6, Known
<1>8. Outcome(op, before, f)
  BY <1>3, <1>5, <1>7 DEF Outcome
<1>9. Pending(e, edge_count)'
  <2>1. out' = <<SetWeight(s, new)>>
    BY <1>3
  <2> QED
    BY <1>1, <1>5, <1>7, <2>1 DEF Pending
<1>10. Len(out') <= 3
  BY <1>3, CopyLen
<1>11. InSort(e, edge_count)'
  <2>1. Sorted(e, 1 .. 1) /\ 1 \in 1 .. ec
    BY <1>4, <1>5 DEF Sorted
  <2> QED
    BY <1>1, <1>5, <1>7, <1>8, <2>1 DEF InSort
<1>12. Sound(e, edge_count)'
  BY <1>1, <1>5, <1>7, <1>11 DEF Sound, IsOp
<1> QED
  BY <1>1, <1>4, <1>7, <1>9, <1>10, <1>12, HolderMoves

LEMMA AddNewStep ==
    ASSUME TableInv, AddNew
    PROVE  TableInv'
<1>1. PICK new, s, e, f : /\ new = Edge(op.target, op.weight) /\ s = ec + 1
                        /\ e = [edges EXCEPT ![s] = new]
                        /\ f = Map!Put(before, op.target, op.weight)
  OBVIOUS
<1>2. /\ stage = "add" /\ out = <<>> /\ stage' = "sort" /\ Found = {} /\ ec < MaxFanout
      /\ edges' = edges /\ edge_count' = edge_count /\ op' = op /\ before' = before
      /\ UNCHANGED <<reader, changes, walk, gap, key, jumbled>> /\ ec' = s
      /\ out' = Copy(s, new) \o <<SetCount(s)>>
  BY <1>1 DEF AddNew, Continue
<1>3. /\ Slots = 1 .. MaxFanout /\ edges \in [Slots -> Slot] /\ MaxWeight \in Nat
      /\ edge_count \in 0 .. MaxFanout /\ MaxFanout \in Nat
      /\ ec \in 0 .. MaxFanout /\ walk \in 0 .. MaxFanout + 1 /\ gap \in 0 .. MaxFanout
      /\ key \in Slot /\ jumbled \in BOOLEAN
  BY TypesOf
<1>4. /\ op.kind = "add" /\ ec = edge_count /\ walk = 1 /\ IsOp
      /\ Distinct(edges, 1 .. ec) /\ IsMapOf(before, edges, 1 .. ec)
      /\ DOMAIN before = {edges[r].target : r \in 1 .. ec}
      /\ \A r \in 1 .. ec : edges[r] \in RealEdge
  BY <1>2, AtFirst
<1>5. op.target \in Targets /\ op.weight \in 0 .. MaxWeight
  BY <1>4, TableConstants DEF IsOp
<1>6. new \in Slot /\ new \in RealEdge /\ new.target = op.target /\ new.weight = op.weight
  BY <1>1, <1>5, AnEdge
<1>7. \A r \in 1 .. ec : edges[r].target # op.target
  BY <1>2 DEF Found
<1>8. s \in Slots /\ s \in 1 .. MaxFanout
  BY <1>1, <1>2, <1>3
<1>9. e \in [Slots -> Slot] /\ e[s] = new /\ \A r \in 1 .. ec : e[r] = edges[r]
  BY <1>1, <1>3, <1>6, <1>8
<1>10. Pending(e, s)'
  <2> QED
    BY <1>1, <1>2, <1>5, <1>6, <1>8 DEF Pending
<1>11. Len(out') <= 3
  BY <1>2, CopyLen
<1>12. Distinct(e, 1 .. s) /\ IsMapOf(f, e, 1 .. s)
  <2>1. 1 .. s = (1 .. ec) \union {s} /\ s \notin 1 .. ec
    BY <1>1, <1>3
  <2>2. Alike(e, edges, 1 .. ec) /\ e[s].target \notin DOMAIN before
    BY <1>4, <1>6, <1>7, <1>9 DEF Alike
  <2>3. f = Map!Put(before, e[s].target, e[s].weight)
    BY <1>1, <1>6, <1>9
  <2>4. /\ Distinct(e, (1 .. ec) \union {s})
        /\ IsMapOf(Map!Put(before, e[s].target, e[s].weight), e, (1 .. ec) \union {s})
    BY <1>4, <2>1, <2>2, Joined
  <2> QED
    BY <2>1, <2>3, <2>4
<1>13. Outcome(op, before, f)
  <2>1. Cardinality(DOMAIN before) = ec
    BY <1>3, <1>4, AsMany
  <2>2. op.target \notin DOMAIN before
    BY <1>4, <1>7
  <2> QED
    BY <1>1, <1>2, <1>4, <2>1, <2>2 DEF Outcome
<1>14. \A r \in 1 .. s : e[r] \in RealEdge
  BY <1>1, <1>3, <1>4, <1>6, <1>9
<1>15. InSort(e, s)'
  <2>1. Sorted(e, 1 .. 1) /\ 1 \in 1 .. s
    BY <1>1, <1>3 DEF Sorted
  <2> QED
    BY <1>2, <1>4, <1>12, <1>13, <2>1 DEF InSort
<1>16. Sound(e, s)'
  BY <1>2, <1>4, <1>14, <1>15 DEF Sound, IsOp
<1>17. s \in 0 .. MaxFanout
  BY <1>1, <1>3, <1>8
<1> QED
  BY <1>2, <1>3, <1>9, <1>10, <1>11, <1>16, <1>17, HolderMoves

LEMMA AddFullStep ==
    ASSUME TableInv, AddFull
    PROVE  TableInv'
<1>1. PICK new, e, v, f :
        /\ new = Edge(op.target, op.weight) /\ e = [edges EXCEPT ![ec] = new]
        /\ v = edges[ec].target
        /\ f = Map!Put(Restrict(before, DOMAIN before \ {v}), op.target, op.weight)
  OBVIOUS
<1>2. /\ stage = "add" /\ out = <<>> /\ stage' = "sort" /\ Found = {} /\ ec = MaxFanout
      /\ edges' = edges /\ edge_count' = edge_count /\ op' = op /\ before' = before
      /\ UNCHANGED <<reader, changes, ec, walk, gap, key, jumbled>>
      /\ out' = IF op.weight > edges[ec].weight THEN Copy(ec, new) ELSE <<>>
  BY <1>1 DEF AddFull, Continue
<1>3. /\ Slots = 1 .. MaxFanout /\ edges \in [Slots -> Slot] /\ MaxWeight \in Nat
      /\ edge_count \in 0 .. MaxFanout /\ MaxFanout \in Nat /\ MaxFanout >= 1
      /\ ec \in 0 .. MaxFanout /\ walk \in 0 .. MaxFanout + 1 /\ gap \in 0 .. MaxFanout
      /\ key \in Slot /\ jumbled \in BOOLEAN
  BY TypesOf, TableConstants
<1>4. /\ op.kind = "add" /\ ec = edge_count /\ walk = 1 /\ IsOp
      /\ Distinct(edges, 1 .. ec) /\ IsMapOf(before, edges, 1 .. ec)
      /\ DOMAIN before = {edges[r].target : r \in 1 .. ec}
      /\ \A r \in 1 .. ec : edges[r] \in RealEdge
  BY <1>2, AtFirst
<1>5. op.target \in Targets /\ op.weight \in 0 .. MaxWeight
  BY <1>4, TableConstants DEF IsOp
<1>6. new \in Slot /\ new \in RealEdge /\ new.target = op.target /\ new.weight = op.weight
  BY <1>1, <1>5, AnEdge
<1>7. /\ op.target \notin DOMAIN before /\ \A r \in 1 .. ec : edges[r].target # op.target
  BY <1>2, <1>4 DEF Found
<1>8. ec \in 1 .. ec /\ ec \in Slots /\ v \in DOMAIN before /\ before[v] = edges[ec].weight
  <2>1. ec \in 1 .. ec /\ ec \in Slots
    BY <1>2, <1>3
  <2> QED
    BY <1>1, <1>4, <2>1 DEF IsMapOf
<1>9. Cardinality(DOMAIN before) = MaxFanout
  BY <1>2, <1>3, <1>4, AsMany
<1>10. ASSUME NEW g \in [Slots -> Slot], NEW h, \A r \in 1 .. ec : g[r] \in RealEdge,
             Distinct(g, 1 .. ec), IsMapOf(h, g, 1 .. ec), Outcome(op, before, h)
      PROVE  Sound(g, edge_count)'
  <2>1. Sorted(g, 1 .. 1) /\ 1 \in 1 .. ec
    BY <1>2, <1>3 DEF Sorted
  <2>2. InSort(g, edge_count)'
    BY <1>2, <1>4, <1>10, <2>1 DEF InSort
  <2> QED
    BY <1>2, <1>4, <1>10, <2>2 DEF Sound, IsOp
<1>11. CASE ~(op.weight > edges[ec].weight)
  <2>1. out' = <<>> /\ Len(out') <= 3 /\ Pending(edges, edge_count)'
    <3>1. out' = <<>>
      BY <1>2, <1>11
    <3> QED
      BY <1>2, <3>1, CopyLen, Handed
  <2>2. Sound(edges, edge_count)'
    BY <1>2, <1>3, <1>4, <1>10 DEF Outcome
  <2> QED
    BY <1>2, <1>3, <2>1, <2>2, HolderMoves
<1>12. CASE op.weight > edges[ec].weight
  <2>1. out' = Copy(ec, new)
    BY <1>2, <1>12
  <2>2. Len(out') <= 3
    BY <2>1, CopyLen
  <2>3. Pending(e, edge_count)'
    BY <1>1, <1>2, <1>5, <1>6, <1>8, <2>1 DEF Pending
  <2>4. e \in [Slots -> Slot] /\ e[ec] = new /\ \A r \in 1 .. ec \ {ec} : e[r] = edges[r]
    BY <1>1, <1>3, <1>6, <1>8
  <2>5. Distinct(e, 1 .. ec) /\ IsMapOf(f, e, 1 .. ec)
    <3>1. /\ Distinct(edges, 1 .. ec \ {ec})
          /\ IsMapOf(Restrict(before, DOMAIN before \ {v}), edges, 1 .. ec \ {ec})
      BY <1>1, <1>4, <1>8, Left
    <3>2. 1 .. ec = (1 .. ec \ {ec}) \union {ec} /\ ec \notin 1 .. ec \ {ec}
      BY <1>8
    <3>3. /\ Alike(e, edges, 1 .. ec \ {ec})
          /\ e[ec].target \notin DOMAIN Restrict(before, DOMAIN before \ {v})
      BY <1>1, <1>6, <1>7, <2>4 DEF Alike, Restrict
    <3>4. f = Map!Put(Restrict(before, DOMAIN before \ {v}), e[ec].target, e[ec].weight)
      BY <1>1, <1>6, <2>4
    <3>5. /\ Distinct(e, (1 .. ec \ {ec}) \union {ec})
          /\ IsMapOf(f, e, (1 .. ec \ {ec}) \union {ec})
      BY <3>1, <3>2, <3>3, <3>4, Joined
    <3> QED
      BY <3>2, <3>5
  <2>6. Outcome(op, before, f)
    BY <1>1, <1>4, <1>5, <1>7, <1>8, <1>9, <1>12 DEF Outcome
  <2>7. \A r \in 1 .. ec : e[r] \in RealEdge
    BY <1>4, <1>6, <2>4
  <2>8. Sound(e, edge_count)'
    BY <1>10, <2>4, <2>5, <2>6, <2>7
  <2> QED
    BY <1>2, <1>3, <2>2, <2>3, <2>4, <2>8, HolderMoves
<1> QED
  BY <1>11, <1>12

LEMMA StdpStep ==
    ASSUME TableInv, Stdp
    PROVE  TableInv'
<1>1. /\ stage = "stdp" /\ out = <<>> /\ stage' = "unlock"
      /\ edges' = edges /\ edge_count' = edge_count /\ op' = op /\ before' = before
      /\ UNCHANGED <<reader, changes, ec, walk, gap, key>>
  BY DEF Stdp, Continue
<1>2. /\ Slots = 1 .. MaxFanout /\ edges \in [Slots -> Slot] /\ MaxWeight \in Nat
      /\ edge_count \in 0 .. MaxFanout /\ MaxFanout \in Nat
      /\ ec \in 0 .. MaxFanout /\ walk \in 0 .. MaxFanout + 1 /\ gap \in 0 .. MaxFanout
      /\ key \in Slot /\ jumbled \in BOOLEAN
  BY TypesOf
<1>3. /\ op.kind = "stdp" /\ ec = edge_count /\ IsOp
      /\ Distinct(edges, 1 .. ec) /\ IsMapOf(before, edges, 1 .. ec)
      /\ (~jumbled => Sorted(edges, 1 .. ec))
      /\ \A r \in 1 .. ec : edges[r] \in RealEdge
  BY <1>1, AtFirst
<1>4. CASE Found = {} /\ out' = <<>> /\ jumbled' = jumbled
  <2>1. Len(out') <= 3 /\ Pending(edges, edge_count)'
    BY <1>1, <1>4, CopyLen, Handed
  <2>2. InUnlock(edges, edge_count)'
    BY <1>1, <1>3, <1>4 DEF InUnlock, Outcome
  <2>3. Sound(edges, edge_count)'
    BY <1>1, <1>3, <2>2 DEF Sound, IsOp
  <2> QED
    BY <1>1, <1>2, <1>4, <2>1, <2>3, HolderMoves
<1>5. ASSUME NEW s \in Found, NEW w, w = Clamped(edges[s].weight + op.weight),
             out' = <<SetWeight(s, Edge(op.target, w))>>, jumbled' = TRUE
      PROVE  TableInv'
  <2>1. s \in 1 .. ec /\ s \in Slots
    BY <1>1, AtFirst DEF Found
  <2>2. w \in 0 .. MaxWeight
    <3>1. edges[s].weight \in 0 .. MaxWeight
      BY <1>2, <2>1 DEF Slot
    <3>2. op.weight \in {-1, 1}
      BY <1>3 DEF IsOp
    <3> QED
      BY <1>2, <1>5, <3>1, <3>2 DEF Clamped, Capped
  <2> PICK new, e, f : /\ new = Edge(op.target, w) /\ e = [edges EXCEPT ![s] = new]
                       /\ f = Map!Put(before, op.target, w)
    OBVIOUS
  <2>3. /\ op.target \in Targets /\ new \in Slot /\ new.target = op.target
        /\ edges[s].target = op.target /\ e \in [Slots -> Slot]
        /\ \A r \in 1 .. ec : e[r] \in RealEdge
        /\ op.target \in DOMAIN before /\ before[op.target] = edges[s].weight
        /\ Distinct(e, 1 .. ec) /\ IsMapOf(f, e, 1 .. ec)
    BY <1>1, <2>2, Known
  <2>4. Outcome(op, before, f)
    <3>1. before[op.target] \in 0 .. MaxWeight
      BY <1>2, <2>1, <2>3 DEF Slot
    <3> QED
      BY <1>3, <1>5, <2>3, <3>1 DEF Outcome
  <2>5. out' = <<SetWeight(s, new)>>
    BY <1>5
  <2>6. Len(out') <= 3
    BY <2>5, CopyLen
  <2>7. Pending(e, edge_count)'
    BY <1>1, <2>1, <2>3, <2>5 DEF Pending
  <2>8. InUnlock(e, edge_count)'
    BY <1>1, <1>3, <1>5, <2>3, <2>4 DEF InUnlock
  <2>9. Sound(e, edge_count)'
    BY <1>1, <1>3, <2>3, <2>8 DEF Sound, IsOp
  <2> QED
    BY <1>1, <1>2, <1>5, <2>3, <2>6, <2>7, <2>9, HolderMoves
<1> QED
  BY <1>4, <1>5 DEF Stdp, Continue

----------------------------------------------------------------------------
(***************************************************************************)
(* _sort_edges(): the key and the gap are one more slot                      *)
(***************************************************************************)
LEMMA AtHolder ==
    ASSUME TableInv, out = <<>>
    PROVE  /\ Sound(edges, edge_count) /\ edges \in [Slots -> Slot] /\ Slots = 1 .. MaxFanout
           /\ edge_count \in 0 .. MaxFanout /\ MaxFanout \in Nat /\ EdgePrune \in Nat
           /\ ec \in 0 .. MaxFanout /\ walk \in 0 .. MaxFanout + 1 /\ gap \in 0 .. MaxFanout
           /\ key \in Slot /\ jumbled \in BOOLEAN
           /\ \A s \in 1 .. edge_count : s \in Slots /\ edges[s] \in RealEdge
           /\ \A s \in Slots : edges[s].weight \in Nat
<1>1. /\ Sound(edges, edge_count) /\ edges \in [Slots -> Slot] /\ Slots = 1 .. MaxFanout
      /\ edge_count \in 0 .. MaxFanout /\ MaxFanout \in Nat /\ EdgePrune \in Nat
      /\ ec \in 0 .. MaxFanout /\ walk \in 0 .. MaxFanout + 1 /\ gap \in 0 .. MaxFanout
      /\ key \in Slot /\ jumbled \in BOOLEAN /\ MaxWeight \in Nat
  BY TypesOf, Settled
<1>2. \A s \in Slots : edges[s].weight \in Nat
  BY <1>1 DEF Slot
<1>3. \A s \in 1 .. edge_count : s \in Slots /\ edges[s] \in RealEdge
  BY <1>1 DEF Sound
<1> QED
  BY <1>1, <1>2, <1>3

LEMMA SortPickStep ==
    ASSUME TableInv, SortPick
    PROVE  TableInv'
<1>1. /\ stage = "sort" /\ out = <<>> /\ stage' = "shift" /\ out' = <<>> /\ walk < ec
      /\ edges' = edges /\ edge_count' = edge_count /\ op' = op /\ before' = before
      /\ key' = edges[walk + 1] /\ gap' = walk /\ walk' = walk + 1
      /\ UNCHANGED <<reader, changes, ec, jumbled>>
  BY DEF SortPick, Continue
<1>2. /\ Sound(edges, edge_count) /\ edges \in [Slots -> Slot] /\ Slots = 1 .. MaxFanout
      /\ edge_count \in 0 .. MaxFanout /\ MaxFanout \in Nat /\ ec \in 0 .. MaxFanout
      /\ jumbled \in BOOLEAN
      /\ \A s \in 1 .. edge_count : s \in Slots /\ edges[s] \in RealEdge
  BY <1>1, AtHolder
<1>3. /\ op.kind = "add" /\ ec = edge_count /\ walk \in 1 .. ec
      /\ Distinct(edges, 1 .. ec) /\ Sorted(edges, 1 .. walk) /\ IsOp
  BY <1>1, <1>2 DEF Sound, InSort
<1>4. PICK f : Outcome(op, before, f) /\ IsMapOf(f, edges, 1 .. ec)
  BY <1>1, <1>2 DEF Sound, InSort
<1>5. /\ walk' \in 1 .. ec /\ gap' \in 0 .. walk' - 1 /\ walk' \in 0 .. MaxFanout + 1
      /\ gap' \in 0 .. MaxFanout /\ (1 .. walk') \ {gap' + 1} = 1 .. walk
      /\ gap' + 2 .. walk' = {} /\ walk + 1 \in 1 .. ec
  BY <1>1, <1>2, <1>3
<1>6. key' \in RealEdge /\ key' \in Slot
  BY <1>1, <1>2, <1>3, <1>5 DEF RealEdge
<1>7. Filled(edges)' = edges
  BY <1>1, <1>2, <1>3, <1>5 DEF Filled
<1>8. InShift(edges, edge_count)'
  BY <1>1, <1>3, <1>4, <1>5, <1>6, <1>7 DEF InShift
<1>9. Sound(edges, edge_count)'
  BY <1>1, <1>2, <1>3, <1>8 DEF Sound, IsOp
<1>10. Pending(edges, edge_count)' /\ Len(out') <= 3
  BY <1>1, Handed, CopyLen
<1> QED
  BY <1>1, <1>2, <1>5, <1>6, <1>9, <1>10, HolderMoves

LEMMA SortShiftStep ==
    ASSUME TableInv, SortShift
    PROVE  TableInv'
<1>1. /\ stage = "shift" /\ out = <<>> /\ stage' = "shift" /\ gap >= 1
      /\ Lighter(edges[gap], key) /\ out' = Copy(gap + 1, edges[gap])
      /\ edges' = edges /\ edge_count' = edge_count /\ op' = op /\ before' = before
      /\ gap' = gap - 1 /\ UNCHANGED <<reader, changes, ec, walk, key, jumbled>>
  BY DEF SortShift, Continue
<1>2. /\ Sound(edges, edge_count) /\ edges \in [Slots -> Slot] /\ Slots = 1 .. MaxFanout
      /\ edge_count \in 0 .. MaxFanout /\ MaxFanout \in Nat /\ ec \in 0 .. MaxFanout
      /\ walk \in 0 .. MaxFanout + 1 /\ gap \in 0 .. MaxFanout /\ key \in Slot
      /\ jumbled \in BOOLEAN
      /\ \A s \in 1 .. edge_count : s \in Slots /\ edges[s] \in RealEdge
      /\ \A s \in Slots : edges[s].weight \in Nat
  BY <1>1, AtHolder
<1>3. /\ op.kind = "add" /\ ec = edge_count /\ walk \in 1 .. ec /\ gap \in 0 .. walk - 1
      /\ key \in RealEdge /\ Distinct(Filled(edges), 1 .. ec)
      /\ Sorted(edges, (1 .. walk) \ {gap + 1})
      /\ \A s \in gap + 2 .. walk : edges[s].weight < key.weight
      /\ IsOp
  BY <1>1, <1>2 DEF Sound, InShift
<1>4. PICK f : Outcome(op, before, f) /\ IsMapOf(f, Filled(edges), 1 .. ec)
  BY <1>1, <1>2 DEF Sound, InShift
<1>5. /\ gap \in 1 .. ec /\ gap + 1 \in 1 .. ec /\ gap \in Slots /\ gap + 1 \in Slots
      /\ gap # gap + 1 /\ gap' \in 0 .. walk - 1 /\ gap' + 1 = gap /\ gap' \in 0 .. MaxFanout
  BY <1>1, <1>2, <1>3
<1>6. edges[gap] \in RealEdge /\ edges[gap] \in Slot /\ edges[gap].target \in Targets
  BY <1>2, <1>3, <1>5 DEF RealEdge
<1>7. PICK e : e = [edges EXCEPT ![gap + 1] = edges[gap]]
  OBVIOUS
<1>8. /\ e \in [Slots -> Slot] /\ e[gap + 1] = edges[gap]
      /\ \A s \in Slots \ {gap + 1} : e[s] = edges[s]
  BY <1>2, <1>5, <1>6, <1>7
<1>9. Pending(e, edge_count)' /\ Len(out') <= 3
  <2>1. Len(out') <= 3
    BY <1>1, CopyLen
  <2> QED
    BY <1>1, <1>5, <1>6, <1>7, <2>1 DEF Pending
<1>10. \A s \in 1 .. ec : e[s] \in RealEdge
  BY <1>2, <1>3, <1>5, <1>6, <1>8
<1>11. PICK g, h : g = Filled(e)' /\ h = Filled(edges)
  OBVIOUS
<1>12. Distinct(g, 1 .. ec) /\ IsMapOf(f, g, 1 .. ec)
  <2>1. g = [e EXCEPT ![gap] = key] /\ h = [edges EXCEPT ![gap + 1] = key]
    BY <1>1, <1>5, <1>11 DEF Filled
  <2>2. /\ g[gap] = key /\ g[gap + 1] = edges[gap]
        /\ \A s \in Slots \ {gap, gap + 1} : g[s] = edges[s]
    BY <1>2, <1>5, <1>8, <2>1
  <2>3. /\ h[gap + 1] = key /\ h[gap] = edges[gap]
        /\ \A s \in Slots \ {gap, gap + 1} : h[s] = edges[s]
    BY <1>2, <1>5, <2>1
  <2>4. 1 .. ec \subseteq Slots
    BY <1>2
  <2>5. Alike(g, h, 1 .. ec \ {gap, gap + 1})
    BY <2>2, <2>3, <2>4 DEF Alike
  <2>6. Distinct(h, 1 .. ec) /\ IsMapOf(f, h, 1 .. ec)
    BY <1>3, <1>4, <1>11
  <2>7. g[gap] = h[gap + 1] /\ g[gap + 1] = h[gap]
    BY <2>2, <2>3
  <2> QED
    BY <1>5, <2>5, <2>6, <2>7, Swapped
<1>13. Sorted(e, (1 .. walk) \ {gap})
  <2>1. SUFFICES ASSUME NEW s \in (1 .. walk) \ {gap}, NEW r \in (1 .. walk) \ {gap}, s < r
                 PROVE  e[s].weight >= e[r].weight
    BY DEF Sorted
  <2>2. s \in Slots /\ r \in Slots /\ gap \in (1 .. walk) \ {gap + 1}
    BY <1>1, <1>2, <1>3
  <2>3. CASE s = gap + 1
    <3>1. r \in (1 .. walk) \ {gap + 1} /\ gap < r /\ r # gap + 1
      BY <1>2, <2>1, <2>3
    <3> QED
      BY <1>3, <1>8, <2>2, <2>3, <3>1 DEF Sorted
  <2>4. CASE r = gap + 1
    <3>1. s \in (1 .. walk) \ {gap + 1} /\ s < gap
      BY <1>2, <2>1, <2>4
    <3> QED
      BY <1>3, <1>8, <2>2, <2>4, <3>1 DEF Sorted
  <2>5. CASE s # gap + 1 /\ r # gap + 1
    BY <1>3, <1>8, <2>1, <2>2, <2>5 DEF Sorted
  <2> QED
    BY <2>3, <2>4, <2>5
<1>14. \A s \in gap + 1 .. walk : e[s].weight < key.weight
  <2>1. SUFFICES ASSUME NEW s \in gap + 1 .. walk PROVE e[s].weight < key.weight
    OBVIOUS
  <2>2. CASE s = gap + 1
    BY <1>1, <1>8, <2>2 DEF Lighter
  <2>3. CASE s # gap + 1
    <3>1. s \in gap + 2 .. walk /\ s \in Slots
      BY <1>2, <1>3, <2>3
    <3> QED
      BY <1>3, <1>8, <2>3, <3>1
  <2> QED
    BY <2>2, <2>3
<1>15. InShift(e, edge_count)'
  <2>1. /\ gap' + 1 = gap /\ gap' + 2 = gap + 1 /\ walk' = walk /\ key' = key /\ ec' = ec
    BY <1>1, <1>2
  <2> QED
    BY <1>1, <1>3, <1>4, <1>5, <1>11, <1>12, <1>13, <1>14, <2>1 DEF InShift
<1>16. Sound(e, edge_count)'
  BY <1>1, <1>3, <1>10, <1>15 DEF Sound, IsOp
<1> QED
  BY <1>1, <1>2, <1>5, <1>8, <1>9, <1>16, HolderMoves

LEMMA SortPlaceStep ==
    ASSUME TableInv, SortPlace
    PROVE  TableInv'
<1>1. /\ stage = "shift" /\ out = <<>> /\ stage' = "sort"
      /\ (gap >= 1 => ~Lighter(edges[gap], key)) /\ out' = Copy(gap + 1, key)
      /\ edges' = edges /\ edge_count' = edge_count /\ op' = op /\ before' = before
      /\ UNCHANGED <<reader, changes, ec, walk, gap, key, jumbled>>
  BY DEF SortPlace, Continue
<1>2. /\ Sound(edges, edge_count) /\ edges \in [Slots -> Slot] /\ Slots = 1 .. MaxFanout
      /\ edge_count \in 0 .. MaxFanout /\ MaxFanout \in Nat /\ ec \in 0 .. MaxFanout
      /\ walk \in 0 .. MaxFanout + 1 /\ gap \in 0 .. MaxFanout /\ key \in Slot
      /\ jumbled \in BOOLEAN /\ MaxWeight \in Nat
      /\ \A s \in 1 .. edge_count : s \in Slots /\ edges[s] \in RealEdge
      /\ \A s \in Slots : edges[s].weight \in Nat
  BY <1>1, AtHolder, TableConstants
<1>3. /\ op.kind = "add" /\ ec = edge_count /\ walk \in 1 .. ec /\ gap \in 0 .. walk - 1
      /\ key \in RealEdge /\ Distinct(Filled(edges), 1 .. ec)
      /\ Sorted(edges, (1 .. walk) \ {gap + 1})
      /\ \A s \in gap + 2 .. walk : edges[s].weight < key.weight
      /\ IsOp
  BY <1>1, <1>2 DEF Sound, InShift
<1>4. PICK f : Outcome(op, before, f) /\ IsMapOf(f, Filled(edges), 1 .. ec)
  BY <1>1, <1>2 DEF Sound, InShift
<1>5. PICK e : e = Filled(edges)
  OBVIOUS
<1>6. gap + 1 \in Slots /\ key.target \in Targets /\ key.weight \in Nat
  BY <1>2, <1>3 DEF RealEdge, Slot
<1>7. /\ e = [edges EXCEPT ![gap + 1] = key] /\ e \in [Slots -> Slot] /\ e[gap + 1] = key
      /\ \A s \in Slots \ {gap + 1} : e[s] = edges[s]
  BY <1>2, <1>5, <1>6 DEF Filled
<1>8. Pending(e, edge_count)' /\ Len(out') <= 3
  <2>1. Len(out') <= 3
    BY <1>1, CopyLen
  <2> QED
    BY <1>1, <1>2, <1>6, <1>7, <2>1 DEF Pending
<1>9. \A s \in 1 .. ec : e[s] \in RealEdge
  BY <1>2, <1>3, <1>7
<1>10. Sorted(e, 1 .. walk)
  <2>1. SUFFICES ASSUME NEW s \in 1 .. walk, NEW r \in 1 .. walk, s < r
                 PROVE  e[s].weight >= e[r].weight
    BY DEF Sorted
  <2>2. s \in Slots /\ r \in Slots
    BY <1>2, <1>3
  <2>3. CASE s = gap + 1
    <3>1. r \in gap + 2 .. walk /\ r \in Slots \ {gap + 1}
      BY <1>2, <2>1, <2>2, <2>3
    <3>2. edges[r].weight < key.weight /\ edges[r].weight \in Nat
      BY <1>2, <1>3, <2>2, <3>1
    <3>3. e[s] = key /\ e[r] = edges[r]
      BY <1>7, <2>3, <3>1
    <3> QED
      BY <1>6, <3>2, <3>3
  <2>4. CASE r = gap + 1
    <3>1. /\ gap >= 1 /\ s \in Slots \ {gap + 1} /\ s \in (1 .. walk) \ {gap + 1}
          /\ gap \in (1 .. walk) \ {gap + 1} /\ gap \in Slots /\ (s = gap \/ s < gap)
      BY <1>2, <1>3, <2>1, <2>2, <2>4
    <3>2. ~(edges[gap].weight < key.weight)
      BY <1>1, <3>1 DEF Lighter
    <3>3. edges[s].weight >= edges[gap].weight
      BY <1>2, <1>3, <3>1 DEF Sorted
    <3>4. e[s] = edges[s] /\ e[r] = key
      BY <1>7, <2>4, <3>1
    <3>5. edges[s].weight \in Nat /\ edges[gap].weight \in Nat
      BY <1>2, <3>1
    <3> QED
      BY <1>6, <3>2, <3>3, <3>4, <3>5
  <2>5. CASE s # gap + 1 /\ r # gap + 1
    BY <1>3, <1>7, <2>1, <2>2, <2>5 DEF Sorted
  <2> QED
    BY <2>3, <2>4, <2>5
<1>11. InSort(e, edge_count)'
  BY <1>1, <1>3, <1>4, <1>5, <1>10 DEF InSort
<1>12. Sound(e, edge_count)'
  BY <1>1, <1>3, <1>9, <1>11 DEF Sound, IsOp
<1> QED
  BY <1>1, <1>2, <1>7, <1>8, <1>12, HolderMoves

LEMMA SortDoneStep ==
    ASSUME TableInv, SortDone
    PROVE  TableInv'
<1>1. /\ stage = "sort" /\ out = <<>> /\ stage' = "unlock" /\ out' = <<>> /\ walk >= ec
      /\ edges' = edges /\ edge_count' = edge_count /\ op' = op /\ before' = before
      /\ jumbled' = FALSE /\ UNCHANGED <<reader, changes, ec, walk, gap, key>>
  BY DEF SortDone, Continue
<1>2. /\ Sound(edges, edge_count) /\ edges \in [Slots -> Slot]
      /\ edge_count \in 0 .. MaxFanout /\ ec \in 0 .. MaxFanout
      /\ walk \in 0 .. MaxFanout + 1 /\ gap \in 0 .. MaxFanout /\ key \in Slot
      /\ \A s \in 1 .. edge_count : edges[s] \in RealEdge
  BY <1>1, AtHolder
<1>3. /\ op.kind = "add" /\ ec = edge_count /\ walk \in 1 .. ec /\ IsOp
      /\ Distinct(edges, 1 .. ec) /\ Sorted(edges, 1 .. walk)
  BY <1>1, <1>2 DEF Sound, InSort
<1>4. PICK f : Outcome(op, before, f) /\ IsMapOf(f, edges, 1 .. ec)
  BY <1>1, <1>2 DEF Sound, InSort
<1>5. walk = ec
  BY <1>1, <1>2, <1>3
<1>6. InUnlock(edges, edge_count)'
  BY <1>1, <1>3, <1>4, <1>5 DEF InUnlock
<1>7. Sound(edges, edge_count)'
  BY <1>1, <1>2, <1>3, <1>6 DEF Sound, IsOp
<1>8. Pending(edges, edge_count)' /\ Len(out') <= 3
  BY <1>1, Handed, CopyLen
<1> QED
  BY <1>1, <1>2, <1>7, <1>8, HolderMoves

----------------------------------------------------------------------------
(***************************************************************************)
(* prune(): the slots before the gap and the ones still to be looked at      *)
(***************************************************************************)
LEMMA Moved ==
    ASSUME NEW e, NEW S, Distinct(e, S), NEW f, IsMapOf(f, e, S), NEW a \in S, NEW b, b \notin S,
           NEW g, g[b] = e[a], Alike(g, e, S \ {a}), NEW R, R = (S \ {a}) \union {b}
    PROVE  Distinct(g, R) /\ IsMapOf(f, g, R)
<1> DEFINE p(r) == IF r = b THEN a ELSE r
<1>1. /\ \A r \in R : p(r) \in S /\ g[r] = e[p(r)]
      /\ \A s, r \in R : p(s) = p(r) => s = r
      /\ \A s \in S : \E r \in R : p(r) = s
  BY DEF Alike
<1> HIDE DEF p
<1>2. {g[r].target : r \in R} = {e[s].target : s \in S}
  BY <1>1
<1>3. ASSUME NEW r \in R PROVE f[g[r].target] = g[r].weight
  <2>1. p(r) \in S /\ g[r] = e[p(r)]
    BY <1>1
  <2>2. f[e[p(r)].target] = e[p(r)].weight
    BY <2>1 DEF IsMapOf
  <2> QED
    BY <2>1, <2>2
<1>4. Distinct(g, R)
  BY <1>1 DEF Distinct
<1> QED
  BY <1>2, <1>3, <1>4 DEF IsMapOf

LEMMA AtPrune ==
    ASSUME TableInv, stage = "prune", out = <<>>
    PROVE  /\ op.kind = "prune" /\ ec = edge_count /\ walk \in 1 .. ec + 1 /\ gap \in 0 .. walk - 1
           /\ Distinct(edges, Live) /\ (~jumbled => Sorted(edges, Live))
           /\ \A s \in 1 .. gap : edges[s].weight >= EdgePrune
           /\ IsMapOf(Restrict(before, Strong(before, edges)), edges, Live)
           /\ Strong(before, edges) = {edges[s].target : s \in Live}
           /\ \A s \in Live : /\ s \in 1 .. ec /\ edges[s].target \in DOMAIN before
                              /\ before[edges[s].target] = edges[s].weight
<1> DEFINE m == Restrict(before, Strong(before, edges))
<1>1. Sound(edges, edge_count)
  BY AtHolder
<1>2. /\ op.kind = "prune" /\ ec = edge_count /\ walk \in 1 .. ec + 1 /\ gap \in 0 .. walk - 1
      /\ Distinct(edges, Live) /\ (~jumbled => Sorted(edges, Live))
      /\ \A s \in 1 .. gap : edges[s].weight >= EdgePrune
      /\ IsMapOf(m, edges, Live)
  BY <1>1 DEF Sound, InPrune
<1>3. DOMAIN m = Strong(before, edges) /\ \A t \in DOMAIN m : m[t] = before[t]
  BY DEF Restrict
<1>4. DOMAIN m = {edges[s].target : s \in Live} /\ \A s \in Live : m[edges[s].target] = edges[s].weight
  BY <1>2 DEF IsMapOf
<1>5. Strong(before, edges) \subseteq DOMAIN before
  BY DEF Strong
<1> HIDE DEF m
<1>6. \A s \in Live : edges[s].target \in DOMAIN before /\ before[edges[s].target] = edges[s].weight
  BY <1>3, <1>4, <1>5
<1>7. Live \subseteq 1 .. ec
  <2>1. ec \in Nat
    BY AtHolder
  <2> QED
    BY <1>2, <2>1 DEF Live
<1> QED
  BY <1>2, <1>3, <1>4, <1>6, <1>7 DEF m

LEMMA PruneKeepStep ==
    ASSUME TableInv, PruneKeep
    PROVE  TableInv'
<1>1. /\ stage = "prune" /\ out = <<>> /\ stage' = "prune" /\ walk <= ec
      /\ edges[walk].weight >= EdgePrune /\ out' = Copy(gap + 1, edges[walk])
      /\ edges' = edges /\ edge_count' = edge_count /\ op' = op /\ before' = before
      /\ walk' = walk + 1 /\ gap' = gap + 1
      /\ UNCHANGED <<reader, changes, ec, key, jumbled>>
  BY DEF PruneKeep, Continue
<1>2. /\ Sound(edges, edge_count) /\ edges \in [Slots -> Slot] /\ Slots = 1 .. MaxFanout
      /\ edge_count \in 0 .. MaxFanout /\ MaxFanout \in Nat /\ EdgePrune \in Nat
      /\ ec \in 0 .. MaxFanout /\ gap \in 0 .. MaxFanout /\ key \in Slot /\ jumbled \in BOOLEAN
      /\ \A s \in 1 .. edge_count : s \in Slots /\ edges[s] \in RealEdge
      /\ \A s \in Slots : edges[s].weight \in Nat
  BY <1>1, AtHolder
<1>3. /\ op.kind = "prune" /\ ec = edge_count /\ walk \in 1 .. ec + 1 /\ gap \in 0 .. walk - 1
      /\ Distinct(edges, Live) /\ (~jumbled => Sorted(edges, Live))
      /\ \A s \in 1 .. gap : edges[s].weight >= EdgePrune
      /\ IsMapOf(Restrict(before, Strong(before, edges)), edges, Live)
      /\ \A s \in Live : /\ s \in 1 .. ec /\ edges[s].target \in DOMAIN before
                         /\ before[edges[s].target] = edges[s].weight
  BY <1>1, AtPrune
<1>4. /\ walk \in 1 .. ec /\ gap + 1 \in 1 .. ec /\ walk \in Slots /\ gap + 1 \in Slots
      /\ walk' \in 1 .. ec + 1 /\ gap' \in 0 .. walk' - 1
      /\ walk' \in 0 .. MaxFanout + 1 /\ gap' \in 0 .. MaxFanout
  BY <1>1, <1>2, <1>3
<1>5. walk \in Live
  BY <1>2, <1>4 DEF Live
<1>6. edges[walk] \in RealEdge /\ edges[walk] \in Slot /\ edges[walk].target \in Targets
  BY <1>2, <1>3, <1>4 DEF RealEdge
<1>7. PICK e : e = [edges EXCEPT ![gap + 1] = edges[walk]]
  OBVIOUS
<1>8. /\ e \in [Slots -> Slot] /\ e[gap + 1] = edges[walk]
      /\ \A s \in Slots \ {gap + 1} : e[s] = edges[s]
  BY <1>2, <1>4, <1>6, <1>7
<1>9. Pending(e, edge_count)' /\ Len(out') <= 3
  <2>1. Len(out') <= 3
    BY <1>1, CopyLen
  <2> QED
    BY <1>1, <1>4, <1>6, <1>7, <2>1 DEF Pending
<1>10. \A s \in 1 .. ec : e[s] \in RealEdge
  BY <1>2, <1>3, <1>4, <1>6, <1>8
<1>11. Strong(before, e)' = Strong(before, edges)
  <2>1. \A s \in walk + 1 .. ec : e[s] = edges[s]
    BY <1>2, <1>3, <1>4, <1>8
  <2>2. Strong(before, e)' = {t \in DOMAIN before : \/ before[t] >= EdgePrune
                                                    \/ \E s \in walk + 1 .. ec : e[s].target = t}
    BY <1>1 DEF Strong
  <2>3. before[edges[walk].target] >= EdgePrune
    BY <1>1, <1>3, <1>5
  <2>4. walk .. ec = {walk} \union (walk + 1 .. ec)
    BY <1>2, <1>4
  <2> QED
    BY <2>1, <2>2, <2>3, <2>4 DEF Strong
<1>12. Live' = (Live \ {walk}) \union {gap + 1} /\ (gap + 1 # walk => gap + 1 \notin Live)
  <2>1. Live' = (1 .. gap + 1) \union (walk + 1 .. ec)
    BY <1>1 DEF Live
  <2> QED
    BY <1>2, <1>3, <1>4, <2>1 DEF Live
<1>13. /\ Distinct(e, Live')
       /\ IsMapOf(Restrict(before, Strong(before, edges)), e, Live')
  <2>1. CASE gap + 1 = walk
    <3>1. e = edges
      BY <1>2, <1>4, <1>7, <2>1
    <3>2. Live' = Live
      BY <1>5, <1>12, <2>1
    <3> QED
      BY <1>3, <3>1, <3>2
  <2>2. CASE gap + 1 # walk
    <3>1. Alike(e, edges, Live \ {walk})
      <4>1. ASSUME NEW s \in Live \ {walk} PROVE s \in Slots \ {gap + 1}
        BY <1>2, <1>3, <1>12, <2>2
      <4> QED
        BY <1>8, <4>1 DEF Alike
    <3>2. gap + 1 \notin Live
      BY <1>12, <2>2
    <3>3. PICK R : R = (Live \ {walk}) \union {gap + 1}
      OBVIOUS
    <3>4. Distinct(e, R) /\ IsMapOf(Restrict(before, Strong(before, edges)), e, R)
      BY <1>3, <1>5, <1>8, <3>1, <3>2, <3>3, Moved
    <3> QED
      BY <1>12, <3>3, <3>4
  <2> QED
    BY <2>1, <2>2
<1>14. ~jumbled => Sorted(e, Live')
  <2>1. SUFFICES ASSUME ~jumbled, NEW s \in Live', NEW r \in Live', s < r
                 PROVE  e[s].weight >= e[r].weight
    BY DEF Sorted
  <2>2. /\ s \in Slots /\ r \in Slots
        /\ s # gap + 1 => s \in Live /\ s # walk
        /\ r # gap + 1 => r \in Live /\ r # walk
        /\ Sorted(edges, Live)
    BY <1>2, <1>3, <1>4, <1>12, <2>1
  <2>3. CASE s = gap + 1
    <3>1. r \in Live /\ walk < r /\ r # gap + 1
      BY <1>1, <1>2, <1>3, <2>1, <2>2, <2>3 DEF Live
    <3> QED
      BY <1>5, <1>8, <2>2, <2>3, <3>1 DEF Sorted
  <2>4. CASE r = gap + 1
    <3>1. s \in Live /\ s < walk /\ s # gap + 1
      BY <1>1, <1>2, <1>3, <1>4, <2>1, <2>2, <2>4
    <3> QED
      BY <1>5, <1>8, <2>2, <2>4, <3>1 DEF Sorted
  <2>5. CASE s # gap + 1 /\ r # gap + 1
    BY <1>8, <2>1, <2>2, <2>5 DEF Sorted
  <2> QED
    BY <2>3, <2>4, <2>5
<1>15. \A s \in 1 .. gap + 1 : e[s].weight >= EdgePrune
  <2>1. ASSUME NEW s \in 1 .. gap + 1 PROVE s = gap + 1 \/ (s \in 1 .. gap /\ s \in Slots \ {gap + 1})
    BY <1>2, <1>4
  <2> QED
    BY <1>1, <1>3, <1>8, <2>1
<1>16. InPrune(e, edge_count)'
  BY <1>1, <1>3, <1>4, <1>11, <1>13, <1>14, <1>15 DEF InPrune
<1>17. Sound(e, edge_count)'
  BY <1>1, <1>3, <1>10, <1>16 DEF Sound, IsOp
<1> QED
  BY <1>1, <1>2, <1>4, <1>8, <1>9, <1>17, HolderMoves

LEMMA PruneDropStep ==
    ASSUME TableInv, PruneDrop
    PROVE  TableInv'
<1>1. /\ stage = "prune" /\ out = <<>> /\ stage' = "prune" /\ out' = <<>> /\ walk <= ec
      /\ edges[walk].weight < EdgePrune
      /\ edges' = edges /\ edge_count' = edge_count /\ op' = op /\ before' = before
      /\ walk' = walk + 1 /\ UNCHANGED <<reader, changes, ec, gap, key, jumbled>>
  BY DEF PruneDrop, Continue
<1>2. /\ Sound(edges, edge_count) /\ edges \in [Slots -> Slot] /\ Slots = 1 .. MaxFanout
      /\ edge_count \in 0 .. MaxFanout /\ MaxFanout \in Nat /\ EdgePrune \in Nat
      /\ ec \in 0 .. MaxFanout /\ gap \in 0 .. MaxFanout /\ key \in Slot /\ jumbled \in BOOLEAN
      /\ \A s \in 1 .. edge_count : s \in Slots /\ edges[s] \in RealEdge
      /\ \A s \in Slots : edges[s].weight \in Nat
  BY <1>1, AtHolder
<1>3. /\ op.kind = "prune" /\ ec = edge_count /\ walk \in 1 .. ec + 1 /\ gap \in 0 .. walk - 1
      /\ Distinct(edges, Live) /\ (~jumbled => Sorted(edges, Live))
      /\ \A s \in 1 .. gap : edges[s].weight >= EdgePrune
      /\ IsMapOf(Restrict(before, Strong(before, edges)), edges, Live)
      /\ Strong(before, edges) = {edges[s].target : s \in Live}
      /\ \A s \in Live : /\ s \in 1 .. ec /\ edges[s].target \in DOMAIN before
                         /\ before[edges[s].target] = edges[s].weight
  BY <1>1, AtPrune
<1>4. /\ walk \in 1 .. ec /\ walk \in Slots /\ walk' \in 1 .. ec + 1
      /\ gap' \in 0 .. walk' - 1 /\ walk' \in 0 .. MaxFanout + 1
  BY <1>1, <1>2, <1>3
<1>5. walk \in Live /\ Live' = Live \ {walk}
  <2>1. Live' = (1 .. gap) \union (walk + 1 .. ec)
    BY <1>1 DEF Live
  <2> QED
    BY <1>2, <1>3, <1>4, <2>1 DEF Live
<1>6. PICK m, v, S : m = Restrict(before, Strong(before, edges)) /\ v = edges[walk].target
                     /\ S = Live
  OBVIOUS
<1>7. DOMAIN m = Strong(before, edges) /\ Strong(before, edges) \subseteq DOMAIN before
  BY <1>6 DEF Restrict, Strong
<1>8. Strong(before, edges)' = Strong(before, edges) \ {v}
  <2>1. Strong(before, edges)' = {t \in DOMAIN before : \/ before[t] >= EdgePrune
                                                \/ \E s \in walk + 1 .. ec : edges[s].target = t}
    BY <1>1 DEF Strong
  <2>2. walk .. ec = {walk} \union (walk + 1 .. ec)
    BY <1>2, <1>4
  <2>3. ~(before[v] >= EdgePrune)
    <3>1. before[v] = edges[walk].weight /\ edges[walk].weight \in Nat
      BY <1>2, <1>3, <1>4, <1>5, <1>6
    <3> QED
      BY <1>1, <1>2, <3>1
  <2>4. \A s \in walk + 1 .. ec : edges[s].target # v
    <3>1. \A s \in walk + 1 .. ec : s \in Live /\ s # walk
      BY <1>2, <1>4 DEF Live
    <3> QED
      BY <1>3, <1>5, <1>6, <3>1 DEF Distinct
  <2> QED
    BY <1>6, <2>1, <2>2, <2>3, <2>4 DEF Strong
<1>9. /\ Distinct(edges, S \ {walk})
      /\ IsMapOf(Restrict(m, DOMAIN m \ {v}), edges, S \ {walk})
  <2>1. Distinct(edges, S) /\ IsMapOf(m, edges, S) /\ walk \in S
    BY <1>3, <1>5, <1>6
  <2>2. IsMapOf(Restrict(m, DOMAIN m \ {edges[walk].target}), edges, S \ {walk})
        /\ Distinct(edges, S \ {walk})
    BY <2>1, Left
  <2> QED
    BY <1>6, <2>2
<1>10. Restrict(before, Strong(before, edges))' = Restrict(m, DOMAIN m \ {v})
  <2>1. Restrict(before, Strong(before, edges))' =
            [t \in Strong(before, edges) \ {v} |-> before[t]]
    BY <1>1, <1>8 DEF Restrict
  <2>2. \A t \in Strong(before, edges) : m[t] = before[t]
    BY <1>6 DEF Restrict
  <2> QED
    BY <1>7, <2>1, <2>2 DEF Restrict
<1>11. ~jumbled => Sorted(edges, Live')
  BY <1>3, <1>5 DEF Sorted
<1>12. Distinct(edges, Live') /\ IsMapOf(Restrict(before, Strong(before, edges))', edges, Live')
  BY <1>5, <1>6, <1>9, <1>10
<1>13. InPrune(edges, edge_count)'
  BY <1>1, <1>3, <1>4, <1>11, <1>12 DEF InPrune
<1>14. Sound(edges, edge_count)'
  BY <1>1, <1>2, <1>3, <1>13 DEF Sound, IsOp
<1>15. Pending(edges, edge_count)' /\ Len(out') <= 3
  BY <1>1, Handed, CopyLen
<1> QED
  BY <1>1, <1>2, <1>4, <1>14, <1>15, HolderMoves

LEMMA PruneDoneStep ==
    ASSUME TableInv, PruneDone
    PROVE  TableInv'
<1>1. /\ stage = "prune" /\ out = <<>> /\ stage' = "unlock" /\ walk > ec
      /\ out' = <<SetCount(gap)>>
      /\ edges' = edges /\ edge_count' = edge_count /\ op' = op /\ before' = before
      /\ UNCHANGED <<reader, changes, ec, walk, gap, key, jumbled>>
  BY DEF PruneDone, Continue
<1>2. /\ edges \in [Slots -> Slot] /\ Sound(edges, edge_count)
      /\ edge_count \in 0 .. MaxFanout /\ MaxFanout \in Nat
      /\ ec \in 0 .. MaxFanout /\ walk \in 0 .. MaxFanout + 1 /\ gap \in 0 .. MaxFanout
      /\ key \in Slot /\ jumbled \in BOOLEAN
      /\ \A s \in 1 .. edge_count : edges[s] \in RealEdge
  BY <1>1, AtHolder
<1>3. /\ op.kind = "prune" /\ ec = edge_count /\ walk \in 1 .. ec + 1 /\ gap \in 0 .. walk - 1
      /\ Distinct(edges, Live) /\ (~jumbled => Sorted(edges, Live))
      /\ IsMapOf(Restrict(before, Strong(before, edges)), edges, Live)
  BY <1>1, AtPrune
<1>4. walk .. ec = {} /\ Live = 1 .. gap /\ 1 .. gap \subseteq 1 .. edge_count
  BY <1>1, <1>2, <1>3 DEF Live
<1>5. PICK f : f = Restrict(before, {t \in DOMAIN before : before[t] >= EdgePrune})
  OBVIOUS
<1>6. Strong(before, edges) = {t \in DOMAIN before : before[t] >= EdgePrune}
  BY <1>4 DEF Strong
<1>7. Outcome(op, before, f) /\ IsMapOf(f, edges, 1 .. gap)
  BY <1>3, <1>4, <1>5, <1>6 DEF Outcome
<1>8. InUnlock(edges, gap)'
  BY <1>1, <1>3, <1>4, <1>7 DEF InUnlock
<1>9. Sound(edges, gap)'
  BY <1>1, <1>2, <1>3, <1>4, <1>8 DEF Sound, IsOp
<1>10. Pending(edges, gap)' /\ Len(out') <= 3
  BY <1>1, Handed, CopyLen
<1> QED
  BY <1>1, <1>2, <1>9, <1>10, HolderMoves

----------------------------------------------------------------------------
(***************************************************************************)
(* The reader, and every step                                               *)
(***************************************************************************)
LEMMA TableStarts ==
    ASSUME TableInit
    PROVE  TableInv
<1>1. Blank \in Slot
  BY TableConstants DEF Blank, Slot
<1>2. edges = [s \in Slots |-> Blank] /\ edges \in [Slots -> Slot] /\ edge_count = 0
  BY <1>1 DEF TableInit
<1>3. TableTypeOK
  <2>1. Len(out) <= 3
    BY CopyLen DEF TableInit
  <2>2. edges \in [Slots -> Slot]
    BY <1>2
  <2>3. /\ edge_count = 0 /\ stage = "free" /\ ec = 0 /\ walk = 0 /\ gap = 0 /\ key = Blank
        /\ rpc = "count" /\ slot = 0 /\ limit = 0 /\ got = Blank /\ changes = 0
        /\ jumbled = FALSE
    BY DEF TableInit
  <2>4. /\ 0 \in 0 .. MaxFanout /\ 0 \in 0 .. MaxFanout + 1 /\ 0 \in 0 .. MaxChanges
    BY TableConstants
  <2> QED
    BY <1>1, <2>1, <2>2, <2>3, <2>4 DEF TableTypeOK
<1>4. InFree(edges, edge_count)
  BY <1>2 DEF TableInit, InFree, Distinct, Sorted
<1>5. Sound(edges, edge_count) /\ Pending(edges, edge_count)
  BY <1>2, <1>4 DEF TableInit, Sound, Pending
<1>6. HolderInv
  <2>1. edge_count \in 0 .. MaxFanout
    BY <1>2, TableConstants
  <2> QED
    BY <1>2, <1>5, <2>1 DEF HolderInv
<1>7. ReaderInv
  BY <1>2 DEF TableInit, ReaderInv, ReadsWrittenSlots
<1> QED
  BY <1>3, <1>6, <1>7 DEF TableInv

LEMMA HolderStays ==
    ASSUME TableInv, UNCHANGED <<edges, edge_count, holder, changes, before, jumbled>>
    PROVE  HolderInv'
<1>1. PICK e \in [Slots -> Slot], c \in 0 .. MaxFanout : Pending(e, c) /\ Sound(e, c)
  BY DEF TableInv, HolderInv
<1>2. UNCHANGED <<stage, op, ec, walk, gap, key, out, edges, edge_count, before, jumbled>>
  BY DEF holder
<1>3. Sound(e, c)'
  BY <1>1, <1>2, SoundStays
<1>4. Pending(e, c)'
  BY <1>1, <1>2 DEF Pending
<1> QED
  BY <1>1, <1>3, <1>4 DEF HolderInv

LEMMA ReadStep ==
    ASSUME TableInv, Read
    PROVE  TableInv'
<1>1. UNCHANGED <<edges, edge_count, holder, changes, before, jumbled>>
  BY DEF Read, ReadCount, ReadTarget, ReadWeight, Spread
<1>2. HolderInv'
  BY <1>1, HolderStays
<1>3. /\ \A s \in 1 .. edge_count : edges[s].target \in Targets
      /\ \A s \in 1 .. limit : edges[s].target \in Targets
      /\ rpc # "count" => slot \in 1 .. limit
      /\ ReadsWrittenSlots
  BY DEF TableInv, ReaderInv
<1>4. /\ edges \in [Slots -> Slot] /\ edge_count \in 0 .. MaxFanout /\ Slots = 1 .. MaxFanout
      /\ slot \in 0 .. MaxFanout /\ limit \in 0 .. MaxFanout /\ got \in Slot
      /\ MaxFanout \in Nat /\ MaxWeight \in Nat /\ FanoutCap \in Nat /\ FanoutCap >= 1
      /\ Blank \in Slot
  BY TableConstants DEF TableInv, TableTypeOK, Slots, Blank, Slot
<1>5. /\ ReaderInv' /\ rpc' \in {"count", "target", "weight", "spread"}
      /\ slot' \in 0 .. MaxFanout /\ limit' \in 0 .. MaxFanout /\ got' \in Slot
  <2>1. CASE ReadCount
    <3>1. /\ limit' = IF edge_count < FanoutCap THEN edge_count ELSE FanoutCap
          /\ slot' = 1 /\ rpc' = IF edge_count = 0 THEN "count" ELSE "target"
          /\ got' = got /\ rpc = "count"
      BY <2>1 DEF ReadCount
    <3>2. limit' \in 0 .. edge_count /\ (edge_count # 0 => 1 \in 1 .. limit')
      BY <1>4, <3>1
    <3>3. \A s \in 1 .. limit' : s \in 1 .. edge_count
      BY <1>4, <3>2
    <3>4. rpc' # "count" => slot' \in 1 .. limit'
      BY <3>1, <3>2
    <3>5. limit' \in 0 .. MaxFanout
      BY <1>4, <3>2
    <3>6. slot' \in 0 .. MaxFanout
      BY <3>1, TableConstants
    <3> QED
      BY <1>1, <1>3, <1>4, <3>1, <3>3, <3>4, <3>5, <3>6 DEF ReaderInv, ReadsWrittenSlots
  <2>2. CASE ReadTarget
    <3>1. /\ got' = [Blank EXCEPT !.target = edges[slot].target] /\ rpc = "target"
          /\ rpc' = "weight" /\ slot' = slot /\ limit' = limit
      BY <2>2 DEF ReadTarget
    <3>2. slot \in Slots /\ edges[slot].target \in Targets
      BY <1>3, <1>4, <3>1
    <3>3. got' \in Slot /\ got'.target \in Targets
      BY <1>4, <3>1, <3>2 DEF Slot
    <3> QED
      BY <1>1, <1>3, <1>4, <3>1, <3>3 DEF ReaderInv, ReadsWrittenSlots
  <2>3. CASE ReadWeight
    <3>1. /\ got' = [got EXCEPT !.weight = edges[slot].weight, !.of = edges[slot].of]
          /\ rpc = "weight" /\ rpc' = "spread" /\ slot' = slot /\ limit' = limit
      BY <2>3 DEF ReadWeight
    <3>2. slot \in Slots /\ edges[slot] \in Slot /\ got.target \in Targets
      BY <1>3, <1>4, <3>1 DEF ReadsWrittenSlots
    <3>3. got' \in Slot /\ got'.target \in Targets
      BY <1>4, <3>1, <3>2 DEF Slot
    <3> QED
      BY <1>1, <1>3, <1>4, <3>1, <3>3 DEF ReaderInv, ReadsWrittenSlots
  <2>4. CASE Spread
    <3>1. /\ got' = Blank /\ rpc = "spread"
          /\ \/ slot < limit /\ slot' = slot + 1 /\ rpc' = "target" /\ limit' = limit
             \/ slot' = 0 /\ rpc' = "count" /\ limit' = 0
      BY <2>4 DEF Spread
    <3>2. /\ rpc' # "count" => (slot' \in 1 .. limit' /\ limit' = limit)
          /\ slot' \in 0 .. MaxFanout /\ limit' \in 0 .. MaxFanout
      BY <1>4, <3>1
    <3>3. \A s \in 1 .. limit' : s \in 1 .. limit
      BY <1>4, <3>1
    <3> QED
      BY <1>1, <1>3, <1>4, <3>1, <3>2, <3>3 DEF ReaderInv, ReadsWrittenSlots
  <2> QED
    BY <2>1, <2>2, <2>3, <2>4 DEF Read
<1>6. TableTypeOK'
  BY <1>1, <1>5 DEF TableInv, TableTypeOK, holder
<1> QED
  BY <1>2, <1>5, <1>6 DEF TableInv

LEMMA TableStep ==
    ASSUME TableInv, [TableNext]_tableVars
    PROVE  TableInv'
<1>1. CASE Write
  <2>1. CASE add_edge
    <3>1. PICK t \in Targets, s \in Strengths : Lock([kind |-> "add", target |-> t, weight |-> s])
      BY <2>1 DEF add_edge
    <3>2. IsOp'
      BY <3>1 DEF Lock, IsOp
    <3> QED
      BY <3>1, <3>2, LockStep
  <2>2. CASE apply_stdp
    <3>1. PICK t \in Targets, d \in {-1, 1} : Lock([kind |-> "stdp", target |-> t, weight |-> d])
      BY <2>2 DEF apply_stdp
    <3>2. IsOp'
      BY <3>1 DEF Lock, IsOp
    <3> QED
      BY <3>1, <3>2, LockStep
  <2>3. CASE prune
    <3>1. IsOp'
      BY <2>3 DEF prune, Lock, IsOp
    <3> QED
      BY <2>3, <3>1, LockStep DEF prune
  <2> QED
    BY <1>1, <2>1, <2>2, <2>3, StoreStep, UnlockStep, AddKnownStep, AddNewStep, AddFullStep,
       SortPickStep, SortShiftStep, SortPlaceStep, SortDoneStep, StdpStep, PruneKeepStep,
       PruneDropStep, PruneDoneStep DEF Write, Add
<1>2. CASE Read
  BY <1>2, ReadStep
<1>3. CASE UNCHANGED tableVars
  <2>1. UNCHANGED <<edges, edge_count, holder, reader, changes, before, jumbled>>
    BY <1>3 DEF tableVars
  <2>2. HolderInv'
    BY <2>1, HolderStays
  <2>3. TableTypeOK' /\ ReaderInv'
    BY <2>1 DEF TableInv, TableTypeOK, ReaderInv, ReadsWrittenSlots, holder, reader
  <2> QED
    BY <2>2, <2>3 DEF TableInv
<1> QED
  BY <1>1, <1>2, <1>3 DEF TableNext

THEOREM TableInductive == TableSpec => []TableInv
<1>1. TableInit => TableInv
  BY TableStarts
<1>2. TableInv /\ [TableNext]_tableVars => TableInv'
  BY TableStep
<1> QED
  BY <1>1, <1>2, PTL DEF TableSpec

\* The types hold, no unlocked table has a double or torn slot, and the reader
\* beside the writers takes no target from a slot never written, for every fan-out,
\* cap on the reader's walk and set of targets: add_edge(), _sort_edges(), prune()
\* and spread_activation().
THEOREM TablesStaySound == TableSpec => []TableSound
<1>1. ASSUME TableInv PROVE TableSound
  <2>1. ASSUME stage = "free" PROVE WholeWhenFree
    <3>1. PICK e \in [Slots -> Slot], c \in 0 .. MaxFanout : Pending(e, c) /\ Sound(e, c)
      BY <1>1 DEF TableInv, HolderInv
    <3>2. out = <<>>
      BY <2>1, <3>1 DEF Sound, InFree
    <3>3. Sound(edges, edge_count)
      BY <1>1, <3>2, Settled DEF TableInv
    <3> QED
      BY <2>1, <3>3 DEF Sound, InFree, Distinct, RealEdge, WholeWhenFree
  <2> QED
    BY <1>1, <2>1 DEF TableInv, ReaderInv, TableSound, WholeWhenFree
<1> QED
  BY <1>1, TableInductive, PTL

\* What a new edge replaces in a full table is a weakest one, and it is replaced
\* exactly when the new one is stronger, as long as no STDP has come since the last
\* sort: add_edge() and _sort_edges(), for every fan-out.
THEOREM StrongestAreKept == TableSpec => KeepsStrongest
<1> DEFINE stays == edges[MaxFanout].target
<1>1. ASSUME TableInv, AddFull, ~jumbled
      PROVE  /\ stays \in Weakest(before)
             /\ (out' # <<>>) <=> (before[stays] < op.weight)
  <2>1. /\ stage = "add" /\ out = <<>> /\ ec = MaxFanout
        /\ out' = IF op.weight > edges[ec].weight
                  THEN Copy(ec, Edge(op.target, op.weight)) ELSE <<>>
    BY <1>1 DEF AddFull, Continue
  <2>2. /\ Sorted(edges, 1 .. ec) /\ IsOp /\ op.kind = "add"
        /\ DOMAIN before = {edges[s].target : s \in 1 .. ec}
        /\ \A s \in 1 .. ec : /\ edges[s].target \in DOMAIN before
                              /\ before[edges[s].target] = edges[s].weight
    BY <1>1, <2>1, AtFirst
  <2>3. /\ MaxFanout \in 1 .. ec /\ \A s \in 1 .. ec : edges[s].weight \in Nat /\ s <= ec
    <3>1. \A s \in Slots : edges[s].weight \in Nat
      BY <1>1, <2>1, AtHolder
    <3> QED
      BY <2>1, <3>1, TableConstants DEF Slots
  <2>4. \A s \in 1 .. ec : edges[MaxFanout].weight <= edges[s].weight
    <3>1. ASSUME NEW s \in 1 .. ec PROVE edges[MaxFanout].weight <= edges[s].weight
      <4>1. s = MaxFanout \/ s < MaxFanout
        BY <2>1, <2>3
      <4> QED
        BY <2>2, <2>3, <4>1 DEF Sorted
    <3> QED
      BY <3>1
  <2>5. stays \in DOMAIN before /\ before[stays] = edges[MaxFanout].weight
    BY <2>2, <2>3
  <2>6. stays \in Weakest(before)
    BY <2>2, <2>4, <2>5 DEF Weakest
  <2>7. op.weight \in Nat
    BY <2>2, TableConstants DEF IsOp
  <2>8. Copy(ec, Edge(op.target, op.weight)) # <<>>
    BY DEF Copy
  <2> QED
    BY <2>1, <2>3, <2>5, <2>6, <2>7, <2>8
<1>2. TableInv /\ [TableNext]_tableVars =>
        [(AddFull /\ ~jumbled) =>
            LET it == edges[MaxFanout].target IN
            /\ it \in Weakest(before)
            /\ (out' # <<>>) <=> (before[it] < op.weight)]_tableVars
  BY <1>1
<1> QED
  BY <1>2, TableInductive, PTL DEF TableSpec, KeepsStrongest

----------------------------------------------------------------------------
(***************************************************************************)
(* EdgeTable implements EdgeSet                                             *)
(***************************************************************************)
Abstract == IF stage = "free" THEN Contents ELSE before

LEMMA OutcomeIsStep ==
    ASSUME NEW f, Outcome(op, before, f), IsOp, Abstract = before, Abstract' = f
    PROVE  Map!SetNext \/ Abstract' = Abstract
<1>1. \A S : Map!Cardinality(S) = Cardinality(S)
  BY DEF Map!Cardinality, Cardinality
<1>2. \A m, S : Map!Restrict(m, S) = Restrict(m, S)
  BY DEF Map!Restrict, Restrict
<1>3. \A w : Map!Capped(w) = Capped(w)
  BY DEF Map!Capped, Capped
<1>4. (IF stage = "free" THEN Contents ELSE before) = before
      /\ (IF stage = "free" THEN Contents ELSE before)' = f
  BY DEF Abstract
<1>5. CASE f = before
  BY <1>5
<1>6. ASSUME op.kind = "add", op.target \in DOMAIN before,
             f = Map!Put(before, op.target, Capped(before[op.target] + op.weight \div 2))
      PROVE  Map!SetNext
  <2>1. op.target \in Targets /\ op.weight \in Strengths
    BY <1>6 DEF IsOp
  <2>2. Map!Strengthen(op.target, op.weight)
    BY <1>3, <1>4, <1>6 DEF Map!Strengthen
  <2> QED
    BY <2>1, <2>2 DEF Map!SetNext
<1>7. ASSUME op.kind = "add", op.target \notin DOMAIN before,
             Cardinality(DOMAIN before) < MaxFanout, f = Map!Put(before, op.target, op.weight)
      PROVE  Map!SetNext
  <2>1. op.target \in Targets /\ op.weight \in Strengths
    BY <1>7 DEF IsOp
  <2>2. Map!Insert(op.target, op.weight)
    BY <1>1, <1>4, <1>7 DEF Map!Insert
  <2> QED
    BY <2>1, <2>2 DEF Map!SetNext
<1>8. ASSUME op.kind = "add", op.target \notin DOMAIN before,
             Cardinality(DOMAIN before) = MaxFanout,
             NEW v \in DOMAIN before, before[v] < op.weight,
             f = Map!Put(Restrict(before, DOMAIN before \ {v}), op.target, op.weight)
      PROVE  Map!SetNext
  <2>1. op.target \in Targets /\ op.weight \in Strengths
    BY <1>8 DEF IsOp
  <2>2. Map!Replace(op.target, op.weight)
    BY <1>1, <1>2, <1>4, <1>8 DEF Map!Replace
  <2> QED
    BY <2>1, <2>2 DEF Map!SetNext
<1>9. ASSUME op.kind = "stdp", op.target \in DOMAIN before, before[op.target] \in 0 .. MaxWeight,
             f = Map!Put(before, op.target, Clamped(before[op.target] + op.weight))
      PROVE  Map!SetNext
  <2>1. op.target \in Targets /\ op.weight \in {-1, 1} /\ MaxWeight \in Nat
    BY <1>9, TableConstants DEF IsOp
  <2>2. CASE op.weight = 1
    <3>1. Clamped(before[op.target] + op.weight) = Capped(before[op.target] + 1)
      BY <1>9, <2>1, <2>2 DEF Clamped
    <3>2. Map!Potentiate(op.target)
      BY <1>3, <1>4, <1>9, <3>1 DEF Map!Potentiate
    <3> QED
      BY <2>1, <3>2 DEF Map!SetNext
  <2>3. CASE op.weight = -1
    <3>1. Clamped(before[op.target] + op.weight) =
              IF before[op.target] = 0 THEN 0 ELSE before[op.target] - 1
      BY <1>9, <2>1, <2>3 DEF Clamped, Capped
    <3>2. Map!Depress(op.target)
      BY <1>4, <1>9, <3>1 DEF Map!Depress
    <3> QED
      BY <2>1, <3>2 DEF Map!SetNext
  <2> QED
    BY <2>1, <2>2, <2>3
<1>10. ASSUME f = Restrict(before, {t \in DOMAIN before : before[t] >= EdgePrune})
       PROVE  Map!SetNext
  BY <1>2, <1>4, <1>10 DEF Map!Prune, Map!SetNext
<1> QED
  BY <1>5, <1>6, <1>7, <1>8, <1>9, <1>10 DEF Outcome

LEMMA Mapped ==
    ASSUME TableInv, [TableNext]_tableVars
    PROVE  Map!SetNext \/ Abstract' = Abstract
<1>1. CASE Unlock
  <2>1. /\ stage = "unlock" /\ out = <<>> /\ stage' = "free" /\ op' = Free
        /\ edges' = edges /\ edge_count' = edge_count
    BY <1>1 DEF Unlock
  <2>2. Abstract = before /\ Abstract' = Contents
    BY <2>1 DEF Abstract, Contents
  <2>3. InUnlock(edges, edge_count) /\ IsOp
    BY <2>1, AtHolder DEF Sound
  <2>4. PICK f : Outcome(op, before, f) /\ IsMapOf(f, edges, 1 .. edge_count)
    BY <2>3 DEF InUnlock
  <2>5. IsMapOf(Contents, edges, 1 .. edge_count)
    BY <2>3, ContentsAreMap DEF InUnlock, Contents
  <2>6. f = Contents
    BY <2>4, <2>5, OneMap
  <2> QED
    BY <2>2, <2>3, <2>4, <2>6, OutcomeIsStep
<1>2. ASSUME NEW o, Lock(o), o.kind \in {"add", "stdp", "prune"} PROVE Abstract' = Abstract
  BY <1>2 DEF Lock, Abstract
<1>3. CASE add_edge \/ apply_stdp \/ prune
  BY <1>2, <1>3 DEF add_edge, apply_stdp, prune
<1>4. CASE Store
  <2>1. out # <<>> /\ stage' = stage /\ before' = before
    BY <1>4 DEF Store
  <2>2. stage # "free"
    <3>1. PICK e \in [Slots -> Slot], c \in 0 .. MaxFanout : Pending(e, c) /\ Sound(e, c)
      BY DEF TableInv, HolderInv
    <3> QED
      BY <2>1, <3>1 DEF Sound, InFree
  <2> QED
    BY <2>1, <2>2 DEF Abstract
<1>5. CASE Add \/ Stdp \/ PruneKeep \/ PruneDrop \/ PruneDone
  <2>1. stage # "free" /\ stage' # "free" /\ before' = before
    BY <1>5 DEF Add, AddKnown, AddNew, AddFull, SortPick, SortShift, SortPlace, SortDone, Stdp,
                PruneKeep, PruneDrop, PruneDone, Continue
  <2> QED
    BY <2>1 DEF Abstract
<1>6. CASE Read \/ UNCHANGED tableVars
  <2>1. UNCHANGED <<edges, edge_count, stage, before>>
    BY <1>6 DEF Read, ReadCount, ReadTarget, ReadWeight, Spread, holder, tableVars
  <2> QED
    BY <2>1 DEF Abstract, Contents
<1> QED
  BY <1>1, <1>3, <1>4, <1>5, <1>6 DEF TableNext, Write

\* Between two unlocks a table changes as a map from targets to weights does, by one
\* whole operation, although its slots move one field at a time beside a reader:
\* add_edge(), apply_stdp() and prune() implement EdgeSet.
THEOREM TablesImplementMaps == TableSpec => ImplementsEdgeSet
<1>1. TableInit => Map!SetInit
  <2>1. ASSUME TableInit PROVE Map!SetInit
    <3>1. stage = "free" /\ edge_count = 0
      BY <2>1 DEF TableInit
    <3>2. Contents = [t \in {} |-> 0]
      BY <3>1 DEF Contents
    <3> QED
      BY <3>1, <3>2 DEF Map!SetInit
  <2> QED
    BY <2>1
<1>2. TableInv /\ [TableNext]_tableVars =>
          [Map!SetNext]_(IF stage = "free" THEN Contents ELSE before)
  BY Mapped DEF Abstract
<1> QED
  BY <1>1, <1>2, TableInductive, PTL DEF TableSpec, ImplementsEdgeSet, Map!SetSpec
=============================================================================

------------------------- MODULE PersistenceProofs --------------------------
(***************************************************************************)
(* Proofs about what the daemon keeps on disk: the brain file (BrainFile),   *)
(* for any number of words, sentences and deaths of the process, and the     *)
(* programs it writes for itself (Artefacts), for every set of artefacts,    *)
(* sizes, caps and bounds.                                                   *)
(***************************************************************************)
EXTENDS Artefacts, BrainFile, FiniteSetTheorems, SequenceTheorems, TLAPS

----------------------------------------------------------------------------
(***************************************************************************)
(* The invariant                                                            *)
(***************************************************************************)
\* A brain with s nodes spawned, and one whose edges join nodes it has.
BrainType(b, s) ==
    /\ b \in Brains
    /\ b.node_count \in MaxWords + 1 .. MaxWords + 1 + s

BrainOK(b, s) ==
    /\ BrainType(b, s)
    /\ \A p \in b.edges \union b.inverse_edges : p[1] <= b.node_count /\ p[2] <= b.node_count

\* What sleep() writes of a brain: a header, its words, its nodes.
WordCount(b) == Cardinality(b.words)
Whole(b) == 1 + WordCount(b) + b.node_count
Header(b) == [kind |-> "header", node_count |-> b.node_count,
              cortex_active_count |-> WordCount(b), alive_node_count |-> b.node_count]
Node(b, k) == [kind |-> "node", id |-> k, edges |-> Ends(b.edges, k),
               inverse_edges |-> Ends(b.inverse_edges, k)]

\* f is what has been written of b when Len(f) records of it are on the disk.
IsPartOf(f, b) ==
    /\ f \in Seq(Records) /\ Len(f) <= Whole(b)
    /\ Len(f) >= 1 => f[1] = Header(b)
    /\ \A i \in 2 .. Len(f) :
           /\ i <= 1 + WordCount(b) => f[i].kind = "word" /\ f[i].id \in b.words
           /\ i > 1 + WordCount(b) => f[i] = Node(b, i - 1 - WordCount(b))
    /\ Len(f) >= 1 + WordCount(b) =>
           \A w \in b.words : \E i \in 2 .. 1 + WordCount(b) : f[i].id = w

\* A file that is there, whatever fell into its save.
IsFile(f, s) ==
    /\ f \in Seq(Records)
    /\ \A i \in 1 .. Len(f) : f[i].kind = "header" <=> i = 1
    /\ Len(f) >= 1 => f[1].node_count \in MaxWords + 1 .. MaxWords + 1 + s

\* The nodes spawned so far: one with each sentence, but for the one under way.
Pending == \/ lpc \in {"second", "spawn"}
           \/ lpc \in {"link", "back"} /\ pair[1] \in Words /\ pair[2] \in Words
Spawned == IF Pending THEN sentences - 1 ELSE sentences

\* The learner: whom it links exists.
LearnerInv ==
    /\ lpc \in {"idle", "second", "link", "back", "spawn"}
    /\ pair \in Pairs \union {<<0, 0>>} /\ word \in Words \union {0}
    /\ lpc # "idle" => mpc # "boot" /\ word \in Words /\ sentences >= 1
    /\ lpc \in {"link", "back"} =>
           /\ pair \in Pairs
           /\ ~brain_mixed => pair[1] <= brain.node_count /\ pair[2] <= brain.node_count

\* The file is a part of the snapshot, and all of it if the save was finished,
\* unless a sentence was learned meanwhile.
FileInv ==
    \/ file = NoFile /\ snapshot = NoFile /\ ~interrupted /\ ~file_mixed
    \/ /\ IsFile(file, Spawned) /\ snapshot \in Brains
       /\ ~file_mixed =>
              /\ BrainOK(snapshot, Spawned) /\ IsPartOf(file, snapshot)
              /\ ~interrupted => Len(file) = Whole(snapshot)

\* How far sleep() has got.
SoFar(b, a) == {w \in b.words : w < a}
HasWords(f, b, a) == \A w \in SoFar(b, a) : \E i \in 2 .. Len(f) : f[i].id = w

Writing == mpc \in {"header", "words", "nodes"}
SavingInv ==
    /\ mpc \in {"header", "words", "nodes", "close"} => interrupted /\ file # NoFile
    /\ mpc = "header" => Len(file) = 0 /\ ~disk_full
    /\ mpc = "words" => at \in 1 .. MaxWords
    /\ mpc = "nodes" => at \in 1 .. node_count
    /\ mpc \in {"words", "nodes"} =>
           /\ node_count \in MaxWords + 1 .. MaxWords + 1 + Spawned
           /\ ~disk_full => Len(file) >= 1

\* And what it has written, when no sentence has been learned meanwhile.
WrittenInv ==
    ~file_mixed =>
        /\ Writing => snapshot = brain /\ ~brain_mixed
        /\ mpc = "words" =>
               /\ node_count = brain.node_count
               /\ Len(file) <= 1 + Cardinality(SoFar(brain, at))
               /\ ~disk_full =>
                      /\ Len(file) = 1 + Cardinality(SoFar(brain, at))
                      /\ HasWords(file, brain, at)
        /\ mpc = "nodes" =>
               /\ node_count = brain.node_count
               /\ Len(file) <= WordCount(brain) + at
               /\ ~disk_full => Len(file) = WordCount(brain) + at
        /\ mpc = "close" => (~disk_full => Len(file) = Whole(snapshot))

CountersInv ==
    /\ mpc \in {"boot", "loop", "header", "words", "nodes", "close"}
    /\ at \in 0 .. MaxWords + 1 + MaxSentences /\ node_count \in Nat /\ disk_full \in BOOLEAN
    /\ sentences \in 0 .. MaxSentences /\ crashes \in 0 .. MaxCrashes
    /\ interrupted \in BOOLEAN /\ file_mixed \in BOOLEAN /\ brain_mixed \in BOOLEAN

BrainInv ==
    /\ BrainType(brain, Spawned) /\ (~brain_mixed => BrainOK(brain, Spawned))
    /\ CountersInv /\ LearnerInv /\ FileInv /\ SavingInv /\ WrittenInv

----------------------------------------------------------------------------
(***************************************************************************)
(* What can be read of a file                                               *)
(***************************************************************************)
LEMMA BrainConstants ==
    /\ MaxWords \in Nat /\ MaxWords >= 2 /\ MaxSentences \in Nat /\ MaxCrashes \in Nat
    /\ NoFile \notin Brains /\ NoFile \notin Seq(Records)
    /\ Mixed \notin Brains \union {NoFile}
BY BrainAssumption

LEMMA WordCountType ==
    ASSUME NEW b \in Brains
    PROVE  /\ WordCount(b) \in Nat
           /\ \A V \in SUBSET b.words : /\ IsFiniteSet(V) /\ Cardinality(V) \in Nat
                                        /\ Cardinality(V) <= WordCount(b)
                                        /\ Cardinality(V) = WordCount(b) => V = b.words
<1>1. IsFiniteSet(1 .. MaxWords)
  BY FS_Interval, BrainConstants
<1>2. b.words \in SUBSET (1 .. MaxWords)
  BY DEF Brains, Words
<1>3. IsFiniteSet(b.words)
  BY <1>1, <1>2, FS_Subset
<1>4. ASSUME NEW V \in SUBSET b.words
      PROVE  /\ IsFiniteSet(V) /\ Cardinality(V) \in Nat
             /\ Cardinality(V) <= WordCount(b)
             /\ Cardinality(V) = WordCount(b) => V = b.words
  BY <1>3, FS_Subset, FS_CardinalityType DEF WordCount
<1> QED
  BY <1>3, <1>4, FS_CardinalityType DEF WordCount

LEMMA PartTypes ==
    ASSUME NEW s \in Nat, NEW b, BrainOK(b, s), NEW f, IsPartOf(f, b)
    PROVE  /\ b \in Brains /\ b.node_count \in Nat /\ b.node_count > MaxWords
           /\ WordCount(b) \in Nat /\ Whole(b) \in Nat
           /\ f \in Seq(Records) /\ Len(f) \in Nat /\ Len(f) <= Whole(b)
<1>1. b \in Brains /\ b.node_count \in MaxWords + 1 .. MaxWords + 1 + s
  BY DEF BrainOK, BrainType
<1>2. WordCount(b) \in Nat
  BY <1>1, WordCountType
<1>3. b.node_count \in Nat /\ b.node_count > MaxWords
  BY <1>1, BrainConstants
<1>4. Whole(b) \in Nat
  BY <1>2, <1>3 DEF Whole
<1>5. f \in Seq(Records) /\ Len(f) <= Whole(b)
  BY DEF IsPartOf
<1> QED
  BY <1>1, <1>2, <1>3, <1>4, <1>5

\* wake() takes every record for what it is, to the end of the file.
LEMMA PartReadsToEnd ==
    ASSUME NEW s \in Nat, NEW b, BrainOK(b, s), NEW f, IsPartOf(f, b), f # <<>>
    PROVE  /\ Len(f) >= 1 /\ f[1] = Header(b)
           /\ Reads(f) = 2 .. Len(f)
           /\ Readable(f) <=> Len(f) = Whole(b)
           /\ ~Misread(f)
<1>t. /\ b.node_count \in Nat /\ WordCount(b) \in Nat /\ Whole(b) \in Nat
      /\ f \in Seq(Records) /\ Len(f) \in Nat /\ Len(f) <= Whole(b)
  BY PartTypes
<1>1. Len(f) >= 1
  BY <1>t
<1>2. f[1] = Header(b)
  BY <1>1 DEF IsPartOf
<1>3. f[1].cortex_active_count = WordCount(b) /\ f[1].alive_node_count = b.node_count
  BY <1>2 DEF Header
<1>4. Announced(f) = Whole(b)
  BY <1>3 DEF Announced, Whole
<1>5. ASSUME NEW i \in 2 .. Len(f) PROVE f[i].kind = Expected(f, i)
  <2>1. CASE i <= 1 + WordCount(b)
    BY <1>3, <2>1 DEF IsPartOf, Expected
  <2>2. CASE i > 1 + WordCount(b)
    <3>1. f[i] = Node(b, i - 1 - WordCount(b))
      BY <2>2 DEF IsPartOf
    <3>2. ~(i <= 1 + WordCount(b))
      BY <1>t, <2>2
    <3> QED
      BY <1>3, <3>1, <3>2 DEF Node, Expected
  <2> QED
    BY <1>t, <2>1, <2>2
<1>6. Reads(f) = 2 .. Len(f)
  <2>1. \A i \in 2 .. Len(f) : i <= Announced(f) /\ 2 .. i \subseteq 2 .. Len(f)
    BY <1>t, <1>4
  <2> QED
    BY <1>5, <2>1 DEF Reads
<1>7. ~Misread(f)
  BY <1>5 DEF Misread
<1>8. HasHeader(f)
  BY <1>t, BrainConstants DEF HasHeader
<1>9. Readable(f) <=> Len(f) = Whole(b)
  <2>1. Len(f) = Whole(b) => \A k \in 2 .. Announced(f) : f[k].kind = Expected(f, k)
    BY <1>4, <1>5
  <2>2. Announced(f) <= Len(f) <=> Len(f) = Whole(b)
    BY <1>t, <1>4
  <2> QED
    BY <1>8, <2>1, <2>2 DEF Readable
<1> QED
  BY <1>1, <1>2, <1>6, <1>7, <1>9

LEMMA NothingToRead ==
    /\ ~Readable(<<>>) /\ ~Readable(NoFile) /\ ~Misread(<<>>) /\ ~Misread(NoFile)
BY DEF Readable, Misread, HasHeader

\* Of the nodes, wake() gets those that are there, with all their edges.
Kept(b, n) == {p \in b.edges : p[1] <= n}
KeptInverse(b, n) == {p \in b.inverse_edges : p[1] <= n}

LEMMA PartLoads ==
    ASSUME NEW s \in Nat, NEW b, BrainOK(b, s), NEW f, IsPartOf(f, b), f # <<>>
    PROVE  LET n == Len(f) - 1 - WordCount(b) IN
           /\ Loaded(f) = [words |-> Loaded(f).words, node_count |-> b.node_count,
                           edges |-> Kept(b, n), inverse_edges |-> KeptInverse(b, n)]
           /\ Loaded(f).words \subseteq b.words
           /\ Len(f) >= 1 + WordCount(b) => Loaded(f).words = b.words
<1>t. /\ b \in Brains /\ b.node_count \in Nat /\ WordCount(b) \in Nat /\ Whole(b) \in Nat
      /\ f \in Seq(Records) /\ Len(f) \in Nat /\ Len(f) <= Whole(b)
  BY PartTypes
<1>h. /\ Len(f) >= 1 /\ f[1] = Header(b) /\ Reads(f) = 2 .. Len(f)
  BY PartReadsToEnd
<1> DEFINE W == WordCount(b)
           n == Len(f) - 1 - W
           read == {f[i] : i \in 2 .. Len(f)}
           nodes == {r \in read : r.kind = "node"}
<1>1. /\ Loaded(f) = [words |-> {r.id : r \in read \ nodes},
                      node_count |-> f[1].node_count,
                      edges |-> UNION {{r.id} \X r.edges : r \in nodes},
                      inverse_edges |-> UNION {{r.id} \X r.inverse_edges : r \in nodes}]
      /\ f[1].node_count = b.node_count
  BY <1>h DEF Loaded, Header
<1>2. \A i \in 2 .. Len(f) : /\ i <= 1 + W => f[i].kind = "word" /\ f[i].id \in b.words
                             /\ i > 1 + W => f[i] = Node(b, i - 1 - W)
  BY DEF IsPartOf
<1>3. ASSUME NEW k \in 1 .. n PROVE Node(b, k) \in nodes
  <2> DEFINE i == k + 1 + W
  <2>1. i \in 2 .. Len(f) /\ i > 1 + W /\ i - 1 - W = k
    BY <1>t
  <2> HIDE DEF i
  <2>2. f[i] = Node(b, i - 1 - W)
    BY <1>2, <2>1
  <2> QED
    BY <2>1, <2>2 DEF Node
<1>4. ASSUME NEW r \in nodes PROVE \E k \in 1 .. n : r = Node(b, k)
  <2>1. PICK i \in 2 .. Len(f) : r = f[i]
    OBVIOUS
  <2>2. i > 1 + W
    BY <1>t, <1>2, <2>1
  <2>3. r = Node(b, i - 1 - W)
    BY <1>2, <2>1, <2>2
  <2>4. i - 1 - W \in 1 .. n
    BY <1>t, <2>2
  <2> QED
    BY <2>3, <2>4
<1>5. \A r \in read \ nodes : r.id \in b.words
  <2> TAKE r \in read \ nodes
  <2>1. PICK i \in 2 .. Len(f) : r = f[i]
    OBVIOUS
  <2>2. ~(i > 1 + W)
    <3>1. ASSUME i > 1 + W PROVE FALSE
      <4>1. r = Node(b, i - 1 - W)
        BY <1>2, <2>1, <3>1
      <4>2. r.kind = "node"
        BY <4>1 DEF Node
      <4> QED
        BY <4>2
    <3> QED
      BY <3>1
  <2> QED
    BY <1>t, <1>2, <2>1, <2>2
<1>6. ASSUME Len(f) >= 1 + W, NEW w \in b.words
      PROVE  \E r \in read \ nodes : r.id = w
  <2>1. PICK i \in 2 .. 1 + W : f[i].id = w
    BY <1>6 DEF IsPartOf
  <2>2. i \in 2 .. Len(f) /\ i <= 1 + W
    BY <1>t, <1>6
  <2>3. f[i] \in read /\ f[i].kind = "word"
    BY <1>2, <2>2
  <2> QED
    BY <2>1, <2>3
<1> HIDE DEF nodes, read
<1>7. UNION {{r.id} \X r.edges : r \in nodes} = Kept(b, n)
  <2>1. ASSUME NEW p \in Kept(b, n) PROVE \E r \in nodes : p \in {r.id} \X r.edges
    <3>1. p \in Pairs /\ p \in b.edges /\ p[1] <= n
      BY <1>t DEF Kept, Brains
    <3>2. p = <<p[1], p[2]>> /\ p[1] \in 1 .. n /\ p[2] \in Nodes
      BY <1>t, <3>1, BrainConstants DEF Pairs, Nodes
    <3>3. p[2] \in Node(b, p[1]).edges /\ Node(b, p[1]).id = p[1]
      BY <3>1 DEF Node, Ends
    <3> QED
      BY <1>3, <3>2, <3>3
  <2>2. ASSUME NEW r \in nodes, NEW p \in {r.id} \X r.edges PROVE p \in Kept(b, n)
    <3>1. PICK k \in 1 .. n : r = Node(b, k)
      BY <1>4
    <3>2. r.id = k /\ r.edges = {q[2] : q \in {x \in b.edges : x[1] = k}}
      BY <3>1 DEF Node, Ends
    <3>3. p[1] = k /\ p = <<p[1], p[2]>> /\ p[2] \in r.edges
      BY <3>2
    <3>4. PICK q \in b.edges : q[1] = k /\ q[2] = p[2]
      BY <3>2, <3>3
    <3>5. q = <<q[1], q[2]>>
      BY <1>t, <3>4 DEF Brains, Pairs
    <3>6. p = q /\ k <= n
      BY <3>3, <3>4, <3>5
    <3> QED
      BY <3>4, <3>6 DEF Kept
  <2> QED
    BY <2>1, <2>2
<1>8. UNION {{r.id} \X r.inverse_edges : r \in nodes} = KeptInverse(b, n)
  <2>1. ASSUME NEW p \in KeptInverse(b, n)
        PROVE  \E r \in nodes : p \in {r.id} \X r.inverse_edges
    <3>1. p \in Pairs /\ p \in b.inverse_edges /\ p[1] <= n
      BY <1>t DEF KeptInverse, Brains
    <3>2. p = <<p[1], p[2]>> /\ p[1] \in 1 .. n /\ p[2] \in Nodes
      BY <1>t, <3>1, BrainConstants DEF Pairs, Nodes
    <3>3. p[2] \in Node(b, p[1]).inverse_edges /\ Node(b, p[1]).id = p[1]
      BY <3>1 DEF Node, Ends
    <3> QED
      BY <1>3, <3>2, <3>3
  <2>2. ASSUME NEW r \in nodes, NEW p \in {r.id} \X r.inverse_edges
        PROVE  p \in KeptInverse(b, n)
    <3>1. PICK k \in 1 .. n : r = Node(b, k)
      BY <1>4
    <3>2. r.id = k /\ r.inverse_edges = {q[2] : q \in {x \in b.inverse_edges : x[1] = k}}
      BY <3>1 DEF Node, Ends
    <3>3. p[1] = k /\ p = <<p[1], p[2]>> /\ p[2] \in r.inverse_edges
      BY <3>2
    <3>4. PICK q \in b.inverse_edges : q[1] = k /\ q[2] = p[2]
      BY <3>2, <3>3
    <3>5. q = <<q[1], q[2]>>
      BY <1>t, <3>4 DEF Brains, Pairs
    <3>6. p = q /\ k <= n
      BY <3>3, <3>4, <3>5
    <3> QED
      BY <3>4, <3>6 DEF KeptInverse
  <2> QED
    BY <2>1, <2>2
<1>9. {r.id : r \in read \ nodes} \subseteq b.words
  BY <1>5
<1>10. Len(f) >= 1 + W => {r.id : r \in read \ nodes} = b.words
  BY <1>5, <1>6
<1>11. Loaded(f).words = {r.id : r \in read \ nodes}
  BY <1>1
<1>12. Loaded(f) = [words |-> Loaded(f).words, node_count |-> b.node_count,
                    edges |-> Kept(b, n), inverse_edges |-> KeptInverse(b, n)]
  BY <1>1, <1>7, <1>8, <1>11
<1> QED
  BY <1>9, <1>10, <1>11, <1>12

\* A whole file gives the brain back; a part of one, a brain with the part's edges.
LEMMA WholeLoads ==
    ASSUME NEW s \in Nat, NEW b, BrainOK(b, s), NEW f, IsPartOf(f, b), Len(f) = Whole(b)
    PROVE  Readable(f) /\ Loaded(f) = b
<1>t. /\ b \in Brains /\ b.node_count \in Nat /\ WordCount(b) \in Nat
      /\ f \in Seq(Records) /\ Len(f) \in Nat
      /\ \A p \in b.edges \union b.inverse_edges : p[1] <= b.node_count
  BY PartTypes DEF BrainOK
<1>1. f # <<>> /\ Len(f) - 1 - WordCount(b) = b.node_count /\ Len(f) >= 1 + WordCount(b)
  BY <1>t DEF Whole
<1>2. Kept(b, b.node_count) = b.edges /\ KeptInverse(b, b.node_count) = b.inverse_edges
  BY <1>t DEF Kept, KeptInverse
<1>3. Loaded(f) = [words |-> b.words, node_count |-> b.node_count,
                   edges |-> b.edges, inverse_edges |-> b.inverse_edges]
  BY <1>1, <1>2, PartLoads
<1>4. b = [words |-> b.words, node_count |-> b.node_count,
           edges |-> b.edges, inverse_edges |-> b.inverse_edges]
  BY <1>t DEF Brains
<1> QED
  BY <1>1, <1>3, <1>4, PartReadsToEnd

LEMMA PartLoadsBrain ==
    ASSUME NEW s \in Nat, NEW b, BrainOK(b, s), NEW f, IsPartOf(f, b), f # <<>>
    PROVE  BrainOK(Loaded(f), s)
<1>t. /\ b \in Brains /\ b.node_count \in MaxWords + 1 .. MaxWords + 1 + s
      /\ \A p \in b.edges \union b.inverse_edges : p[1] <= b.node_count /\ p[2] <= b.node_count
      /\ b.words \subseteq Words /\ b.edges \subseteq Pairs /\ b.inverse_edges \subseteq Pairs
      /\ b.node_count \in Nat
  BY DEF BrainOK, BrainType, Brains
<1> DEFINE n == Len(f) - 1 - WordCount(b)
<1>1. /\ Loaded(f) = [words |-> Loaded(f).words, node_count |-> b.node_count,
                      edges |-> Kept(b, n), inverse_edges |-> KeptInverse(b, n)]
      /\ Loaded(f).words \subseteq b.words
  BY PartLoads
<1> HIDE DEF n
<1>2. Kept(b, n) \subseteq b.edges /\ KeptInverse(b, n) \subseteq b.inverse_edges
  BY DEF Kept, KeptInverse
<1> DEFINE l == Loaded(f)
<1>3. l.node_count = b.node_count /\ l.edges \subseteq b.edges
      /\ l.inverse_edges \subseteq b.inverse_edges
  BY <1>1, <1>2
<1>4. l \in Brains
  BY <1>t, <1>1, <1>2 DEF Brains
<1> HIDE DEF l
<1> QED
  BY <1>t, <1>3, <1>4 DEF BrainOK, BrainType, l

\* A beginning of a part is a part.
LEMMA PartOfPart ==
    ASSUME NEW s \in Nat, NEW b, BrainOK(b, s), NEW f, IsPartOf(f, b), NEW m \in 0 .. Len(f)
    PROVE  IsPartOf(SubSeq(f, 1, m), b) /\ Len(SubSeq(f, 1, m)) = m
<1>t. /\ WordCount(b) \in Nat /\ Whole(b) \in Nat
      /\ f \in Seq(Records) /\ Len(f) \in Nat /\ Len(f) <= Whole(b)
  BY PartTypes
<1> DEFINE g == SubSeq(f, 1, m)
<1>1. g \in Seq(Records) /\ Len(g) = m /\ \A i \in 1 .. m : g[i] = f[i]
  BY <1>t
<1> HIDE DEF g
<1>2. Len(g) >= 1 => g[1] = Header(b)
  BY <1>t, <1>1 DEF IsPartOf
<1>3. \A i \in 2 .. m : i \in 2 .. Len(f) /\ g[i] = f[i]
  BY <1>t, <1>1
<1>4. \A i \in 2 .. m :
           /\ i <= 1 + WordCount(b) => g[i].kind = "word" /\ g[i].id \in b.words
           /\ i > 1 + WordCount(b) => g[i] = Node(b, i - 1 - WordCount(b))
  BY <1>3 DEF IsPartOf
<1>5. ASSUME m >= 1 + WordCount(b), NEW w \in b.words
      PROVE  \E i \in 2 .. 1 + WordCount(b) : g[i].id = w
  <2>1. PICK i \in 2 .. 1 + WordCount(b) : f[i].id = w
    BY <1>t, <1>5 DEF IsPartOf
  <2>2. i \in 2 .. m
    BY <1>t, <1>5
  <2> QED
    BY <1>3, <2>1, <2>2
<1> QED
  BY <1>t, <1>1, <1>2, <1>4, <1>5 DEF IsPartOf, g

\* A part of what is written of a brain is a file.
LEMMA PartIsFile ==
    ASSUME NEW s \in Nat, NEW b, BrainOK(b, s), NEW f, IsPartOf(f, b)
    PROVE  IsFile(f, s)
<1>t. /\ WordCount(b) \in Nat /\ f \in Seq(Records) /\ Len(f) \in Nat
      /\ b.node_count \in MaxWords + 1 .. MaxWords + 1 + s
  BY PartTypes DEF BrainOK, BrainType
<1>1. ASSUME NEW i \in 1 .. Len(f) PROVE f[i].kind = "header" <=> i = 1
  <2>1. CASE i = 1
    BY <1>t, <2>1 DEF IsPartOf, Header
  <2>2. CASE i # 1
    <3>1. i \in 2 .. Len(f)
      BY <1>t, <2>2
    <3>2. CASE i <= 1 + WordCount(b)
      BY <2>2, <3>1, <3>2 DEF IsPartOf
    <3>3. CASE i > 1 + WordCount(b)
      <4>1. f[i] = Node(b, i - 1 - WordCount(b))
        BY <3>1, <3>3 DEF IsPartOf
      <4> QED
        BY <2>2, <4>1 DEF Node
    <3> QED
      BY <1>t, <3>2, <3>3
  <2> QED
    BY <2>1, <2>2
<1>2. Len(f) >= 1 => f[1].node_count = b.node_count
  BY DEF IsPartOf, Header
<1> QED
  BY <1>t, <1>1, <1>2 DEF IsFile

\* Whatever a file holds, wake() makes a brain of it.
LEMMA FileLoads ==
    ASSUME NEW s \in Nat, NEW f, IsFile(f, s), HasHeader(f)
    PROVE  BrainType(Loaded(f), s)
<1> DEFINE read == {f[i] : i \in Reads(f)}
           nodes == {r \in read : r.kind = "node"}
<1>1. f \in Seq(Records) /\ Len(f) \in Nat /\ Len(f) >= 1
  BY DEF IsFile, HasHeader
<1>2. f[1].node_count \in MaxWords + 1 .. MaxWords + 1 + s
  BY <1>1 DEF IsFile
<1>3. \A r \in read : r \in Records /\ r.kind # "header"
  BY <1>1 DEF Reads, IsFile
<1>4. \A r \in nodes : r \in NodeRecords
  BY <1>3 DEF Records, Headers, WordRecords
<1>5. \A r \in read \ nodes : r \in WordRecords
  BY <1>3 DEF Records, Headers, NodeRecords
<1>6. Loaded(f) = [words |-> {r.id : r \in read \ nodes},
                   node_count |-> f[1].node_count,
                   edges |-> UNION {{r.id} \X r.edges : r \in nodes},
                   inverse_edges |-> UNION {{r.id} \X r.inverse_edges : r \in nodes}]
  BY DEF Loaded
<1> HIDE DEF read, nodes
<1>7. {r.id : r \in read \ nodes} \subseteq Words
  BY <1>5 DEF WordRecords
<1>8. /\ UNION {{r.id} \X r.edges : r \in nodes} \subseteq Pairs
      /\ UNION {{r.id} \X r.inverse_edges : r \in nodes} \subseteq Pairs
  <2>1. \A r \in nodes : /\ r.id \in Nodes /\ r.edges \subseteq Nodes
                         /\ r.inverse_edges \subseteq Nodes
    BY <1>4 DEF NodeRecords
  <2>2. \A r \in nodes : {r.id} \X r.edges \subseteq Pairs /\ {r.id} \X r.inverse_edges \subseteq Pairs
    BY <2>1 DEF Pairs
  <2> QED
    BY <2>2
<1>9. f[1].node_count \in Nat
  BY <1>2, BrainConstants
<1> QED
  BY <1>2, <1>6, <1>7, <1>8, <1>9 DEF BrainType, Brains

LEMMA FilePrefix ==
    ASSUME NEW s \in Nat, NEW f, IsFile(f, s), NEW m \in 0 .. Len(f)
    PROVE  IsFile(SubSeq(f, 1, m), s)
<1>1. f \in Seq(Records) /\ Len(f) \in Nat
  BY DEF IsFile
<1> DEFINE g == SubSeq(f, 1, m)
<1>2. g \in Seq(Records) /\ Len(g) = m /\ \A i \in 1 .. m : g[i] = f[i]
  BY <1>1
<1> HIDE DEF g
<1>3. \A i \in 1 .. m : i \in 1 .. Len(f)
  BY <1>1
<1>4. Len(g) >= 1 => Len(f) >= 1 /\ g[1] = f[1]
  BY <1>1, <1>2
<1>5. \A i \in 1 .. Len(g) : g[i].kind = "header" <=> i = 1
  BY <1>2, <1>3 DEF IsFile
<1> QED
  BY <1>2, <1>4, <1>5 DEF IsFile, g

LEMMA FileLater ==
    ASSUME NEW f, NEW s \in Nat, IsFile(f, s), NEW t \in Nat, s <= t
    PROVE  IsFile(f, t)
BY BrainConstants DEF IsFile

LEMMA FileGrows ==
    ASSUME NEW s \in Nat, NEW f, IsFile(f, s), Len(f) >= 1,
           NEW r \in Records, r.kind # "header"
    PROVE  IsFile(f \o <<r>>, s) /\ Len(f \o <<r>>) >= 1
<1>1. f \in Seq(Records) /\ Len(f) \in Nat
  BY DEF IsFile
<1> DEFINE g == f \o <<r>>
<1>2. /\ g \in Seq(Records) /\ Len(g) = Len(f) + 1
      /\ \A i \in 1 .. Len(f) : g[i] = f[i]
      /\ g[Len(f) + 1] = r
  BY <1>1
<1> HIDE DEF g
<1>3. ASSUME NEW i \in 1 .. Len(g) PROVE g[i].kind = "header" <=> i = 1
  <2>1. CASE i = Len(f) + 1
    BY <1>1, <1>2, <2>1
  <2>2. CASE i # Len(f) + 1
    <3>1. i \in 1 .. Len(f)
      BY <1>1, <1>2, <2>2
    <3> QED
      BY <1>2, <3>1 DEF IsFile
  <2> QED
    BY <2>1, <2>2
<1>4. g[1].node_count \in MaxWords + 1 .. MaxWords + 1 + s
  BY <1>1, <1>2 DEF IsFile
<1> QED
  BY <1>1, <1>2, <1>3, <1>4 DEF IsFile, g

----------------------------------------------------------------------------
(***************************************************************************)
(* Learning                                                                 *)
(***************************************************************************)
LEMMA NewbornOK == \A s \in Nat : BrainOK(Newborn, s)
<1> DEFINE links == {<<1, 2>>, <<MaxWords + 1, 2>>}
<1>1. Newborn = [words |-> {1, 2}, node_count |-> MaxWords + 1, edges |-> links,
                 inverse_edges |-> {<<l[2], l[1]>> : l \in links}]
  BY DEF Newborn
<1>2. links \subseteq Pairs /\ {<<l[2], l[1]>> : l \in links} \subseteq Pairs
  BY BrainConstants DEF Pairs, Nodes
<1>3. Newborn \in Brains
  BY <1>1, <1>2, BrainConstants DEF Brains, Words
<1>4. \A p \in links \union {<<l[2], l[1]>> : l \in links} :
          p[1] <= MaxWords + 1 /\ p[2] <= MaxWords + 1
  BY BrainConstants
<1> HIDE DEF links
<1>5. \A s \in Nat : MaxWords + 1 \in MaxWords + 1 .. MaxWords + 1 + s
  BY BrainConstants
<1> QED
  BY <1>1, <1>3, <1>4, <1>5 DEF BrainOK, BrainType

LEMMA BrainLater ==
    ASSUME NEW b, NEW s \in Nat, NEW t \in Nat, s <= t
    PROVE  /\ BrainType(b, s) => BrainType(b, t)
           /\ BrainOK(b, s) => BrainOK(b, t)
BY BrainConstants DEF BrainOK, BrainType

LEMMA AddedType ==
    ASSUME NEW table \in SUBSET Pairs, NEW p \in Pairs, NEW t \in Added(table, p)
    PROVE  t \in SUBSET Pairs /\ t \subseteq table \union {p}
<1>1. CASE p \in table \/ Cardinality(Ends(table, p[1])) < MAX_FANOUT
  BY <1>1 DEF Added
<1>2. CASE ~(p \in table \/ Cardinality(Ends(table, p[1])) < MAX_FANOUT)
  BY <1>2 DEF Added
<1> QED
  BY <1>1, <1>2

\* How many nodes have been spawned is known, and never shrinks.
LEMMA SpawnedType ==
    ASSUME CountersInv, LearnerInv
    PROVE  Spawned \in Nat /\ Spawned <= sentences /\ Spawned <= MaxSentences
<1>1. sentences \in Nat /\ sentences <= MaxSentences
  BY BrainConstants DEF CountersInv
<1>2. Pending => sentences >= 1
  BY DEF Pending, LearnerInv
<1> QED
  BY <1>1, <1>2, BrainConstants DEF Spawned

LEMMA LearnerSteps ==
    ASSUME BrainInv, Learn
    PROVE  /\ UNCHANGED <<file, mpc, at, node_count, disk_full, crashes, snapshot,
                          interrupted, brain_mixed>>
           /\ file_mixed' = (file_mixed \/ Writing)
           /\ CountersInv' /\ Spawned' \in Nat /\ Spawned <= Spawned'
           /\ mpc # "boot"
<1>1. /\ UNCHANGED <<file, mpc, at, node_count, disk_full, crashes, snapshot,
                     interrupted, brain_mixed>>
      /\ file_mixed' = (file_mixed \/ Writing)
  BY DEF Learn, PerceiveFirst, PerceiveSecond, Link, LinkBack, SpawnNode, Overheard,
     saving, Writing
<1>t. /\ sentences \in 0 .. MaxSentences /\ sentences \in Nat /\ CountersInv /\ LearnerInv
      /\ BrainType(brain, Spawned)
      /\ \A w \in Words : w \in Nat /\ w >= 1 /\ w <= MaxWords
  BY BrainConstants DEF BrainInv, CountersInv, Words
<1>2. mpc # "boot"
  BY <1>t DEF Learn, PerceiveFirst, PerceiveSecond, Link, LinkBack, SpawnNode, LearnerInv
<1>3. sentences' \in 0 .. MaxSentences
  <2>1. CASE PerceiveFirst
    BY <1>t, <2>1, BrainConstants DEF PerceiveFirst
  <2>2. CASE PerceiveSecond \/ Link \/ LinkBack \/ SpawnNode
    BY <1>t, <2>2 DEF PerceiveSecond, Link, LinkBack, SpawnNode
  <2> QED
    BY <2>1, <2>2 DEF Learn
<1>4. CountersInv'
  <2>1. file_mixed' \in BOOLEAN
    BY <1>1, <1>t DEF Writing, CountersInv
  <2> QED
    BY <1>1, <1>t, <1>3, <2>1 DEF CountersInv
<1>5. Spawned \in Nat /\ Spawned <= sentences
  BY <1>t, SpawnedType
<1>6. CASE PerceiveFirst
  <2>1. ~Pending /\ Pending' /\ sentences' = sentences + 1
    BY <1>6 DEF PerceiveFirst, Pending
  <2> QED
    BY <1>1, <1>t, <1>2, <1>4, <2>1 DEF Spawned
<1>7. CASE PerceiveSecond
  <2>1. Pending /\ sentences' = sentences
    BY <1>7 DEF PerceiveSecond, Pending
  <2>2. Spawned = sentences - 1 /\ Spawned' \in {sentences - 1, sentences}
    BY <2>1 DEF Spawned
  <2> QED
    BY <1>1, <1>t, <1>2, <1>4, <1>5, <2>2
<1>8. CASE Link \/ LinkBack
  <2>1. /\ lpc \in {"link", "back"} /\ pair' = pair /\ sentences' = sentences
        /\ lpc' \in {"back", Afterwards}
    BY <1>8 DEF Link, LinkBack
  <2>2. Pending' => Pending
    BY <2>1 DEF Pending, Afterwards
  <2> QED
    BY <1>1, <1>t, <1>2, <1>4, <1>5, <2>1, <2>2 DEF Spawned
<1>9. CASE SpawnNode
  <2>1. Pending /\ sentences' = sentences
    BY <1>9 DEF SpawnNode, Pending
  <2>2. Spawned = sentences - 1 /\ Spawned' \in {sentences - 1, sentences}
    BY <2>1 DEF Spawned
  <2> QED
    BY <1>1, <1>t, <1>2, <1>4, <1>5, <2>2
<1> QED
  BY <1>6, <1>7, <1>8, <1>9 DEF Learn

\* What the learner does leaves the file as it was, and a save that is under way
\* is from now on one of which nothing is promised.
LEMMA LearnKeepsFile ==
    ASSUME BrainInv, Learn
    PROVE  FileInv' /\ SavingInv' /\ WrittenInv'
<1>1. /\ UNCHANGED <<file, mpc, at, node_count, disk_full, crashes, snapshot,
                     interrupted, brain_mixed>>
      /\ file_mixed' = (file_mixed \/ Writing)
      /\ Spawned' \in Nat /\ Spawned <= Spawned'
  BY LearnerSteps
<1>2. Spawned \in Nat /\ FileInv /\ SavingInv /\ WrittenInv
  BY SpawnedType DEF BrainInv
<1> DEFINE s == Spawned
           t == Spawned'
<1>3. FileInv'
  <2>1. CASE file = NoFile /\ snapshot = NoFile /\ ~interrupted /\ ~file_mixed
    <3>1. ~Writing
      BY <1>2, <2>1 DEF SavingInv, Writing
    <3> QED
      BY <1>1, <2>1, <3>1 DEF FileInv
  <2>2. CASE /\ IsFile(file, Spawned) /\ snapshot \in Brains
             /\ ~file_mixed =>
                    /\ BrainOK(snapshot, Spawned) /\ IsPartOf(file, snapshot)
                    /\ ~interrupted => Len(file) = Whole(snapshot)
    <3>1. IsFile(file', t)
      BY <1>1, <1>2, <2>2, FileLater
    <3>2. ~file_mixed' => BrainOK(snapshot', t)
      BY <1>1, <1>2, <2>2, BrainLater
    <3> HIDE DEF t
    <3> QED
      BY <1>1, <2>2, <3>1, <3>2 DEF FileInv, t
  <2> QED
    BY <1>2, <2>1, <2>2 DEF FileInv
<1>4. SavingInv'
  <2>0. s \in Nat /\ t \in Nat /\ s <= t
    BY <1>1, <1>2
  <2> HIDE DEF s, t
  <2>1. ASSUME NEW n \in MaxWords + 1 .. MaxWords + 1 + s PROVE n \in MaxWords + 1 .. MaxWords + 1 + t
    BY <2>0, BrainConstants
  <2>2. node_count \in MaxWords + 1 .. MaxWords + 1 + s =>
            node_count' \in MaxWords + 1 .. MaxWords + 1 + t
    BY <1>1, <2>1
  <2> QED
    BY <1>1, <1>2, <2>2 DEF SavingInv, s, t
<1>5. WrittenInv'
  BY <1>1, <1>2 DEF WrittenInv, Writing
<1> QED
  BY <1>3, <1>4, <1>5

LEMMA LearnStep ==
    ASSUME BrainInv, Learn
    PROVE  BrainInv'
<1>t. /\ BrainType(brain, Spawned) /\ (~brain_mixed => BrainOK(brain, Spawned))
      /\ CountersInv /\ LearnerInv
      /\ sentences \in Nat /\ sentences <= MaxSentences
      /\ Spawned \in Nat /\ Spawned <= MaxSentences
      /\ brain \in Brains /\ brain.node_count \in Nat
      /\ MaxWords < brain.node_count /\ brain.node_count <= MaxWords + 1 + Spawned
      /\ brain.edges \in SUBSET Pairs /\ brain.inverse_edges \in SUBSET Pairs
  BY SpawnedType, BrainConstants DEF BrainInv, BrainType, CountersInv, Brains
<1>c. /\ MaxWords \in Nat /\ MaxSentences \in Nat
      /\ \A w \in Words : w \in Nat /\ w >= 1 /\ w <= MaxWords /\ w \in Nodes
      /\ Nodes = 1 .. MaxWords + 1 + MaxSentences /\ Words = 1 .. MaxWords
  BY BrainConstants DEF Words, Nodes
<1>1. /\ mpc' = mpc /\ mpc # "boot" /\ brain_mixed' = brain_mixed
      /\ CountersInv' /\ FileInv' /\ SavingInv' /\ WrittenInv'
      /\ Spawned' \in Nat /\ Spawned <= Spawned'
  BY LearnerSteps, LearnKeepsFile
<1>2. CASE PerceiveFirst \/ PerceiveSecond
  <2>1. PICK w \in Words : /\ brain' = [brain EXCEPT !.words = @ \union {w}]
                           /\ word' = w
    BY <1>2 DEF PerceiveFirst, PerceiveSecond
  <2>2. /\ brain' \in Brains /\ brain'.node_count = brain.node_count
        /\ brain'.edges = brain.edges /\ brain'.inverse_edges = brain.inverse_edges
    BY <1>t, <2>1 DEF Brains
  <2>3. BrainType(brain', Spawned) /\ (~brain_mixed => BrainOK(brain', Spawned))
    BY <1>t, <2>2 DEF BrainOK, BrainType
  <2>4. BrainType(brain', Spawned') /\ (~brain_mixed' => BrainOK(brain', Spawned'))
    BY <1>t, <1>1, <2>3, BrainLater
  <2>5. LearnerInv'
    <3>1. CASE PerceiveFirst
      <4>1. lpc' = "second" /\ pair' = pair /\ sentences' = sentences + 1
        BY <3>1 DEF PerceiveFirst
      <4> QED
        BY <1>t, <1>1, <2>1, <4>1 DEF LearnerInv
    <3>2. CASE PerceiveSecond
      <4>1. /\ pair' = <<word, w>> /\ lpc' \in {"spawn", "link"} /\ sentences' = sentences
            /\ lpc = "second"
        <5>1. PICK v \in Words : /\ pair' = <<word, v>> /\ word' = v
                                 /\ lpc' = IF v = word THEN "spawn" ELSE "link"
                                 /\ sentences' = sentences /\ lpc = "second"
          BY <3>2 DEF PerceiveSecond
        <5> QED
          BY <2>1, <5>1
      <4>2. word \in Words /\ sentences >= 1
        BY <1>t, <4>1 DEF LearnerInv
      <4>3. /\ pair' \in Pairs /\ pair'[1] = word /\ pair'[2] = w
            /\ word <= brain.node_count /\ w <= brain.node_count
        BY <1>t, <1>c, <4>1, <4>2 DEF Pairs
      <4> QED
        BY <1>1, <2>1, <2>2, <4>1, <4>2, <4>3 DEF LearnerInv
    <3> QED
      BY <1>2, <3>1, <3>2
  <2> QED
    BY <1>1, <2>4, <2>5 DEF BrainInv
<1>3. CASE Link
  <2>1. PICK table \in Added(brain.edges, pair) : brain' = [brain EXCEPT !.edges = table]
    BY <1>3 DEF Link
  <2>2. /\ lpc = "link" /\ lpc' \in {"back", Afterwards}
        /\ UNCHANGED <<pair, word, sentences>>
        /\ pair \in Pairs /\ word \in Words /\ sentences >= 1
        /\ ~brain_mixed => pair[1] <= brain.node_count /\ pair[2] <= brain.node_count
    BY <1>t, <1>3 DEF Link, LearnerInv
  <2>3. table \in SUBSET Pairs /\ table \subseteq brain.edges \union {pair}
    BY <1>t, <2>1, <2>2, AddedType
  <2>4. /\ brain' \in Brains /\ brain'.node_count = brain.node_count
        /\ brain'.edges = table /\ brain'.inverse_edges = brain.inverse_edges
    BY <1>t, <2>1, <2>3 DEF Brains
  <2>5. BrainType(brain', Spawned) /\ (~brain_mixed => BrainOK(brain', Spawned))
    BY <1>t, <2>2, <2>3, <2>4 DEF BrainOK, BrainType
  <2>6. BrainType(brain', Spawned') /\ (~brain_mixed' => BrainOK(brain', Spawned'))
    BY <1>t, <1>1, <2>5, BrainLater
  <2>7. lpc' \in {"back", "spawn", "idle"}
    BY <2>2 DEF Afterwards
  <2>8. LearnerInv'
    BY <1>t, <1>1, <2>2, <2>4, <2>7 DEF LearnerInv
  <2> QED
    BY <1>1, <2>6, <2>8 DEF BrainInv
<1>4. CASE LinkBack
  <2>1. PICK table \in Added(brain.inverse_edges, <<pair[2], pair[1]>>) :
            brain' = [brain EXCEPT !.inverse_edges = table]
    BY <1>4 DEF LinkBack
  <2>2. /\ lpc = "back" /\ lpc' = Afterwards
        /\ UNCHANGED <<pair, word, sentences>>
        /\ pair \in Pairs /\ word \in Words /\ sentences >= 1
        /\ ~brain_mixed => pair[1] <= brain.node_count /\ pair[2] <= brain.node_count
    BY <1>t, <1>4 DEF LinkBack, LearnerInv
  <2>3. /\ table \in SUBSET Pairs
        /\ table \subseteq brain.inverse_edges \union {<<pair[2], pair[1]>>}
    <3>1. <<pair[2], pair[1]>> \in Pairs
      BY <2>2 DEF Pairs
    <3> QED
      BY <1>t, <2>1, <3>1, AddedType
  <2>4. /\ brain' \in Brains /\ brain'.node_count = brain.node_count
        /\ brain'.inverse_edges = table /\ brain'.edges = brain.edges
    BY <1>t, <2>1, <2>3 DEF Brains
  <2>5. BrainType(brain', Spawned) /\ (~brain_mixed => BrainOK(brain', Spawned))
    BY <1>t, <2>2, <2>3, <2>4 DEF BrainOK, BrainType
  <2>6. BrainType(brain', Spawned') /\ (~brain_mixed' => BrainOK(brain', Spawned'))
    BY <1>t, <1>1, <2>5, BrainLater
  <2>7. lpc' \in {"spawn", "idle"}
    BY <2>2 DEF Afterwards
  <2>8. LearnerInv'
    BY <1>t, <1>1, <2>2, <2>4, <2>7 DEF LearnerInv
  <2> QED
    BY <1>1, <2>6, <2>8 DEF BrainInv
<1>5. CASE SpawnNode
  <2> DEFINE n == brain.node_count + 1
             out(table) == {p \in table : p[1] # n}
  <2>1. /\ lpc = "spawn" /\ lpc' = "link" /\ UNCHANGED <<word, sentences>>
        /\ brain' = [brain EXCEPT !.node_count = n, !.edges = out(@),
                                  !.inverse_edges = out(@)]
        /\ pair' \in {<<n, word>>, <<word, n>>}
        /\ word \in Words /\ sentences >= 1
    BY <1>t, <1>5 DEF SpawnNode, LearnerInv
  <2>2. Pending /\ Spawned = sentences - 1
    BY <2>1 DEF Pending, Spawned
  <2>3. n \in Nodes /\ n \notin Words /\ n \in Nat
    BY <1>t, <1>c, <2>1, <2>2
  <2>4. ~Pending' /\ Spawned' = Spawned + 1
    <3>1. pair'[1] = n \/ pair'[2] = n
      BY <2>1
    <3>2. ~Pending'
      BY <2>1, <2>3, <3>1 DEF Pending
    <3> QED
      BY <1>t, <2>1, <2>2, <3>2 DEF Spawned
  <2>5. pair' \in Pairs /\ pair'[1] <= n /\ pair'[2] <= n
    BY <1>t, <1>c, <2>1, <2>3 DEF Pairs
  <2>6. /\ brain' \in Brains /\ brain'.node_count = n
        /\ brain'.edges = out(brain.edges) /\ brain'.inverse_edges = out(brain.inverse_edges)
    BY <1>t, <2>1, <2>3 DEF Brains
  <2>7. BrainType(brain', Spawned')
    BY <1>t, <1>c, <2>3, <2>4, <2>6 DEF BrainType
  <2>8. ~brain_mixed => BrainOK(brain', Spawned')
    <3> SUFFICES ASSUME ~brain_mixed,
                        NEW p \in out(brain.edges) \union out(brain.inverse_edges)
                 PROVE  p[1] <= n /\ p[2] <= n
      BY <2>6, <2>7 DEF BrainOK
    <3>1. p \in Pairs /\ p[1] <= brain.node_count /\ p[2] <= brain.node_count
      BY <1>t DEF BrainOK
    <3>2. p[1] \in Nat /\ p[2] \in Nat
      BY <1>c, <3>1 DEF Pairs
    <3> QED
      BY <1>t, <3>1, <3>2
  <2> HIDE DEF n, out
  <2>9. LearnerInv'
    BY <1>t, <1>1, <2>1, <2>5, <2>6 DEF LearnerInv
  <2> QED
    BY <1>1, <2>7, <2>8, <2>9 DEF BrainInv
<1> QED
  BY <1>2, <1>3, <1>4, <1>5 DEF Learn

----------------------------------------------------------------------------
(***************************************************************************)
(* sleep()                                                                  *)
(***************************************************************************)
\* g is f and one more record.
IsOneMore(g, f, r) ==
    /\ g \in Seq(Records) /\ Len(g) = Len(f) + 1
    /\ \A i \in 1 .. Len(f) : g[i] = f[i]
    /\ g[Len(f) + 1] = r

LEMMA OneMore ==
    ASSUME NEW f \in Seq(Records), NEW r \in Records
    PROVE  IsOneMore(f \o <<r>>, f, r)
BY DEF IsOneMore

\* The words below a: none below 1, and one more or none with each.
LEMMA SoFarGrows ==
    ASSUME NEW b \in Brains
    PROVE  /\ SoFar(b, 1) = {} /\ Cardinality(SoFar(b, 1)) = 0
           /\ SoFar(b, MaxWords + 1) = b.words
           /\ \A a \in Words :
                 /\ IsFiniteSet(SoFar(b, a)) /\ Cardinality(SoFar(b, a)) \in Nat
                 /\ SoFar(b, a + 1) = SoFar(b, a) \union (b.words \intersect {a})
                 /\ Cardinality(SoFar(b, a + 1)) =
                        Cardinality(SoFar(b, a)) + (IF a \in b.words THEN 1 ELSE 0)
                 /\ Cardinality(SoFar(b, a + 1)) <= WordCount(b)
<1>t. MaxWords \in Nat /\ \A w \in b.words : w \in Nat /\ w >= 1 /\ w <= MaxWords
  BY BrainConstants DEF Brains, Words
<1>1. SoFar(b, 1) = {} /\ SoFar(b, MaxWords + 1) = b.words
  BY <1>t DEF SoFar
<1>2. ASSUME NEW a \in Words
      PROVE  /\ IsFiniteSet(SoFar(b, a)) /\ Cardinality(SoFar(b, a)) \in Nat
             /\ SoFar(b, a + 1) = SoFar(b, a) \union (b.words \intersect {a})
             /\ Cardinality(SoFar(b, a + 1)) =
                    Cardinality(SoFar(b, a)) + (IF a \in b.words THEN 1 ELSE 0)
             /\ Cardinality(SoFar(b, a + 1)) <= WordCount(b)
  <2>1. a \in Nat
    BY <1>t DEF Words
  <2>2. SoFar(b, a + 1) = SoFar(b, a) \union (b.words \intersect {a}) /\ a \notin SoFar(b, a)
    BY <1>t, <2>1 DEF SoFar
  <2>3. SoFar(b, a) \in SUBSET b.words /\ SoFar(b, a + 1) \in SUBSET b.words
    BY DEF SoFar
  <2>4. IsFiniteSet(SoFar(b, a)) /\ Cardinality(SoFar(b, a)) \in Nat
    BY <2>3, WordCountType
  <2>5. Cardinality(SoFar(b, a + 1)) <= WordCount(b)
    BY <2>3, WordCountType
  <2>6. CASE a \in b.words
    <3>1. SoFar(b, a + 1) = SoFar(b, a) \union {a}
      BY <2>2, <2>6
    <3> QED
      BY <2>2, <2>4, <2>5, <2>6, <3>1, FS_AddElement
  <2>7. CASE a \notin b.words
    <3>1. SoFar(b, a + 1) = SoFar(b, a)
      BY <2>2, <2>7
    <3> QED
      BY <2>2, <2>4, <2>5, <2>7, <3>1
  <2> QED
    BY <2>6, <2>7
<1> QED
  BY <1>1, <1>2, FS_EmptySet

\* Writing the next word, or the next node.
LEMMA WordWritten ==
    ASSUME NEW s \in Nat, NEW b, BrainOK(b, s), NEW f, IsPartOf(f, b), NEW a \in Words,
           Len(f) = 1 + Cardinality(SoFar(b, a)),
           HasWords(f, b, a),
           a \in b.words,
           NEW g, IsOneMore(g, f, [kind |-> "word", id |-> a])
    PROVE  /\ IsPartOf(g, b)
           /\ Len(g) = 1 + Cardinality(SoFar(b, a + 1))
           /\ HasWords(g, b, a + 1)
<1> DEFINE r == [kind |-> "word", id |-> a]
           W == WordCount(b)
<1>t. /\ b \in Brains /\ W \in Nat /\ Whole(b) \in Nat /\ b.node_count \in Nat
      /\ f \in Seq(Records) /\ Len(f) \in Nat /\ r \in Records
  BY PartTypes DEF Records, WordRecords
<1>1. r.kind = "word" /\ r.id = a
  OBVIOUS
<1> HIDE DEF r
<1>2. /\ g \in Seq(Records) /\ Len(g) = Len(f) + 1
      /\ \A i \in 1 .. Len(f) : g[i] = f[i]
      /\ g[Len(f) + 1] = r
  BY DEF IsOneMore, r
<1>3. /\ Cardinality(SoFar(b, a)) \in Nat
      /\ SoFar(b, a + 1) = SoFar(b, a) \union {a}
      /\ Cardinality(SoFar(b, a + 1)) = Cardinality(SoFar(b, a)) + 1
      /\ Cardinality(SoFar(b, a + 1)) <= W
      /\ SoFar(b, a + 1) \in SUBSET b.words
  <2>1. SoFar(b, a + 1) \in SUBSET b.words
    BY DEF SoFar
  <2>2. b.words \intersect {a} = {a}
    OBVIOUS
  <2> QED
    BY <1>t, <2>1, <2>2, SoFarGrows
<1>4. Len(f) >= 1 /\ Len(g) <= 1 + W /\ Len(g) <= Whole(b)
  BY <1>t, <1>2, <1>3 DEF Whole
<1>5. g[1] = Header(b)
  BY <1>t, <1>2, <1>4 DEF IsPartOf
<1>6. ASSUME NEW i \in 2 .. Len(g)
      PROVE  i <= 1 + W /\ g[i].kind = "word" /\ g[i].id \in b.words
  <2>1. CASE i = Len(f) + 1
    BY <1>t, <1>1, <1>2, <1>4, <2>1
  <2>2. CASE i # Len(f) + 1
    <3>1. i \in 2 .. Len(f) /\ i <= 1 + W
      BY <1>t, <1>2, <1>4, <2>2
    <3>2. g[i] = f[i]
      BY <1>t, <1>2, <3>1
    <3> QED
      BY <3>1, <3>2 DEF IsPartOf
  <2> QED
    BY <2>1, <2>2
<1>7. ASSUME NEW w \in SoFar(b, a + 1) PROVE \E i \in 2 .. Len(g) : g[i].id = w
  <2>1. CASE w = a
    <3>1. Len(f) + 1 \in 2 .. Len(g)
      BY <1>t, <1>2, <1>4
    <3> QED
      BY <1>1, <1>2, <2>1, <3>1
  <2>2. CASE w \in SoFar(b, a)
    <3>1. PICK i \in 2 .. Len(f) : f[i].id = w
      BY <2>2 DEF HasWords
    <3>2. i \in 2 .. Len(g) /\ g[i] = f[i]
      BY <1>t, <1>2
    <3> QED
      BY <3>1, <3>2
  <2> QED
    BY <1>3, <2>1, <2>2
<1>8. ASSUME Len(g) >= 1 + W, NEW w \in b.words
      PROVE  \E i \in 2 .. 1 + W : g[i].id = w
  <2>1. Cardinality(SoFar(b, a + 1)) = W /\ Len(g) = 1 + W
    BY <1>t, <1>2, <1>3, <1>4, <1>8
  <2>2. SoFar(b, a + 1) = b.words
    BY <1>t, <1>3, <2>1, WordCountType
  <2> QED
    BY <1>7, <2>1, <2>2
<1>9. \A i \in 2 .. Len(g) :
          /\ i <= 1 + W => g[i].kind = "word" /\ g[i].id \in b.words
          /\ i > 1 + W => g[i] = Node(b, i - 1 - W)
  BY <1>t, <1>6
<1>10. IsPartOf(g, b)
  BY <1>2, <1>4, <1>5, <1>8, <1>9 DEF IsPartOf
<1>11. Len(g) = 1 + Cardinality(SoFar(b, a + 1))
  BY <1>t, <1>2, <1>3
<1> QED
  BY <1>7, <1>10, <1>11 DEF HasWords

LEMMA NodeWritten ==
    ASSUME NEW s \in 0 .. MaxSentences, NEW b, BrainOK(b, s), NEW f, IsPartOf(f, b),
           NEW k \in 1 .. b.node_count, Len(f) = WordCount(b) + k,
           NEW g, IsOneMore(g, f, Node(b, k))
    PROVE  IsPartOf(g, b) /\ Len(g) = WordCount(b) + k + 1
<1> DEFINE W == WordCount(b)
<1>t. /\ b \in Brains /\ W \in Nat /\ Whole(b) \in Nat /\ b.node_count \in Nat
      /\ f \in Seq(Records) /\ Len(f) \in Nat /\ s \in Nat
      /\ b.node_count <= MaxWords + 1 + MaxSentences /\ k \in Nat
  <2>1. s \in Nat /\ s <= MaxSentences
    BY BrainConstants
  <2>2. b.node_count <= MaxWords + 1 + s
    BY DEF BrainOK, BrainType
  <2>3. /\ b \in Brains /\ W \in Nat /\ Whole(b) \in Nat /\ b.node_count \in Nat
        /\ f \in Seq(Records) /\ Len(f) \in Nat
    BY <2>1, PartTypes
  <2> QED
    BY <2>1, <2>2, <2>3, BrainConstants
<1>1. Node(b, k) \in Records
  <2>1. k \in Nodes
    BY <1>t, BrainConstants DEF Nodes
  <2>2. Ends(b.edges, k) \subseteq Nodes /\ Ends(b.inverse_edges, k) \subseteq Nodes
    BY <1>t DEF Ends, Brains, Pairs
  <2> QED
    BY <2>1, <2>2 DEF Node, Records, NodeRecords
<1>2. /\ g \in Seq(Records) /\ Len(g) = Len(f) + 1
      /\ \A i \in 1 .. Len(f) : g[i] = f[i]
      /\ g[Len(f) + 1] = Node(b, k)
  BY <1>t, <1>1 DEF IsOneMore
<1>3. /\ Len(f) >= 1 /\ Len(f) >= 1 + W /\ Len(g) <= Whole(b) /\ Len(g) = W + k + 1
      /\ Len(f) + 1 > 1 + W /\ Len(f) + 1 - 1 - W = k
  <2>1. Len(f) = W + k /\ k >= 1 /\ k <= b.node_count /\ Len(g) = Len(f) + 1
    BY <1>t, <1>2
  <2>2. Whole(b) = 1 + W + b.node_count
    BY DEF Whole
  <2> HIDE DEF W
  <2>3. W \in Nat /\ k \in Nat /\ b.node_count \in Nat /\ Len(f) \in Nat /\ Len(g) \in Nat
    BY <1>t, <2>1
  <2>4. Len(f) >= 1 /\ Len(f) >= 1 + W /\ Len(g) = W + k + 1
    BY <2>1, <2>3
  <2>5. Len(g) <= Whole(b)
    BY <2>1, <2>2, <2>3
  <2> QED
    BY <2>1, <2>3, <2>4, <2>5
<1>4. g[1] = Header(b)
  BY <1>t, <1>2, <1>3 DEF IsPartOf
<1>5. ASSUME NEW i \in 2 .. Len(g)
      PROVE  /\ i <= 1 + W => g[i].kind = "word" /\ g[i].id \in b.words
             /\ i > 1 + W => g[i] = Node(b, i - 1 - W)
  <2>1. CASE i = Len(f) + 1
    <3>1. g[i] = Node(b, k)
      BY <1>2, <2>1
    <3>2. i > 1 + W /\ i - 1 - W = k
      BY <1>t, <1>3, <2>1
    <3>3. ~(i <= 1 + W)
      BY <1>t, <2>1, <3>2
    <3> QED
      BY <3>1, <3>2, <3>3
  <2>2. CASE i # Len(f) + 1
    <3>1. i \in 2 .. Len(f)
      BY <1>t, <1>2, <2>2
    <3>2. g[i] = f[i]
      BY <1>t, <1>2, <3>1
    <3> QED
      BY <3>1, <3>2 DEF IsPartOf
  <2> QED
    BY <2>1, <2>2
<1>6. ASSUME NEW w \in b.words PROVE \E i \in 2 .. 1 + W : g[i].id = w
  <2>1. PICK i \in 2 .. 1 + W : f[i].id = w
    BY <1>3 DEF IsPartOf
  <2>2. g[i] = f[i]
    BY <1>t, <1>2, <1>3
  <2> QED
    BY <2>1, <2>2
<1> QED
  BY <1>2, <1>3, <1>4, <1>5, <1>6 DEF IsPartOf

LEMMA NothingWritten ==
    ASSUME NEW s \in Nat, NEW b, BrainOK(b, s)
    PROVE  IsPartOf(<<>>, b) /\ Len(<<>>) = 0
<1>1. WordCount(b) \in Nat /\ b.node_count \in Nat
  BY WordCountType DEF BrainOK, BrainType, Brains
<1>2. <<>> \in Seq(Records) /\ Len(<<>>) = 0 /\ Whole(b) >= 0
  BY <1>1 DEF Whole
<1> QED
  BY <1>1, <1>2 DEF IsPartOf

LEMMA HeaderWritten ==
    ASSUME NEW s \in Nat, NEW b, BrainOK(b, s), NEW f, IsPartOf(f, b), Len(f) = 0,
           NEW g, IsOneMore(g, f, Header(b))
    PROVE  IsPartOf(g, b) /\ Len(g) = 1
<1>t. /\ b \in Brains /\ WordCount(b) \in Nat /\ b.node_count \in Nat
      /\ b.node_count > MaxWords
  BY PartTypes
<1>1. g \in Seq(Records) /\ Len(g) = 1 /\ g[1] = Header(b)
  BY DEF IsOneMore
<1>2. Len(g) <= Whole(b)
  BY <1>t, <1>1 DEF Whole
<1>3. ASSUME 1 >= 1 + WordCount(b) PROVE b.words = {}
  <2>1. WordCount(b) = 0
    BY <1>t, <1>3
  <2> QED
    BY <1>t, <2>1, WordCountType, FS_EmptySet
<1> QED
  BY <1>1, <1>2, <1>3 DEF IsPartOf

\* sleep() writes a file. Unless a sentence is learned meanwhile, the brain stays
\* what sleep() found it, and the file is a part of it.
LEMMA WhileSaving ==
    ASSUME BrainInv, Writing
    PROVE  /\ interrupted /\ file # NoFile /\ IsFile(file, Spawned) /\ snapshot \in Brains
           /\ Spawned \in 0 .. MaxSentences /\ Spawned \in Nat
           /\ brain \in Brains /\ WordCount(brain) \in Nat /\ brain.node_count \in Nat
           /\ brain.node_count \in MaxWords + 1 .. MaxWords + 1 + Spawned
           /\ file \in Seq(Records) /\ Len(file) \in Nat
           /\ ~file_mixed => /\ snapshot = brain /\ ~brain_mixed
                             /\ BrainOK(brain, Spawned) /\ IsPartOf(file, brain)
<1>1. interrupted /\ file # NoFile /\ (~file_mixed => snapshot = brain /\ ~brain_mixed)
  BY DEF BrainInv, SavingInv, WrittenInv, Writing
<1>2. /\ IsFile(file, Spawned) /\ snapshot \in Brains
      /\ ~file_mixed => BrainOK(brain, Spawned) /\ IsPartOf(file, brain)
  BY <1>1 DEF BrainInv, FileInv
<1>3. Spawned \in Nat /\ Spawned <= MaxSentences /\ Spawned \in 0 .. MaxSentences
  BY SpawnedType, BrainConstants DEF BrainInv
<1>4. /\ brain \in Brains /\ brain.node_count \in MaxWords + 1 .. MaxWords + 1 + Spawned
      /\ brain.node_count \in Nat
  BY BrainConstants DEF BrainInv, BrainType, Brains
<1>5. file \in Seq(Records) /\ Len(file) \in Nat
  BY <1>2 DEF IsFile
<1> QED
  BY <1>1, <1>2, <1>3, <1>4, <1>5, WordCountType

\* A step of sleep() changes the file and how far it has got.
LEMMA SavingStep ==
    ASSUME BrainInv, Writing,
           UNCHANGED <<brain, learner, sentences, crashes, history>>,
           IsFile(file', Spawned), ~file_mixed => IsPartOf(file', brain),
           mpc' \in {"words", "nodes", "close"},
           at' \in 0 .. MaxWords + 1 + MaxSentences, node_count' \in Nat,
           disk_full' \in BOOLEAN,
           SavingInv', WrittenInv'
    PROVE  BrainInv'
<1>1. /\ interrupted /\ snapshot \in Brains
      /\ ~file_mixed => snapshot = brain /\ ~brain_mixed /\ BrainOK(brain, Spawned)
      /\ BrainType(brain, Spawned) /\ (~brain_mixed => BrainOK(brain, Spawned))
  BY WhileSaving DEF BrainInv
<1>2. /\ UNCHANGED <<brain, lpc, pair, word, sentences, crashes, snapshot, interrupted,
                     file_mixed, brain_mixed>>
      /\ Spawned' = Spawned
  BY DEF learner, history, mixed, Spawned, Pending
<1>3. BrainType(brain', Spawned') /\ (~brain_mixed' => BrainOK(brain', Spawned'))
  BY <1>1, <1>2
<1>4. CountersInv'
  BY <1>2 DEF BrainInv, CountersInv
<1>5. LearnerInv'
  BY <1>2 DEF BrainInv, LearnerInv
<1>6. FileInv'
  BY <1>1, <1>2 DEF FileInv
<1> QED
  BY <1>3, <1>4, <1>5, <1>6 DEF BrainInv

LEMMA EmptyFile == \A s \in Nat : IsFile(<<>>, s)
<1>1. <<>> \in Seq(Records) /\ Len(<<>>) = 0
  OBVIOUS
<1> QED
  BY <1>1 DEF IsFile

LEMMA SaveOpenStep ==
    ASSUME BrainInv, SaveOpen
    PROVE  BrainInv'
<1>1. /\ mpc = "loop" /\ file' = <<>> /\ disk_full' = FALSE
      /\ snapshot' = brain /\ interrupted' = TRUE /\ mpc' = "header"
      /\ file_mixed' = brain_mixed
      /\ UNCHANGED <<brain, at, node_count, lpc, pair, word, sentences, crashes, brain_mixed>>
  BY DEF SaveOpen, learner
<1>2. /\ BrainType(brain, Spawned) /\ (~brain_mixed => BrainOK(brain, Spawned))
      /\ Spawned \in Nat /\ Spawned' = Spawned
  BY <1>1, SpawnedType DEF BrainInv, Spawned, Pending
<1>3. IsFile(file', Spawned) /\ Len(file') = 0 /\ file' # NoFile
  BY <1>1, <1>2, EmptyFile, BrainConstants DEF IsFile
<1>4. ~brain_mixed => IsPartOf(file', snapshot')
  BY <1>1, <1>2, NothingWritten
<1>5. CountersInv'
  BY <1>1 DEF BrainInv, CountersInv
<1>6. LearnerInv'
  BY <1>1 DEF BrainInv, LearnerInv
<1>7. snapshot' \in Brains /\ BrainType(brain', Spawned') /\ (~brain_mixed' => BrainOK(brain', Spawned'))
  BY <1>1, <1>2 DEF BrainType
<1>8. FileInv'
  BY <1>1, <1>2, <1>3, <1>4, <1>7 DEF FileInv
<1>9. SavingInv'
  BY <1>1, <1>3 DEF SavingInv
<1>10. WrittenInv'
  BY <1>1 DEF WrittenInv
<1> QED
  BY <1>5, <1>6, <1>7, <1>8, <1>9, <1>10 DEF BrainInv

LEMMA SaveHeaderStep ==
    ASSUME BrainInv, SaveHeader
    PROVE  BrainInv'
<1>1. /\ mpc = "header" /\ node_count' = brain.node_count /\ at' = 1 /\ mpc' = "words"
      /\ Write(<<Header(brain)>>)
      /\ UNCHANGED <<brain, learner, sentences, crashes, history>>
  BY DEF SaveHeader, Header, WordCount
<1>2. Len(file) = 0 /\ ~disk_full
  BY <1>1 DEF BrainInv, SavingInv
<1>w. Writing
  BY <1>1 DEF Writing
<1>3. /\ interrupted /\ IsFile(file, Spawned) /\ Spawned \in Nat
      /\ brain \in Brains /\ brain.node_count \in Nat /\ WordCount(brain) \in Nat
      /\ brain.node_count \in MaxWords + 1 .. MaxWords + 1 + Spawned
      /\ file \in Seq(Records)
      /\ ~file_mixed => /\ snapshot = brain /\ ~brain_mixed
                        /\ BrainOK(brain, Spawned) /\ IsPartOf(file, brain)
  BY <1>w, WhileSaving
<1>4. /\ IsFile(file', Spawned) /\ (~file_mixed => IsPartOf(file', brain))
      /\ file' # NoFile /\ disk_full' \in BOOLEAN
      /\ Len(file') \in Nat /\ Len(file') <= 1 /\ (~disk_full' => Len(file') = 1)
  <2>1. CASE file' = file \o <<Header(brain)>> /\ disk_full' = FALSE
    <3>1. Header(brain) \in Records
      BY <1>3 DEF Records, Headers, Header
    <3>2. IsOneMore(file', file, Header(brain))
      BY <1>3, <2>1, <3>1, OneMore
    <3>3. file' \in Seq(Records) /\ Len(file') = 1 /\ file'[1] = Header(brain)
      BY <1>2, <3>2 DEF IsOneMore
    <3>4. IsFile(file', Spawned)
      BY <1>3, <3>3 DEF IsFile, Header
    <3>5. ~file_mixed => IsPartOf(file', brain)
      BY <1>2, <1>3, <3>2, HeaderWritten
    <3>6. Len(file') \in Nat /\ Len(file') <= 1 /\ file' # NoFile
      BY <3>3, BrainConstants
    <3> QED
      BY <2>1, <3>3, <3>4, <3>5, <3>6
  <2>2. CASE file' = file /\ disk_full' = TRUE
    <3>1. file # NoFile
      BY <1>3, BrainConstants
    <3>2. Len(file') \in Nat /\ Len(file') <= 1
      BY <1>2, <2>2
    <3> QED
      BY <1>3, <2>2, <3>1, <3>2, Zenon
  <2> QED
    BY <1>1, <2>1, <2>2 DEF Write
<1>5. /\ UNCHANGED <<lpc, pair, snapshot, interrupted, file_mixed, brain_mixed, sentences, brain>>
      /\ Spawned' = Spawned
  BY <1>1 DEF learner, history, mixed, Spawned, Pending
<1>6. SavingInv'
  <2>1. mpc' = "words" /\ interrupted'
    BY <1>1, <1>3, <1>5
  <2>2. at' \in 1 .. MaxWords
    BY <1>1, BrainConstants
  <2>3. node_count' \in MaxWords + 1 .. MaxWords + 1 + Spawned'
    BY <1>1, <1>3, <1>5
  <2>4. ~disk_full' => Len(file') >= 1
    BY <1>4
  <2> QED
    BY <1>4, <2>1, <2>2, <2>3, <2>4 DEF SavingInv
<1>7. WrittenInv'
  <2>1. SoFar(brain, 1) = {} /\ Cardinality(SoFar(brain, 1)) = 0
    BY <1>3, SoFarGrows
  <2>2. SoFar(brain', at') = {} /\ Cardinality(SoFar(brain', at')) = 0
    BY <1>1, <2>1
  <2>3. /\ Len(file') <= 1 + Cardinality(SoFar(brain', at'))
        /\ ~disk_full' => Len(file') = 1 + Cardinality(SoFar(brain', at'))
    BY <1>4, <2>2
  <2>4. ~file_mixed' => snapshot' = brain' /\ ~brain_mixed' /\ node_count' = brain'.node_count
    BY <1>1, <1>3, <1>5
  <2> QED
    BY <1>1, <2>2, <2>3, <2>4 DEF WrittenInv, HasWords
<1>8. at' \in 0 .. MaxWords + 1 + MaxSentences
  BY <1>1, BrainConstants
<1> QED
  BY <1>w, <1>1, <1>3, <1>4, <1>6, <1>7, <1>8, SavingStep

LEMMA SaveWordStep ==
    ASSUME BrainInv, SaveWord
    PROVE  BrainInv'
<1> DEFINE record == [kind |-> "word", id |-> at]
           written == IF at \in brain.words THEN <<record>> ELSE <<>>
           next == SoFar(brain, at + 1)
<1>1. /\ mpc = "words"
      /\ at' = IF at = MaxWords THEN 1 ELSE at + 1
      /\ mpc' = IF at = MaxWords THEN "nodes" ELSE "words"
      /\ Write(written)
      /\ UNCHANGED <<brain, node_count, learner, sentences, crashes, history>>
  BY DEF SaveWord
<1>w. Writing
  BY <1>1 DEF Writing
<1>2. /\ at \in 1 .. MaxWords /\ at \in Words
      /\ node_count \in MaxWords + 1 .. MaxWords + 1 + Spawned
      /\ ~disk_full => Len(file) >= 1
  BY <1>1 DEF BrainInv, SavingInv, Words
<1>3. ~file_mixed =>
        /\ node_count = brain.node_count
        /\ Len(file) <= 1 + Cardinality(SoFar(brain, at))
        /\ ~disk_full =>
               /\ Len(file) = 1 + Cardinality(SoFar(brain, at))
               /\ HasWords(file, brain, at)
  BY <1>1 DEF BrainInv, WrittenInv
<1>4. /\ interrupted /\ IsFile(file, Spawned) /\ Spawned \in Nat /\ file # NoFile
      /\ brain \in Brains /\ brain.node_count \in Nat /\ WordCount(brain) \in Nat
      /\ file \in Seq(Records) /\ Len(file) \in Nat
      /\ ~file_mixed => /\ snapshot = brain /\ ~brain_mixed
                        /\ BrainOK(brain, Spawned) /\ IsPartOf(file, brain)
  BY <1>w, WhileSaving
<1>5. /\ Cardinality(SoFar(brain, at)) \in Nat /\ Cardinality(next) \in Nat
      /\ Cardinality(SoFar(brain, at)) <= Cardinality(next)
      /\ Cardinality(next) <= WordCount(brain)
      /\ at \notin brain.words => next = SoFar(brain, at)
  <2>1. /\ Cardinality(SoFar(brain, at)) \in Nat
        /\ next = SoFar(brain, at) \union (brain.words \intersect {at})
        /\ Cardinality(next) =
               Cardinality(SoFar(brain, at)) + (IF at \in brain.words THEN 1 ELSE 0)
        /\ Cardinality(next) <= WordCount(brain)
    BY <1>2, <1>4, SoFarGrows
  <2> HIDE DEF next
  <2>2. at \notin brain.words => brain.words \intersect {at} = {}
    OBVIOUS
  <2> QED
    BY <2>1, <2>2
<1> HIDE DEF next
<1>6. record \in Records /\ record.kind # "header"
  BY <1>2 DEF Records, WordRecords
<1>7. /\ \/ ~disk_full /\ disk_full' = FALSE /\ at \in brain.words /\ file' = file \o <<record>>
         \/ ~disk_full /\ disk_full' = FALSE /\ at \notin brain.words /\ file' = file
         \/ disk_full' = TRUE /\ file' = file
  <2>1. file \o <<>> = file
    BY <1>4
  <2> QED
    BY <1>1, <2>1 DEF Write
<1>8. IsFile(file', Spawned) /\ file' # NoFile /\ (~disk_full' => Len(file') >= 1)
  <2>1. CASE file' = file \o <<record>> /\ ~disk_full
    <3>1. IsFile(file', Spawned) /\ Len(file') >= 1
      BY <1>2, <1>4, <1>6, <2>1, FileGrows
    <3> QED
      BY <3>1, BrainConstants DEF IsFile
  <2>2. CASE file' = file /\ (disk_full' = FALSE => ~disk_full)
    BY <1>2, <1>4, <1>7, <2>2
  <2> QED
    BY <1>7, <2>1, <2>2
<1> HIDE DEF record
<1>9. ASSUME ~file_mixed
      PROVE  /\ IsPartOf(file', brain)
             /\ Len(file') \in Nat /\ Len(file') <= 1 + Cardinality(next)
             /\ ~disk_full' =>
                    /\ Len(file') = 1 + Cardinality(next)
                    /\ HasWords(file', brain, at + 1)
  <2>1. CASE ~disk_full /\ disk_full' = FALSE /\ at \in brain.words /\ file' = file \o <<record>>
    <3>1. IsOneMore(file', file, record)
      BY <1>4, <1>6, <2>1, OneMore
    <3>2. /\ Len(file) = 1 + Cardinality(SoFar(brain, at))
          /\ HasWords(file, brain, at) /\ BrainOK(brain, Spawned) /\ IsPartOf(file, brain)
      BY <1>3, <1>4, <1>9, <2>1
    <3>3. /\ IsPartOf(file', brain) /\ Len(file') = 1 + Cardinality(SoFar(brain, at + 1))
          /\ HasWords(file', brain, at + 1)
      BY <1>2, <1>4, <2>1, <3>1, <3>2, WordWritten DEF record
    <3>4. Len(file') = 1 + Cardinality(next)
      BY <3>3 DEF next
    <3>5. Len(file') \in Nat /\ Len(file') <= 1 + Cardinality(next)
      BY <1>5, <3>4
    <3> QED
      BY <2>1, <3>3, <3>4, <3>5
  <2>2. CASE ~disk_full /\ disk_full' = FALSE /\ at \notin brain.words /\ file' = file
    <3>1. next = SoFar(brain, at)
      BY <1>5, <2>2
    <3>2. HasWords(file', brain, at + 1)
      BY <1>3, <1>9, <2>2, <3>1 DEF HasWords, next
    <3> QED
      BY <1>3, <1>4, <1>5, <1>9, <2>2, <3>1, <3>2
  <2>3. CASE disk_full' = TRUE /\ file' = file
    <3>1. Len(file) <= 1 + Cardinality(next)
      BY <1>3, <1>4, <1>5, <1>9
    <3> QED
      BY <1>4, <1>9, <2>3, <3>1
  <2> QED
    BY <1>7, <2>1, <2>2, <2>3
<1>10. /\ UNCHANGED <<lpc, pair, snapshot, interrupted, file_mixed, brain_mixed, sentences,
                      brain, node_count>>
       /\ Spawned' = Spawned /\ interrupted'
  BY <1>1, <1>4 DEF learner, history, mixed, Spawned, Pending
<1>11. /\ mpc' \in {"nodes", "words"}
       /\ mpc' = "nodes" => at = MaxWords /\ at' = 1
       /\ mpc' = "words" => at' = at + 1 /\ at' \in 1 .. MaxWords
  BY <1>1, <1>2, BrainConstants
<1>12. SavingInv'
  <2>1. mpc' = "nodes" => at' \in 1 .. node_count'
    BY <1>2, <1>10, <1>11, <1>4, BrainConstants
  <2> QED
    BY <1>2, <1>8, <1>10, <1>11, <2>1 DEF SavingInv
<1>13. WrittenInv'
  <2> SUFFICES ASSUME ~file_mixed
               PROVE  WrittenInv'
    BY <1>10 DEF WrittenInv
  <2>1. snapshot' = brain' /\ ~brain_mixed' /\ node_count' = brain'.node_count
    BY <1>3, <1>4, <1>10
  <2>2. CASE mpc' = "nodes"
    <3>1. next = brain.words
      BY <1>4, <1>11, <2>2, SoFarGrows DEF next
    <3>2. /\ Len(file') <= WordCount(brain') + at'
          /\ ~disk_full' => Len(file') = WordCount(brain') + at'
      BY <1>4, <1>9, <1>10, <1>11, <2>2, <3>1 DEF WordCount
    <3> QED
      BY <2>1, <2>2, <3>2 DEF WrittenInv
  <2>3. CASE mpc' = "words"
    <3>1. SoFar(brain', at') = next /\ at' = at + 1 /\ brain' = brain
      BY <1>10, <1>11, <2>3 DEF next
    <3>2. /\ Len(file') <= 1 + Cardinality(SoFar(brain', at'))
          /\ ~disk_full' =>
                 /\ Len(file') = 1 + Cardinality(SoFar(brain', at'))
                 /\ HasWords(file', brain', at')
      BY <1>9, <3>1
    <3> QED
      BY <2>1, <2>3, <3>2 DEF WrittenInv
  <2> QED
    BY <1>11, <2>2, <2>3
<1>14. at' \in 0 .. MaxWords + 1 + MaxSentences /\ node_count' \in Nat
  BY <1>2, <1>4, <1>10, <1>11, BrainConstants DEF BrainInv, CountersInv
<1>15. disk_full' \in BOOLEAN
  BY <1>7
<1> QED
  BY <1>w, <1>1, <1>8, <1>9, <1>11, <1>12, <1>13, <1>14, <1>15, SavingStep

LEMMA SaveNodeStep ==
    ASSUME BrainInv, SaveNode
    PROVE  BrainInv'
<1>1. /\ mpc = "nodes" /\ Write(<<Node(brain, at)>>)
      /\ at' = IF at = node_count THEN 0 ELSE at + 1
      /\ mpc' = IF at = node_count THEN "close" ELSE "nodes"
      /\ UNCHANGED <<brain, node_count, learner, sentences, crashes, history>>
  BY DEF SaveNode, Node
<1>w. Writing
  BY <1>1 DEF Writing
<1>2. /\ at \in 1 .. node_count /\ node_count \in MaxWords + 1 .. MaxWords + 1 + Spawned
      /\ ~disk_full => Len(file) >= 1
  BY <1>1 DEF BrainInv, SavingInv
<1>3. ~file_mixed =>
        /\ node_count = brain.node_count
        /\ Len(file) <= WordCount(brain) + at
        /\ ~disk_full => Len(file) = WordCount(brain) + at
  BY <1>1 DEF BrainInv, WrittenInv
<1>4. /\ interrupted /\ IsFile(file, Spawned) /\ file # NoFile
      /\ Spawned \in Nat /\ Spawned \in 0 .. MaxSentences
      /\ brain \in Brains /\ brain.node_count \in Nat /\ WordCount(brain) \in Nat
      /\ file \in Seq(Records) /\ Len(file) \in Nat
      /\ ~file_mixed => /\ snapshot = brain /\ ~brain_mixed
                        /\ BrainOK(brain, Spawned) /\ IsPartOf(file, brain)
  BY <1>w, WhileSaving
<1>5. node_count \in Nat /\ at \in Nat /\ at >= 1 /\ node_count <= MaxWords + 1 + MaxSentences
  BY <1>2, <1>4, BrainConstants
<1>6. Node(brain, at) \in Records /\ Node(brain, at).kind # "header"
  <2>1. at \in Nodes
    BY <1>2, <1>5, BrainConstants DEF Nodes
  <2>2. Ends(brain.edges, at) \subseteq Nodes /\ Ends(brain.inverse_edges, at) \subseteq Nodes
    BY <1>4 DEF Ends, Brains, Pairs
  <2> QED
    BY <2>1, <2>2 DEF Node, Records, NodeRecords
<1>7. /\ \/ ~disk_full /\ disk_full' = FALSE /\ file' = file \o <<Node(brain, at)>>
         \/ disk_full' = TRUE /\ file' = file
  BY <1>1 DEF Write
<1>8. IsFile(file', Spawned) /\ file' # NoFile /\ (~disk_full' => Len(file') >= 1)
  <2>1. CASE file' = file \o <<Node(brain, at)>> /\ ~disk_full
    <3>1. IsFile(file', Spawned) /\ Len(file') >= 1
      BY <1>2, <1>4, <1>6, <2>1, FileGrows
    <3> QED
      BY <3>1, BrainConstants DEF IsFile
  <2>2. CASE file' = file /\ disk_full' = TRUE
    BY <1>4, <2>2
  <2> QED
    BY <1>7, <2>1, <2>2
<1>9. ASSUME ~file_mixed
      PROVE  /\ IsPartOf(file', brain)
             /\ Len(file') \in Nat /\ Len(file') <= WordCount(brain) + at + 1
             /\ ~disk_full' => Len(file') = WordCount(brain) + at + 1
  <2>0. /\ at \in 1 .. brain.node_count /\ BrainOK(brain, Spawned) /\ IsPartOf(file, brain)
        /\ Len(file) <= WordCount(brain) + at
        /\ ~disk_full => Len(file) = WordCount(brain) + at
    BY <1>2, <1>3, <1>4, <1>9
  <2>1. CASE ~disk_full /\ disk_full' = FALSE /\ file' = file \o <<Node(brain, at)>>
    <3>1. IsOneMore(file', file, Node(brain, at))
      BY <1>4, <1>6, <2>1, OneMore
    <3>2. IsPartOf(file', brain) /\ Len(file') = WordCount(brain) + at + 1
      BY <1>4, <2>0, <2>1, <3>1, NodeWritten
    <3>3. Len(file') \in Nat /\ Len(file') <= WordCount(brain) + at + 1
      BY <1>4, <1>5, <3>2
    <3> QED
      BY <2>1, <3>2, <3>3
  <2>2. CASE disk_full' = TRUE /\ file' = file
    <3>1. Len(file) <= WordCount(brain) + at + 1
      BY <1>4, <1>5, <2>0
    <3> QED
      BY <1>4, <2>0, <2>2, <3>1
  <2> QED
    BY <1>7, <2>1, <2>2
<1>10. /\ UNCHANGED <<lpc, pair, snapshot, interrupted, file_mixed, brain_mixed, sentences,
                      brain, node_count>>
       /\ Spawned' = Spawned /\ interrupted'
  BY <1>1, <1>4 DEF learner, history, mixed, Spawned, Pending
<1>11. /\ mpc' \in {"nodes", "close"}
       /\ mpc' = "nodes" => at' = at + 1 /\ at' \in 1 .. node_count'
       /\ mpc' = "close" => at = node_count /\ at' = 0
       /\ at' \in 0 .. MaxWords + 1 + MaxSentences
  BY <1>1, <1>2, <1>5, BrainConstants
<1>12. SavingInv'
  BY <1>2, <1>8, <1>10, <1>11 DEF SavingInv
<1>13. WrittenInv'
  <2> SUFFICES ASSUME ~file_mixed
               PROVE  WrittenInv'
    BY <1>10 DEF WrittenInv
  <2>1. snapshot' = brain' /\ ~brain_mixed' /\ node_count' = brain'.node_count /\ brain' = brain
    BY <1>3, <1>4, <1>10
  <2>2. CASE mpc' = "close"
    <3>1. ~disk_full' => Len(file') = Whole(snapshot')
      BY <1>3, <1>4, <1>9, <1>11, <2>1, <2>2 DEF Whole
    <3> QED
      BY <2>2, <3>1 DEF WrittenInv, Writing
  <2>3. CASE mpc' = "nodes"
    <3>1. /\ Len(file') <= WordCount(brain') + at'
          /\ ~disk_full' => Len(file') = WordCount(brain') + at'
      BY <1>4, <1>5, <1>9, <1>11, <2>1, <2>3
    <3> QED
      BY <2>1, <2>3, <3>1 DEF WrittenInv
  <2> QED
    BY <1>11, <2>2, <2>3
<1>14. node_count' \in Nat /\ disk_full' \in BOOLEAN
  BY <1>5, <1>7, <1>10
<1> QED
  BY <1>w, <1>1, <1>8, <1>9, <1>11, <1>12, <1>13, <1>14, SavingStep

LEMMA SaveCloseStep ==
    ASSUME BrainInv, SaveClose
    PROVE  BrainInv'
<1>1. /\ mpc = "close" /\ interrupted' = disk_full /\ disk_full' = FALSE
      /\ node_count' = 0 /\ mpc' = "loop"
      /\ UNCHANGED <<brain, file, at, lpc, pair, word, sentences, crashes, snapshot,
                     file_mixed, brain_mixed>>
  BY DEF SaveClose, learner, mixed
<1>2. Spawned' = Spawned
  BY <1>1 DEF Spawned, Pending
<1>3. ~file_mixed /\ ~disk_full => Len(file) = Whole(snapshot)
  BY <1>1 DEF BrainInv, WrittenInv
<1>4. file # NoFile
  BY <1>1 DEF BrainInv, SavingInv
<1>5. FileInv'
  BY <1>1, <1>2, <1>3, <1>4 DEF BrainInv, FileInv
<1>6. CountersInv'
  BY <1>1 DEF BrainInv, CountersInv
<1>7. LearnerInv'
  BY <1>1 DEF BrainInv, LearnerInv
<1>8. SavingInv' /\ WrittenInv'
  BY <1>1 DEF SavingInv, WrittenInv, Writing
<1> QED
  BY <1>1, <1>2, <1>5, <1>6, <1>7, <1>8 DEF BrainInv

----------------------------------------------------------------------------
(***************************************************************************)
(* wake(), boot, /load, /reset and the end of the process                   *)
(***************************************************************************)
\* Until its last record is written, the file is not whole.
LEMMA NotAllWritten ==
    ASSUME BrainInv, Writing, ~file_mixed
    PROVE  Len(file) # Whole(snapshot)
<1>1. /\ snapshot = brain /\ brain \in Brains /\ WordCount(brain) \in Nat
      /\ brain.node_count \in Nat /\ brain.node_count > MaxWords /\ Len(file) \in Nat
  BY WhileSaving, BrainConstants
<1>2. Len(file) < 1 + WordCount(brain) + brain.node_count
  <2>1. CASE mpc = "header"
    <3>1. Len(file) = 0
      BY <2>1 DEF BrainInv, SavingInv
    <3> QED
      BY <1>1, <3>1
  <2>2. CASE mpc = "words"
    <3>1. at \in Words /\ Len(file) <= 1 + Cardinality(SoFar(brain, at))
      BY <2>2 DEF BrainInv, SavingInv, WrittenInv, Words
    <3>2. Cardinality(SoFar(brain, at)) \in Nat /\ Cardinality(SoFar(brain, at)) <= WordCount(brain)
      <4>1. SoFar(brain, at) \in SUBSET brain.words
        BY DEF SoFar
      <4> QED
        BY <1>1, <4>1, WordCountType
    <3> QED
      BY <1>1, <3>1, <3>2, BrainConstants
  <2>3. CASE mpc = "nodes"
    <3>1. at \in 1 .. brain.node_count /\ Len(file) <= WordCount(brain) + at
      BY <2>3 DEF BrainInv, SavingInv, WrittenInv
    <3> QED
      BY <1>1, <3>1
  <2> QED
    BY <2>1, <2>2, <2>3 DEF Writing
<1> QED
  BY <1>1, <1>2 DEF Whole

\* What can be read back of a file no sentence was mixed up with is the brain that
\* was last saved, and nothing else; a save of it that ran to its end can be read
\* back. Of any other file comes a brain of which only the type is known.
SavedInv ==
    /\ ~file_mixed =>
           /\ ~Misread(file)
           /\ Readable(file) =>
                  /\ Loaded(file) = snapshot /\ snapshot # NoFile
                  /\ Len(file) = Whole(snapshot) /\ ~Writing
           /\ ~interrupted /\ snapshot # NoFile => Readable(file)
           /\ HasHeader(file) => BrainOK(Loaded(file), Spawned)
    /\ HasHeader(file) => BrainType(Loaded(file), Spawned)

LEMMA ReadsBack == BrainInv => SavedInv
<1> SUFFICES ASSUME BrainInv PROVE SavedInv
  OBVIOUS
<1>1. Spawned \in Nat
  BY SpawnedType DEF BrainInv
<1>2. CASE file = NoFile /\ snapshot = NoFile
  BY <1>2, NothingToRead DEF HasHeader, SavedInv
<1>3. CASE /\ IsFile(file, Spawned) /\ snapshot \in Brains
           /\ ~file_mixed =>
                  /\ BrainOK(snapshot, Spawned) /\ IsPartOf(file, snapshot)
                  /\ ~interrupted => Len(file) = Whole(snapshot)
  <2>1. snapshot # NoFile
    BY <1>3, BrainConstants
  <2>2. HasHeader(file) => BrainType(Loaded(file), Spawned)
    BY <1>1, <1>3, FileLoads
  <2>3. ASSUME ~file_mixed
        PROVE  /\ ~Misread(file)
               /\ Readable(file) => Len(file) = Whole(snapshot)
               /\ Len(file) = Whole(snapshot) => Readable(file) /\ Loaded(file) = snapshot
               /\ HasHeader(file) => BrainOK(Loaded(file), Spawned)
    <3>0. BrainOK(snapshot, Spawned) /\ IsPartOf(file, snapshot)
      BY <1>3, <2>3
    <3>1. ~Misread(file) /\ (Readable(file) => Len(file) = Whole(snapshot))
      BY <1>1, <3>0, PartReadsToEnd, NothingToRead
    <3>2. Len(file) = Whole(snapshot) => Readable(file) /\ Loaded(file) = snapshot
      BY <1>1, <3>0, WholeLoads
    <3>3. HasHeader(file) => BrainOK(Loaded(file), Spawned)
      BY <1>1, <3>0, PartLoadsBrain DEF HasHeader
    <3> QED
      BY <3>1, <3>2, <3>3
  <2> QED
    BY <1>3, <2>1, <2>2, <2>3, NotAllWritten DEF SavedInv
<1> QED
  BY <1>2, <1>3 DEF BrainInv, FileInv

LEMMA BootStep ==
    ASSUME BrainInv, Boot
    PROVE  BrainInv'
<1>1. /\ mpc = "boot" /\ mpc' = "loop"
      /\ UNCHANGED <<file, at, node_count, disk_full, lpc, pair, word, sentences, crashes,
                     snapshot, interrupted, file_mixed>>
  BY DEF Boot, saving, learner
<1>2. \/ /\ Readable(file) \/ Misread(file)
         /\ brain' = Loaded(file) /\ brain_mixed' = file_mixed
      \/ brain' = Newborn /\ brain_mixed' = FALSE
  BY DEF Boot
<1>3. lpc = "idle" /\ Spawned \in Nat
  BY <1>1, SpawnedType DEF BrainInv, LearnerInv
<1>4. Spawned' = Spawned
  BY <1>1 DEF Spawned, Pending
<1>5. BrainType(brain', Spawned) /\ (~brain_mixed' => BrainOK(brain', Spawned))
  <2>1. CASE brain' = Newborn
    BY <1>3, <2>1, NewbornOK DEF BrainOK
  <2>2. CASE /\ Readable(file) \/ Misread(file)
             /\ brain' = Loaded(file) /\ brain_mixed' = file_mixed
    <3>1. HasHeader(file)
      BY <2>2 DEF Readable, Misread
    <3> QED
      BY <2>2, <3>1, ReadsBack DEF SavedInv
  <2> QED
    BY <1>2, <2>1, <2>2
<1>6. CountersInv'
  <2>1. brain_mixed' \in BOOLEAN
    BY <1>2 DEF BrainInv, CountersInv
  <2> QED
    BY <1>1, <2>1 DEF BrainInv, CountersInv
<1>7. LearnerInv'
  BY <1>1, <1>3 DEF BrainInv, LearnerInv
<1>8. FileInv'
  BY <1>1, <1>4 DEF BrainInv, FileInv
<1>9. SavingInv' /\ WrittenInv'
  BY <1>1 DEF SavingInv, WrittenInv, Writing
<1> QED
  BY <1>4, <1>5, <1>6, <1>7, <1>8, <1>9 DEF BrainInv

LEMMA LoadStep ==
    ASSUME BrainInv, Load
    PROVE  BrainInv'
<1>1. /\ mpc = "loop" /\ HasHeader(file) /\ brain' = Loaded(file)
      /\ brain_mixed' = (file_mixed \/ lpc # "idle")
      /\ UNCHANGED <<file, mpc, at, node_count, disk_full, lpc, pair, word, sentences,
                     crashes, snapshot, interrupted, file_mixed>>
  BY DEF Load, saving, learner
<1>2. Spawned' = Spawned
  BY <1>1 DEF Spawned, Pending
<1>3. BrainType(brain', Spawned) /\ (~brain_mixed' => BrainOK(brain', Spawned))
  BY <1>1, ReadsBack DEF SavedInv
<1>4. CountersInv'
  BY <1>1 DEF BrainInv, CountersInv
<1>5. LearnerInv'
  BY <1>1 DEF BrainInv, LearnerInv
<1>6. FileInv'
  BY <1>1, <1>2 DEF BrainInv, FileInv
<1>7. SavingInv' /\ WrittenInv'
  BY <1>1 DEF SavingInv, WrittenInv, Writing
<1> QED
  BY <1>2, <1>3, <1>4, <1>5, <1>6, <1>7 DEF BrainInv

LEMMA ResetStep ==
    ASSUME BrainInv, Reset
    PROVE  BrainInv'
<1>1. /\ mpc = "loop" /\ file' = NoFile /\ brain' = Newborn
      /\ snapshot' = NoFile /\ interrupted' = FALSE
      /\ file_mixed' = FALSE /\ brain_mixed' = (lpc # "idle")
      /\ UNCHANGED <<mpc, at, node_count, disk_full, lpc, pair, word, sentences, crashes>>
  BY DEF Reset, saving, learner
<1>2. Spawned' = Spawned /\ Spawned \in Nat
  BY <1>1, SpawnedType DEF BrainInv, Spawned, Pending
<1>3. BrainType(brain', Spawned) /\ BrainOK(brain', Spawned)
  BY <1>1, <1>2, NewbornOK DEF BrainOK
<1>4. CountersInv'
  BY <1>1 DEF BrainInv, CountersInv
<1>5. LearnerInv'
  BY <1>1 DEF BrainInv, LearnerInv
<1>6. FileInv'
  BY <1>1 DEF FileInv
<1>7. SavingInv' /\ WrittenInv'
  BY <1>1 DEF SavingInv, WrittenInv, Writing
<1> QED
  BY <1>2, <1>3, <1>4, <1>5, <1>6, <1>7 DEF BrainInv

LEMMA CrashStep ==
    ASSUME BrainInv, Crash
    PROVE  BrainInv'
<1>1. /\ mpc # "boot" /\ mpc' = "boot" /\ crashes < MaxCrashes /\ crashes' = crashes + 1
      /\ IF mpc = "loop" THEN file' = file
                         ELSE \E n \in 0 .. Len(file) : file' = SubSeq(file, 1, n)
      /\ at' = 0 /\ node_count' = 0 /\ disk_full' = FALSE
      /\ lpc' = "idle" /\ pair' = <<0, 0>> /\ word' = 0
      /\ UNCHANGED <<brain, sentences, snapshot, interrupted, file_mixed, brain_mixed>>
  BY DEF Crash, history, mixed
<1> DEFINE s == Spawned
           t == Spawned'
<1>2. s \in Nat /\ t \in Nat /\ s <= t
  <2>1. Spawned' = sentences /\ sentences \in Nat
    BY <1>1, BrainConstants DEF Spawned, Pending, BrainInv, CountersInv
  <2> QED
    BY <2>1, SpawnedType DEF BrainInv
<1>3. BrainType(brain, s) /\ (~brain_mixed => BrainOK(brain, s)) /\ FileInv
  BY DEF BrainInv
<1>4. BrainType(brain', t) /\ (~brain_mixed' => BrainOK(brain', t))
  <2> HIDE DEF s, t
  <2>1. BrainType(brain, t) /\ (~brain_mixed => BrainOK(brain, t))
    BY <1>2, <1>3, BrainLater
  <2> QED
    BY <1>1, <2>1
<1>5. CountersInv'
  <2>1. crashes \in 0 .. MaxCrashes
    BY DEF BrainInv, CountersInv
  <2>2. crashes' \in 0 .. MaxCrashes
    BY <1>1, <2>1, BrainConstants
  <2>3. at' \in 0 .. MaxWords + 1 + MaxSentences
    BY <1>1, BrainConstants
  <2> QED
    BY <1>1, <2>2, <2>3 DEF BrainInv, CountersInv
<1>6. LearnerInv'
  BY <1>1 DEF LearnerInv
<1>7. FileInv'
  <2>1. CASE file = NoFile /\ snapshot = NoFile /\ ~interrupted /\ ~file_mixed
    <3>1. mpc = "loop"
      BY <1>1, <2>1 DEF BrainInv, CountersInv, SavingInv
    <3> QED
      BY <1>1, <2>1, <3>1 DEF FileInv
  <2>2. CASE /\ IsFile(file, s) /\ snapshot \in Brains
             /\ ~file_mixed =>
                    /\ BrainOK(snapshot, s) /\ IsPartOf(file, snapshot)
                    /\ ~interrupted => Len(file) = Whole(snapshot)
    <3> HIDE DEF s, t
    <3>1. IsFile(file, t) /\ (~file_mixed => BrainOK(snapshot, t))
      BY <1>2, <2>2, FileLater, BrainLater
    <3>2. CASE mpc = "loop"
      <4>1. file' = file
        BY <1>1, <3>2
      <4> QED
        BY <1>1, <2>2, <3>1, <4>1 DEF FileInv, t
    <3>3. CASE mpc # "loop"
      <4>1. PICK n \in 0 .. Len(file) : file' = SubSeq(file, 1, n)
        BY <1>1, <3>3
      <4>2. interrupted
        BY <1>1, <3>3 DEF BrainInv, CountersInv, SavingInv
      <4>3. IsFile(file', t)
        BY <1>2, <3>1, <4>1, FilePrefix
      <4>4. ~file_mixed => IsPartOf(file', snapshot)
        BY <1>2, <2>2, <4>1, PartOfPart
      <4> QED
        BY <1>1, <2>2, <3>1, <4>2, <4>3, <4>4 DEF FileInv, t
    <3> QED
      BY <3>2, <3>3
  <2> QED
    BY <1>3, <2>1, <2>2 DEF FileInv
<1>8. SavingInv' /\ WrittenInv'
  BY <1>1 DEF SavingInv, WrittenInv, Writing
<1> QED
  BY <1>4, <1>5, <1>6, <1>7, <1>8 DEF BrainInv

----------------------------------------------------------------------------
LEMMA InitBrain == BrainInit => BrainInv
<1> SUFFICES ASSUME BrainInit PROVE BrainInv
  OBVIOUS
<1>1. Spawned = 0
  BY DEF BrainInit, Spawned, Pending
<1>2. BrainType(brain, Spawned) /\ BrainOK(brain, Spawned)
  BY <1>1, NewbornOK DEF BrainInit, BrainOK
<1>3. CountersInv
  <2>1. 0 \in 0 .. MaxWords + 1 + MaxSentences /\ 0 \in 0 .. MaxSentences /\ 0 \in 0 .. MaxCrashes
    BY BrainConstants
  <2> QED
    BY <2>1 DEF BrainInit, CountersInv
<1>4. LearnerInv /\ FileInv /\ SavingInv /\ WrittenInv
  BY DEF BrainInit, LearnerInv, FileInv, SavingInv, WrittenInv, Writing
<1> QED
  BY <1>2, <1>3, <1>4 DEF BrainInv

LEMMA BrainStep ==
    ASSUME BrainInv, [BrainNext]_brainVars
    PROVE  BrainInv'
<1>1. CASE Learn
  BY <1>1, LearnStep
<1>2. CASE Save
  BY <1>2, SaveOpenStep, SaveHeaderStep, SaveWordStep, SaveNodeStep, SaveCloseStep DEF Save
<1>3. CASE Boot \/ Load \/ Reset \/ Crash
  BY <1>3, BootStep, LoadStep, ResetStep, CrashStep
<1>4. CASE UNCHANGED brainVars
  BY <1>4 DEF brainVars, saving, learner, history, mixed, BrainInv, CountersInv, LearnerInv,
     FileInv, SavingInv, WrittenInv, Writing, Spawned, Pending
<1> QED
  BY <1>1, <1>2, <1>3, <1>4 DEF BrainNext

LEMMA BrainInductive == BrainSpec => []BrainInv
BY InitBrain, BrainStep, PTL DEF BrainSpec

LEMMA InvIsSound == BrainInv => BrainSound
<1> SUFFICES ASSUME BrainInv PROVE BrainSound
  OBVIOUS
<1>1. \/ file = NoFile
      \/ /\ file \in Seq(Records)
         /\ \A i \in 1 .. Len(file) : file[i].kind = "header" <=> i = 1
  BY DEF BrainInv, FileInv, IsFile
<1>2. brain \in Brains /\ snapshot \in Brains \union {NoFile}
  BY DEF BrainInv, FileInv, BrainType
<1>3. BrainTypeOK
  BY <1>1, <1>2 DEF BrainInv, CountersInv, LearnerInv, BrainTypeOK
<1>4. EdgesNameNodes
  BY DEF BrainInv, BrainOK, EdgesNameNodes
<1> QED
  BY <1>3, <1>4 DEF BrainSound

\* The brain and its file have the form the code relies on, and every edge joins
\* nodes of the graph, until a sentence is caught in a save, a /load or a /reset.
THEOREM BrainStaysSound == BrainSpec => []BrainSound
BY BrainInductive, InvIsSound, PTL

\* A boot gives back the last brain saved, whole, or else a newborn one, if no
\* sentence was learned during that save.
THEOREM BootsWhole == BrainSpec => BootRecovers
<1> DEFINE Recovered == IF interrupted THEN brain' \in {Newborn, snapshot}
                     ELSE brain' = IF snapshot = NoFile THEN Newborn ELSE snapshot
<1>1. ASSUME BrainInv, Boot, ~file_mixed
      PROVE  Recovered
  <2>1. /\ ~Misread(file)
        /\ Readable(file) => Loaded(file) = snapshot /\ snapshot # NoFile
        /\ ~interrupted /\ snapshot # NoFile => Readable(file)
    BY <1>1, ReadsBack DEF SavedInv
  <2>2. \/ Readable(file) /\ brain' = Loaded(file)
        \/ ~Readable(file) /\ brain' = Newborn
    BY <1>1, <2>1 DEF Boot
  <2> QED
    BY <2>1, <2>2
<1>2. BrainInv => [Boot /\ ~file_mixed => Recovered]_brainVars
  BY <1>1
<1> QED
  BY <1>2, BrainInductive, PTL DEF BootRecovers

----------------------------------------------------------------------------
(***************************************************************************)
(* The store                                                                *)
(***************************************************************************)
\* add_edge() changes a table by at most one edge for another.
LEMMA AddedOne ==
    ASSUME NEW table \in SUBSET Pairs, NEW p \in Pairs, NEW t \in Added(table, p)
    PROVE  \/ t = table
           \/ p \in t /\ \E old \in table \union {p} : t = (table \ {old}) \union {p}
<1>1. CASE t = table \union {p}
  <2>1. t = (table \ {p}) \union {p}
    BY <1>1
  <2> QED
    BY <1>1, <2>1
<1>2. ASSUME NEW n \in Ends(table, p[1]), t = (table \ {<<p[1], n>>}) \union {p}
      PROVE  p \in t /\ \E old \in table \union {p} : t = (table \ {old}) \union {p}
  <2>1. PICK q \in table : q[1] = p[1] /\ n = q[2]
    BY <1>2 DEF Ends
  <2>2. q = <<p[1], n>>
    BY <2>1 DEF Pairs
  <2>3. <<p[1], n>> \in table
    BY <2>1, <2>2
  <2> QED
    BY <1>2, <2>3
<1>3. \/ t \in {table, table \union {p}}
      \/ \E n \in Ends(table, p[1]) : t = (table \ {<<p[1], n>>}) \union {p}
  <2>1. CASE p \in table \/ Cardinality(Ends(table, p[1])) < MAX_FANOUT
    BY <2>1 DEF Added
  <2>2. CASE ~(p \in table \/ Cardinality(Ends(table, p[1])) < MAX_FANOUT)
    BY <2>2 DEF Added
  <2> QED
    BY <2>1, <2>2
<1> QED
  BY <1>1, <1>2, <1>3

LEMMA LearnerGrows ==
    ASSUME BrainInv, BrainInv', Learn, ~brain_mixed
    PROVE  Store!Grows \/ AtHand' = AtHand
<1>t. /\ BrainOK(brain, Spawned) /\ LearnerInv
      /\ brain \in Brains /\ brain' \in Brains /\ brain.node_count \in Nat
      /\ brain.edges \in SUBSET Pairs /\ brain.inverse_edges \in SUBSET Pairs
  BY DEF BrainInv, BrainType, Brains
<1>1. AtHand = brain /\ AtHand' = brain' /\ Mixed \notin {brain, brain'}
  <2>1. ~brain_mixed'
    BY LearnerSteps
  <2> QED
    BY <1>t, <2>1, BrainConstants DEF AtHand
<1>2. CASE PerceiveFirst \/ PerceiveSecond
  <2>1. PICK w \in Words : brain' = [brain EXCEPT !.words = @ \union {w}]
    BY <1>2 DEF PerceiveFirst, PerceiveSecond
  <2>2. w \in brain'.words
    BY <1>t, <2>1 DEF Brains
  <2> QED
    BY <1>1, <2>1, <2>2 DEF Store!Grows
<1>3. CASE Link
  <2>1. PICK t \in Added(brain.edges, pair) : brain' = [brain EXCEPT !.edges = t]
    BY <1>3 DEF Link
  <2>2. pair \in Pairs
    BY <1>t, <1>3 DEF Link, LearnerInv
  <2>3. CASE t = brain.edges
    BY <1>t, <1>1, <2>1, <2>3 DEF Brains
  <2>4. CASE pair \in t /\ \E old \in brain.edges \union {pair} :
                               t = (brain.edges \ {old}) \union {pair}
    <3>1. PICK old \in brain.edges \union {pair} : t = (brain.edges \ {old}) \union {pair}
      BY <2>4
    <3>2. pair \in brain'["edges"] /\ old \in brain["edges"] \union {pair}
      BY <1>t, <2>1, <2>4 DEF Brains
    <3>3. brain' = [brain EXCEPT !["edges"] = (@ \ {old}) \union {pair}]
      BY <1>t, <2>1, <3>1 DEF Brains
    <3> QED
      BY <1>1, <3>2, <3>3 DEF Store!Grows
  <2> QED
    BY <1>t, <2>2, <2>3, <2>4, AddedOne
<1>4. CASE LinkBack
  <2> DEFINE back == <<pair[2], pair[1]>>
  <2>1. PICK t \in Added(brain.inverse_edges, back) :
            brain' = [brain EXCEPT !.inverse_edges = t]
    BY <1>4 DEF LinkBack
  <2>2. back \in Pairs
    BY <1>t, <1>4 DEF LinkBack, LearnerInv, Pairs
  <2> HIDE DEF back
  <2>3. CASE t = brain.inverse_edges
    BY <1>t, <1>1, <2>1, <2>3 DEF Brains
  <2>4. CASE back \in t /\ \E old \in brain.inverse_edges \union {back} :
                               t = (brain.inverse_edges \ {old}) \union {back}
    <3>1. PICK old \in brain.inverse_edges \union {back} :
              t = (brain.inverse_edges \ {old}) \union {back}
      BY <2>4
    <3>2. back \in brain'["inverse_edges"] /\ old \in brain["inverse_edges"] \union {back}
      BY <1>t, <2>1, <2>4 DEF Brains
    <3>3. brain' = [brain EXCEPT !["inverse_edges"] = (@ \ {old}) \union {back}]
      BY <1>t, <2>1, <3>1 DEF Brains
    <3> QED
      BY <1>1, <3>2, <3>3 DEF Store!Grows
  <2> QED
    BY <1>t, <2>2, <2>3, <2>4, AddedOne
<1>5. CASE SpawnNode
  <2> DEFINE n == brain.node_count + 1
  <2>1. brain' = [brain EXCEPT !.node_count = n, !.edges = {p \in @ : p[1] # n},
                               !.inverse_edges = {p \in @ : p[1] # n}]
    BY <1>5 DEF SpawnNode
  <2>2. \A p \in brain.edges \union brain.inverse_edges : p[1] # n
    <3>1. \A p \in brain.edges \union brain.inverse_edges :
              p \in Pairs /\ p[1] <= brain.node_count
      BY <1>t DEF BrainOK
    <3>2. \A p \in Pairs : p[1] \in Nat
      BY BrainConstants DEF Pairs, Nodes
    <3> QED
      BY <1>t, <3>1, <3>2
  <2> HIDE DEF n
  <2>3. /\ {p \in brain.edges : p[1] # n} = brain.edges
        /\ {p \in brain.inverse_edges : p[1] # n} = brain.inverse_edges
    BY <2>2
  <2>4. brain' = [brain EXCEPT !.node_count = n]
    BY <1>t, <2>1, <2>3 DEF Brains
  <2>5. brain' = [brain EXCEPT !.node_count = @ + 1]
    BY <1>t, <2>4 DEF Brains, n
  <2> QED
    BY <1>1, <2>5 DEF Store!Grows
<1> QED
  BY <1>2, <1>3, <1>4, <1>5 DEF Learn

LEMMA LearnStores ==
    ASSUME BrainInv, BrainInv', Learn
    PROVE  Store!Learn \/ Store!CaughtInSave \/ UNCHANGED <<AtHand, OnDisk>>
<1>1. file' = file /\ brain_mixed' = brain_mixed /\ file_mixed' = (file_mixed \/ Writing)
  BY LearnerSteps
<1>2. OnDisk' = OnDisk \/ (OnDisk' = Mixed /\ Writing /\ ~file_mixed)
  BY <1>1 DEF OnDisk
<1>3. CASE brain_mixed
  <2>1. AtHand' = AtHand
    BY <1>1, <1>3 DEF AtHand
  <2>2. Writing => file_mixed
    BY <1>3, WhileSaving
  <2> QED
    BY <1>2, <2>1, <2>2
<1>4. CASE ~brain_mixed
  <2>1. Store!Grows \/ AtHand' = AtHand
    BY <1>4, LearnerGrows
  <2> QED
    BY <1>2, <2>1 DEF Store!Learn, Store!CaughtInSave
<1> QED
  BY <1>3, <1>4

LEMMA SaveStores ==
    ASSUME BrainInv, BrainInv', SavedInv, SavedInv', Save
    PROVE  Store!GiveUp \/ Store!Put \/ Store!CaughtInSave \/ UNCHANGED <<AtHand, OnDisk>>
<1>1. brain' = brain /\ brain_mixed' = brain_mixed /\ AtHand' = AtHand
  BY DEF Save, SaveOpen, SaveHeader, SaveWord, SaveNode, SaveClose, history, mixed, AtHand
<1>2. CASE SaveOpen
  <2>1. file' = <<>> /\ file_mixed' = brain_mixed
    BY <1>2 DEF SaveOpen
  <2>2. CASE brain_mixed
    <3>1. OnDisk' = Mixed
      BY <2>1, <2>2 DEF OnDisk
    <3> QED
      BY <1>1, <3>1 DEF Store!CaughtInSave
  <2>3. CASE ~brain_mixed
    <3>1. OnDisk' = NoFile
      BY <2>1, <2>3, NothingToRead DEF OnDisk
    <3> QED
      BY <1>1, <3>1 DEF Store!GiveUp
  <2> QED
    BY <2>2, <2>3
<1>3. CASE SaveHeader \/ SaveWord \/ SaveNode \/ SaveClose
  <2>1. file_mixed' = file_mixed /\ snapshot' = snapshot
    BY <1>3 DEF SaveHeader, SaveWord, SaveNode, SaveClose, history, mixed
  <2>2. CASE file_mixed
    BY <1>1, <2>1, <2>2 DEF OnDisk
  <2>3. CASE ~file_mixed /\ (SaveHeader \/ SaveWord)
    <3>1. Writing /\ Writing'
      BY <2>3 DEF SaveHeader, SaveWord, Writing
    <3>2. ~Readable(file) /\ ~Readable(file')
      BY <2>1, <2>3, <3>1 DEF SavedInv
    <3> QED
      BY <1>1, <2>1, <3>2 DEF OnDisk
  <2>4. CASE ~file_mixed /\ SaveNode
    <3>1. Writing
      BY <2>4 DEF SaveNode, Writing
    <3>2. OnDisk = NoFile
      BY <2>4, <3>1 DEF SavedInv, OnDisk
    <3>3. snapshot = brain /\ AtHand = brain
      BY <2>4, <3>1, WhileSaving DEF AtHand
    <3>4. OnDisk' = NoFile \/ OnDisk' = AtHand
      BY <2>1, <2>4, <3>3 DEF OnDisk, SavedInv
    <3> QED
      BY <1>1, <3>2, <3>4 DEF Store!Put
  <2>5. CASE SaveClose
    BY <1>1, <2>1, <2>5 DEF SaveClose, OnDisk
  <2> QED
    BY <1>3, <2>2, <2>3, <2>4, <2>5
<1> QED
  BY <1>2, <1>3 DEF Save

LEMMA BootStores ==
    ASSUME SavedInv, Boot
    PROVE  Store!Wake \/ Store!ColdStart
<1>1. OnDisk' = OnDisk
  BY DEF Boot, OnDisk
<1>2. \/ /\ Readable(file) \/ Misread(file)
         /\ brain' = Loaded(file) /\ brain_mixed' = file_mixed
      \/ ~Readable(file) /\ brain' = Newborn /\ brain_mixed' = FALSE
  BY DEF Boot
<1>3. CASE file_mixed
  <2>1. OnDisk = Mixed /\ OnDisk # NoFile
    BY <1>3, BrainConstants DEF OnDisk
  <2>2. AtHand' = Mixed \/ AtHand' = Newborn
    BY <1>2, <1>3 DEF AtHand
  <2> QED
    BY <1>1, <2>1, <2>2 DEF Store!Wake, Store!ColdStart
<1>4. CASE ~file_mixed
  <2>1. ~Misread(file) /\ (Readable(file) => Loaded(file) = snapshot /\ snapshot # NoFile)
    BY <1>4 DEF SavedInv
  <2>2. CASE Readable(file) /\ brain' = Loaded(file) /\ brain_mixed' = file_mixed
    <3>1. OnDisk = Loaded(file) /\ OnDisk # NoFile /\ AtHand' = OnDisk
      BY <1>4, <2>1, <2>2 DEF OnDisk, AtHand
    <3> QED
      BY <1>1, <3>1 DEF Store!Wake
  <2>3. CASE ~Readable(file) /\ brain' = Newborn /\ brain_mixed' = FALSE
    <3>1. OnDisk = NoFile /\ AtHand' = Newborn
      BY <1>4, <2>3 DEF OnDisk, AtHand
    <3> QED
      BY <1>1, <3>1 DEF Store!ColdStart
  <2> QED
    BY <1>2, <2>1, <2>2, <2>3
<1> QED
  BY <1>3, <1>4

LEMMA LoadStores ==
    ASSUME SavedInv, Load
    PROVE  Store!Wake \/ Store!LoadFails \/ Store!CaughtInLoad
<1>1. /\ OnDisk' = OnDisk /\ brain' = Loaded(file)
      /\ brain_mixed' = (file_mixed \/ lpc # "idle")
  BY DEF Load, OnDisk
<1>2. CASE brain_mixed'
  BY <1>1, <1>2 DEF AtHand, Store!CaughtInLoad
<1>3. CASE ~brain_mixed'
  <2>1. ~file_mixed /\ AtHand' = Loaded(file)
    BY <1>1, <1>3 DEF AtHand
  <2>2. CASE Readable(file)
    <3>1. OnDisk = Loaded(file) /\ OnDisk # NoFile
      BY <2>1, <2>2 DEF OnDisk, SavedInv
    <3> QED
      BY <1>1, <2>1, <3>1 DEF Store!Wake
  <2>3. CASE ~Readable(file)
    <3>1. OnDisk = NoFile
      BY <2>1, <2>3 DEF OnDisk
    <3> QED
      BY <1>1, <3>1 DEF Store!LoadFails
  <2> QED
    BY <2>2, <2>3
<1> QED
  BY <1>2, <1>3

LEMMA ResetStores ==
    ASSUME Reset
    PROVE  Store!Reset \/ Store!CaughtInLoad
<1>1. /\ file' = NoFile /\ brain' = Newborn /\ file_mixed' = FALSE
      /\ brain_mixed' = (lpc # "idle")
  BY DEF Reset
<1>2. OnDisk' = NoFile
  BY <1>1, NothingToRead DEF OnDisk
<1>3. AtHand' = Mixed \/ AtHand' = Newborn
  BY <1>1 DEF AtHand
<1> QED
  BY <1>2, <1>3 DEF Store!Reset, Store!CaughtInLoad

LEMMA CrashStores ==
    ASSUME BrainInv, BrainInv', SavedInv, SavedInv', Crash
    PROVE  Store!GiveUp \/ UNCHANGED <<AtHand, OnDisk>>
<1>1. /\ AtHand' = AtHand /\ snapshot' = snapshot /\ file_mixed' = file_mixed
      /\ IF mpc = "loop" THEN file' = file
                         ELSE \E n \in 0 .. Len(file) : file' = SubSeq(file, 1, n)
  BY DEF Crash, history, mixed, AtHand
<1>2. CASE file_mixed \/ mpc = "loop"
  BY <1>1, <1>2 DEF OnDisk
<1>3. CASE ~file_mixed /\ mpc # "loop"
  <2>1. PICK n \in 0 .. Len(file) : file' = SubSeq(file, 1, n)
    BY <1>1, <1>3
  <2>2. file # NoFile
    BY <1>3 DEF Crash, BrainInv, CountersInv, SavingInv
  <2>3. Spawned \in Nat /\ BrainOK(snapshot, Spawned) /\ IsPartOf(file, snapshot)
    BY <1>3, <2>2, SpawnedType DEF BrainInv, FileInv
  <2>4. /\ Len(file') = n /\ Len(file) \in Nat /\ Len(file) <= Whole(snapshot)
        /\ Whole(snapshot) \in Nat
    BY <2>1, <2>3, PartOfPart, PartTypes
  <2>5. CASE Readable(file')
    <3>1. Len(file') = Whole(snapshot) /\ Loaded(file') = snapshot
      BY <1>1, <1>3, <2>5 DEF SavedInv
    <3>2. Len(file) = Whole(snapshot)
      BY <2>4, <3>1
    <3>3. Readable(file) /\ Loaded(file) = snapshot
      BY <2>3, <3>2, WholeLoads
    <3> QED
      BY <1>1, <1>3, <2>5, <3>1, <3>3 DEF OnDisk
  <2>6. CASE ~Readable(file')
    <3>1. OnDisk' = NoFile
      BY <1>1, <1>3, <2>6 DEF OnDisk
    <3> QED
      BY <1>1, <3>1 DEF Store!GiveUp
  <2> QED
    BY <2>5, <2>6
<1> QED
  BY <1>2, <1>3

\* The daemon and its file are a store of one whole brain or none: a save gives up
\* the old brain and then puts the new one there, all at once, and a wake gets
\* what was put. A sentence caught in a save, a /load or a /reset makes of it one
\* of which nothing is promised, and so do the saves and wakes of that brain.
THEOREM SavesImplementStore == BrainSpec => ImplementsStore
<1>1. BrainInit => Store!StoreInit
  BY NothingToRead DEF BrainInit, Store!StoreInit, OnDisk, AtHand
<1>2. BrainInv /\ BrainInv' /\ SavedInv /\ SavedInv' /\ [BrainNext]_brainVars
        => [Store!StoreNext]_<<AtHand, OnDisk>>
  <2> SUFFICES ASSUME BrainInv, BrainInv', SavedInv, SavedInv', [BrainNext]_brainVars
               PROVE  Store!StoreNext \/ UNCHANGED <<AtHand, OnDisk>>
    OBVIOUS
  <2>1. CASE Learn
    BY <2>1, LearnStores DEF Store!StoreNext
  <2>2. CASE Save
    BY <2>2, SaveStores DEF Store!StoreNext
  <2>3. CASE Boot
    BY <2>3, BootStores DEF Store!StoreNext
  <2>4. CASE Load
    BY <2>4, LoadStores DEF Store!StoreNext
  <2>5. CASE Reset
    BY <2>5, ResetStores DEF Store!StoreNext
  <2>6. CASE Crash
    BY <2>6, CrashStores DEF Store!StoreNext
  <2>7. CASE UNCHANGED brainVars
    BY <2>7 DEF brainVars, history, mixed, OnDisk, AtHand
  <2> QED
    BY <2>1, <2>2, <2>3, <2>4, <2>5, <2>6, <2>7 DEF BrainNext
<1> QED
  BY <1>1, <1>2, BrainInductive, ReadsBack, PTL DEF BrainSpec, ImplementsStore, Store!StoreSpec

----------------------------------------------------------------------------
(***************************************************************************)
(* Artefacts                                                                *)
(***************************************************************************)
LEMMA ConstantTypes ==
    /\ \A b \in Sizes : b \in Nat /\ b > 0
    /\ None \notin Slugs
    /\ PerArtefactCap \in Nat /\ TotalCap \in Nat
    /\ IdleEpisodes \in Nat /\ IdleEpisodes > 0
    /\ MaxEpisode \in Nat /\ MaxTime \in Nat /\ MaxRecords \in Nat
BY ArtefactsAssumption

USE ConstantTypes

LEMMA InitInv == Init => TypeOK /\ IdleIsPruned /\ LoadedWasAccepted /\ StraysAreKnown
BY DEF Init, TypeOK, IdleIsPruned, LoadedWasAccepted, StraysAreKnown, Live, Accounted

LEMMA FreshType ==
    ASSUME TypeOK, NEW s \in Slugs, NEW b \in Sizes
    PROVE  Fresh(s, b) \in Record
<1>1. /\ episode \in Nat /\ now \in Nat /\ b \in Nat
  BY DEF TypeOK
<1> QED
  BY <1>1 DEF Fresh, Record

\* What the list of records is after an artefact was registered.
LEMMA RegisteredRecords ==
    ASSUME TypeOK, NEW s \in Slugs, NEW b \in Sizes,
           s \in Accounted \/ Len(records) < MaxRecords, records' = Registered(s, b)
    PROVE  /\ records' \in Seq(Record) /\ Len(records') <= MaxRecords
           /\ \A i \in Live' : \/ i \in Live /\ records[i].path # s /\ records'[i] = records[i]
                               \/ records'[i] = Fresh(s, b)
           /\ \A i, j \in Live' : records'[i].path = records'[j].path => i = j
           /\ Accounted' = Accounted \union {s}
           /\ \E i \in DOMAIN records' : records'[i] = Fresh(s, b)
<1>1. Fresh(s, b) \in Record /\ Fresh(s, b).path = s /\ ~Fresh(s, b).pruned
  BY FreshType DEF Fresh
<1>2. CASE s \in Accounted
  <2>1. records' = Touched(s, b)
    BY <1>2 DEF Registered
  <2>2. /\ DOMAIN records' = DOMAIN records
        /\ \A i \in DOMAIN records :
             records'[i] = IF i \in Live /\ records[i].path = s THEN Fresh(s, b)
                           ELSE records[i]
    BY <2>1 DEF Touched
  <2>3. records' \in Seq(Record) /\ Len(records') = Len(records)
    BY <1>1, <2>1, <2>2 DEF TypeOK, Touched
  <2>4. Live' = Live
    BY <1>1, <2>2 DEF Live
  <2>5. PICK k \in Live : records[k].path = s
    BY <1>2 DEF Accounted
  <2>6. \A i \in Live : records'[i].path = records[i].path
    BY <1>1, <2>2 DEF Live
  <2>7. Accounted' = Accounted
    BY <2>4, <2>6 DEF Accounted
  <2>8. \A i, j \in Live' : records'[i].path = records'[j].path => i = j
    BY <2>4, <2>6 DEF TypeOK
  <2>9. Len(records') <= MaxRecords /\ Accounted \union {s} = Accounted
    BY <1>2, <2>3 DEF TypeOK
  <2>10. k \in DOMAIN records' /\ records'[k] = Fresh(s, b)
    BY <2>2, <2>5 DEF Live
  <2>11. \A i \in Live' : \/ i \in Live /\ records[i].path # s /\ records'[i] = records[i]
                          \/ records'[i] = Fresh(s, b)
    BY <2>2, <2>4 DEF Live
  <2> QED
    BY <2>3, <2>7, <2>8, <2>9, <2>10, <2>11
<1>3. CASE s \notin Accounted
  <2>1. records' = Append(records, Fresh(s, b))
    BY <1>3 DEF Registered
  <2>2. /\ records' \in Seq(Record) /\ Len(records') = Len(records) + 1
        /\ DOMAIN records' = 1 .. Len(records) + 1 /\ DOMAIN records = 1 .. Len(records)
        /\ \A i \in DOMAIN records : records'[i] = records[i]
        /\ records'[Len(records) + 1] = Fresh(s, b) /\ Len(records) \in Nat
    BY <1>1, <2>1 DEF TypeOK
  <2>3. Live' = Live \union {Len(records) + 1} /\ Live \subseteq DOMAIN records
    BY <1>1, <2>2 DEF Live
  <2>4. \A i \in Live : records[i].path # s
    BY <1>3 DEF Accounted
  <2>5. Accounted' = Accounted \union {s}
    BY <1>1, <2>2, <2>3 DEF Accounted
  <2>6. \A i, j \in Live' : records'[i].path = records'[j].path => i = j
    BY <1>1, <2>2, <2>3, <2>4 DEF TypeOK
  <2> QED
    BY <1>3, <2>2, <2>3, <2>4, <2>5, <2>6
<1> QED
  BY <1>2, <1>3

\* What the list of records is after a sweep.
LEMMA PrunedRecords ==
    ASSUME TypeOK, NEW e \in Nat, records' = Pruned(e)
    PROVE  /\ records' \in Seq(Record) /\ Len(records') = Len(records)
           /\ DOMAIN records' = DOMAIN records
           /\ Live' = Live \ Sweep(e)
           /\ \A i \in Live' : records'[i] = records[i]
           /\ \A i \in DOMAIN records : /\ records'[i].path = records[i].path
                                        /\ records'[i].bytes = records[i].bytes
<1>1. /\ DOMAIN records' = DOMAIN records
      /\ \A i \in DOMAIN records :
           records'[i] = IF i \in Sweep(e) THEN [records[i] EXCEPT !.pruned = TRUE]
                         ELSE records[i]
  BY DEF Pruned
<1>2. \A i \in DOMAIN records : records[i] \in Record
  BY DEF TypeOK
<1>3. \A i \in DOMAIN records :
        /\ records'[i] \in Record
        /\ records'[i].path = records[i].path /\ records'[i].bytes = records[i].bytes
        /\ records'[i].pruned = (i \in Sweep(e) \/ records[i].pruned)
  BY <1>1, <1>2 DEF Record
<1>4. records' \in Seq(Record) /\ Len(records') = Len(records)
  <2>1. DOMAIN records = 1 .. Len(records) /\ Len(records) \in Nat
    BY DEF TypeOK
  <2>2. records' = [i \in 1 .. Len(records) |-> records'[i]]
    BY <2>1 DEF Pruned
  <2> QED
    BY <1>3, <2>1, <2>2
<1>5. Live' = Live \ Sweep(e)
  BY <1>1, <1>3 DEF Live
<1> QED
  BY <1>1, <1>3, <1>4, <1>5 DEF Live

----------------------------------------------------------------------------
LEMMA TypeStep == TypeOK /\ [Next]_vars => TypeOK'
<1> SUFFICES ASSUME TypeOK, [Next]_vars PROVE TypeOK'
  OBVIOUS
<1>1. ASSUME NEW s \in Slugs, NEW b \in Sizes, LoadFails(s, b) \/ Rejected(s, b)
      PROVE  TypeOK'
  BY <1>1 DEF LoadFails, Rejected, TypeOK, Live
<1>2. ASSUME NEW s \in Slugs, NEW b \in Sizes, Loads(s, b) PROVE TypeOK'
  <2>1. /\ records' \in Seq(Record) /\ Len(records') <= MaxRecords
        /\ \A i, j \in Live' : records'[i].path = records'[j].path => i = j
    BY <1>2, RegisteredRecords DEF Loads
  <2> QED
    BY <1>2, <2>1 DEF Loads, TypeOK
<1>3. CASE EndTurn
  <2>1. episode + 1 \in Nat
    BY DEF TypeOK
  <2>2. /\ records' \in Seq(Record) /\ Len(records') = Len(records)
        /\ Live' \subseteq Live /\ \A i \in Live' : records'[i] = records[i]
    BY <1>3, <2>1, PrunedRecords DEF EndTurn
  <2>3. disk' \in [Slugs -> Sizes \union {0}]
    BY <1>3 DEF EndTurn, Deleted, TypeOK
  <2>4. strays' \subseteq Slugs
    <3>1. \A i \in Live : records[i] \in Record /\ records[i].path \in Slugs
      <4>1. \A i \in DOMAIN records : records[i] \in Record
        BY DEF TypeOK
      <4> QED
        BY <4>1 DEF Live, Record
    <3>2. Swept(episode + 1) \subseteq Slugs
      BY <3>1 DEF Swept, Sweep
    <3> QED
      BY <1>3, <3>2 DEF EndTurn, TypeOK
  <2> QED
    BY <1>3, <2>2, <2>3, <2>4 DEF EndTurn, TypeOK
<1>4. CASE SetClock
  BY <1>4 DEF SetClock, TypeOK, Live
<1>5. CASE Restart
  BY <1>5 DEF Restart, TypeOK, Live
<1>6. CASE UNCHANGED vars
  BY <1>6 DEF vars, TypeOK, Live
<1> QED
  BY <1>1, <1>2, <1>3, <1>4, <1>5, <1>6 DEF Next, cmd_metamorph

\* The types of Artefacts, and no path with two live records.
THEOREM TypeCorrect == Spec => []TypeOK
<1>1. Init => TypeOK
  BY InitInv
<1> QED
  BY <1>1, TypeStep, PTL DEF Spec

----------------------------------------------------------------------------
LEMMA IdleStep == TypeOK /\ IdleIsPruned /\ [Next]_vars => IdleIsPruned'
<1> SUFFICES ASSUME TypeOK, IdleIsPruned, [Next]_vars, NEW i \in Live'
             PROVE  episode' - records'[i].episode < IdleEpisodes
  BY DEF IdleIsPruned
<1>0. episode - episode < IdleEpisodes
  BY DEF TypeOK
<1>1. ASSUME NEW s \in Slugs, NEW b \in Sizes, LoadFails(s, b) \/ Rejected(s, b)
      PROVE  episode' - records'[i].episode < IdleEpisodes
  BY <1>1 DEF LoadFails, Rejected, IdleIsPruned, Live
<1>2. ASSUME NEW s \in Slugs, NEW b \in Sizes, Loads(s, b)
      PROVE  episode' - records'[i].episode < IdleEpisodes
  <2>1. (i \in Live /\ records'[i] = records[i]) \/ records'[i] = Fresh(s, b)
    BY <1>2, RegisteredRecords DEF Loads
  <2>2. episode' = episode
    BY <1>2 DEF Loads
  <2> QED
    BY <1>0, <2>1, <2>2 DEF Fresh, IdleIsPruned
<1>3. CASE EndTurn
  <2>1. episode + 1 \in Nat /\ episode \in Nat
    BY DEF TypeOK
  <2>2. i \in Live \ Sweep(episode + 1) /\ records'[i] = records[i]
    BY <1>3, <2>1, PrunedRecords DEF EndTurn
  <2>3. records[i].episode \in Nat
    <3>1. i \in DOMAIN records
      BY <2>2 DEF Live
    <3>2. records[i] \in Record
      BY <3>1 DEF TypeOK
    <3> QED
      BY <3>2 DEF Record
  <2>4. ~OldEpisode(records[i], episode + 1)
    BY <2>2 DEF Sweep
  <2> QED
    BY <1>3, <2>1, <2>2, <2>3, <2>4 DEF EndTurn, OldEpisode
<1>4. CASE SetClock
  BY <1>4 DEF SetClock, IdleIsPruned, Live
<1>5. CASE Restart
  BY <1>5 DEF Restart, Live
<1>6. CASE UNCHANGED vars
  BY <1>6 DEF vars, IdleIsPruned, Live
<1> QED
  BY <1>1, <1>2, <1>3, <1>4, <1>5, <1>6 DEF Next, cmd_metamorph

\* However artefacts are registered, touched, refused and pruned, none stays in the
\* accounts for IdleEpisodes without having been registered again.
THEOREM NothingIdles == Spec => []IdleIsPruned
<1>1. Init => IdleIsPruned
  BY InitInv
<1> QED
  BY <1>1, IdleStep, TypeCorrect, PTL DEF Spec

----------------------------------------------------------------------------
LEMMA LoadedStep == TypeOK /\ LoadedWasAccepted /\ [Next]_vars => LoadedWasAccepted'
<1> SUFFICES ASSUME TypeOK, LoadedWasAccepted, [Next]_vars, loaded' # None
             PROVE  /\ disk'[loaded'] \in 1 .. PerArtefactCap
                    /\ \E i \in DOMAIN records' : /\ records'[i].path = loaded'
                                                  /\ records'[i].bytes = disk'[loaded']
  BY DEF LoadedWasAccepted
<1> DEFINE Goal == /\ disk'[loaded'] \in 1 .. PerArtefactCap
                   /\ \E i \in DOMAIN records' : /\ records'[i].path = loaded'
                                                 /\ records'[i].bytes = disk'[loaded']
<1>1. ASSUME NEW s \in Slugs, NEW b \in Sizes, Loads(s, b) PROVE Goal
  <2>1. loaded' = s /\ disk'[s] = b /\ b \in 1 .. PerArtefactCap
    BY <1>1 DEF Loads, Accepts, TypeOK
  <2>2. \E i \in DOMAIN records' : records'[i] = Fresh(s, b)
    BY <1>1, RegisteredRecords DEF Loads
  <2> QED
    BY <2>1, <2>2 DEF Fresh
<1>2. CASE EndTurn
  <2>1. episode + 1 \in Nat
    BY DEF TypeOK
  <2>2. /\ DOMAIN records' = DOMAIN records
        /\ \A i \in DOMAIN records : /\ records'[i].path = records[i].path
                                     /\ records'[i].bytes = records[i].bytes
    BY <1>2, <2>1, PrunedRecords DEF EndTurn
  <2>3. loaded' = loaded /\ loaded \in Slugs /\ disk'[loaded] = disk[loaded]
    BY <1>2 DEF EndTurn, Deleted, TypeOK
  <2> QED
    BY <2>2, <2>3 DEF LoadedWasAccepted
<1>3. CASE SetClock \/ UNCHANGED vars
  BY <1>3 DEF SetClock, vars, LoadedWasAccepted
<1> QED
  BY <1>1, <1>2, <1>3 DEF Next, cmd_metamorph, LoadFails, Rejected, Restart

\* What is loaded was taken by the registry, at the size its file has.
THEOREM OnlyAcceptedRuns == Spec => []LoadedWasAccepted
<1>1. Init => LoadedWasAccepted
  BY InitInv
<1> QED
  BY <1>1, LoadedStep, TypeCorrect, PTL DEF Spec

----------------------------------------------------------------------------
LEMMA StraysStep == TypeOK /\ StraysAreKnown /\ [Next]_vars => StraysAreKnown'
<1> SUFFICES ASSUME TypeOK, StraysAreKnown, [Next]_vars, NEW t \in Slugs, disk'[t] > 0
             PROVE  t \in Accounted' \union strays'
  BY DEF StraysAreKnown
<1>1. ASSUME NEW s \in Slugs, NEW b \in Sizes, LoadFails(s, b) \/ Rejected(s, b)
      PROVE  t \in Accounted' \union strays'
  BY <1>1 DEF LoadFails, Rejected, StraysAreKnown, TypeOK, Accounted, Live
<1>2. ASSUME NEW s \in Slugs, NEW b \in Sizes, Loads(s, b)
      PROVE  t \in Accounted' \union strays'
  <2>1. Accounted' = Accounted \union {s}
    BY <1>2, RegisteredRecords DEF Loads
  <2> QED
    BY <1>2, <2>1 DEF Loads, StraysAreKnown, TypeOK
<1>3. CASE EndTurn
  <2>1. episode + 1 \in Nat
    BY DEF TypeOK
  <2>2. /\ Live' = Live \ Sweep(episode + 1)
        /\ \A i \in Live' : records'[i] = records[i]
    BY <1>3, <2>1, PrunedRecords DEF EndTurn
  <2>3. disk'[t] = IF t \in Swept(episode + 1) \ {loaded} THEN 0 ELSE disk[t]
    BY <1>3 DEF EndTurn, Deleted
  <2>4. disk[t] > 0 /\ (t \notin Swept(episode + 1) \/ t = loaded)
    BY <2>3 DEF TypeOK
  <2>5. CASE t \in Swept(episode + 1)
    BY <1>3, <2>4, <2>5 DEF EndTurn
  <2>6. CASE t \in Accounted \ Swept(episode + 1)
    BY <2>2, <2>6 DEF Accounted, Swept
  <2> QED
    BY <1>3, <2>4, <2>5, <2>6 DEF EndTurn, StraysAreKnown
<1>4. CASE SetClock \/ UNCHANGED vars
  BY <1>4 DEF SetClock, vars, StraysAreKnown, Accounted, Live
<1>5. CASE Restart
  BY <1>5 DEF Restart
<1> QED
  BY <1>1, <1>2, <1>3, <1>4, <1>5 DEF Next, cmd_metamorph

\* A file on disk is in the accounts, or got out of them in one of three known ways.
THEOREM NoOtherStrays == Spec => []StraysAreKnown
<1>1. Init => StraysAreKnown
  BY InitInv
<1> QED
  BY <1>1, StraysStep, TypeCorrect, PTL DEF Spec
=============================================================================

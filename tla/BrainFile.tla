------------------------------ MODULE BrainFile ------------------------------
(***************************************************************************)
(* The brain and its file: SynapticMemory::sleep() and wake()               *)
(* (core/fpsan_memory.h), the daemon's boot, /save, /load, /reset and       *)
(* auto-save (fpsan_live_core.cpp), the sentences it learns meanwhile       *)
(* (ingest_sentence() in core/fpsan_lexer.h), a process that may die at any *)
(* moment and a disk that may fill up.                                      *)
(*                                                                          *)
(* A brain is its active word clusters, the number of its graph nodes and   *)
(* the two edge tables of each node. Word w is node w; nodes past the words *)
(* are phrases and binding nodes. Weights, labels and edge types are left   *)
(* out. Nothing in the daemon kills a node, so every node is alive.         *)
(*                                                                          *)
(* Sentences are learned one at a time. Any of them may be the research     *)
(* thread's, which ingests without a lock: whatever the main loop does, a   *)
(* save, a /load or a /reset, may fall into a sentence, and a sentence into *)
(* a save. The history variables brain_mixed and file_mixed say that one    *)
(* did.                                                                     *)
(***************************************************************************)
EXTENDS Integers, Sequences, FiniteSets

CONSTANTS MaxWords,      \* LANG_CLUSTERS, which is also the nodes of a new graph
          MaxSentences,  \* bound: sentences learned
          MaxCrashes,    \* bound: deaths of the process
          MAX_FANOUT,    \* places in a table of a node
          NoFile,        \* there is no brain file; nothing was ever saved
          Mixed          \* a brain of which nothing is promised

VARIABLES
    brain,                      \* g_cortex and g_graph
    file,                       \* the records of the brain file
    mpc, at,                    \* the main loop; the cluster or node it has got to
    node_count, disk_full,      \* sleep()'s nc; the writes fail from now on
    lpc, pair, word,            \* the learner: what it links, and for which word
    sentences, crashes,
    snapshot,                   \* history: the brain when sleep() last took the lock
    interrupted,                \* history: the last save begun was not finished
    file_mixed,                 \* history: a sentence was learned during that save
    brain_mixed                 \* history: the brain was loaded from such a save, or
                                \* replaced in the middle of a sentence

learner == <<lpc, pair, word>>
saving == <<at, node_count, disk_full>>
mixed == <<file_mixed, brain_mixed>>
history == <<snapshot, interrupted, mixed>>
brainVars == <<brain, file, mpc, saving, learner, sentences, crashes, history>>

Words == 1 .. MaxWords
Nodes == 1 .. MaxWords + 1 + MaxSentences
Pairs == Nodes \X Nodes

Brains == [words : SUBSET Words, node_count : Nat,
           edges : SUBSET Pairs, inverse_edges : SUBSET Pairs]
Headers == [kind : {"header"}, node_count : Nat, cortex_active_count : Nat,
            alive_node_count : Nat]
WordRecords == [kind : {"word"}, id : Words]
NodeRecords == [kind : {"node"}, id : Nodes, edges : SUBSET Nodes,
                inverse_edges : SUBSET Nodes]
Records == Headers \union WordRecords \union NodeRecords

ASSUME BrainAssumption ==
    /\ MaxWords \in Nat /\ MaxWords >= 2
    /\ MaxSentences \in Nat /\ MaxCrashes \in Nat
    /\ MAX_FANOUT \in Nat \ {0}
    /\ NoFile \notin Brains /\ Mixed \notin Brains \union {NoFile}
    /\ NoFile \notin Seq(Records)

\* The brain after the cold start's own sentence, which has two words and so one
\* phrase.
Newborn ==
    LET links == {<<1, 2>>, <<MaxWords + 1, 2>>}
    IN  [words |-> {1, 2}, node_count |-> MaxWords + 1,
         edges |-> links, inverse_edges |-> {<<l[2], l[1]>> : l \in links}]

BrainInit ==
    /\ brain = Newborn /\ file = NoFile
    /\ mpc = "boot" /\ at = 0 /\ node_count = 0 /\ disk_full = FALSE
    /\ lpc = "idle" /\ pair = <<0, 0>> /\ word = 0
    /\ sentences = 0 /\ crashes = 0
    /\ snapshot = NoFile /\ interrupted = FALSE
    /\ file_mixed = FALSE /\ brain_mixed = FALSE

----------------------------------------------------------------------------
(***************************************************************************)
(* Learning a sentence of two words, which makes a bond between them and one *)
(* between one of them and a new node                                       *)
(***************************************************************************)
\* The far ends of a node's edges
Ends(table, n) == {p[2] : p \in {q \in table : q[1] = n}}

\* add_edge() and add_inverse_edge(): a full table gives up one of its edges for
\* the new one, or stays as it is.
Added(table, p) ==
    IF p \in table \/ Cardinality(Ends(table, p[1])) < MAX_FANOUT
    THEN {table \union {p}}
    ELSE {table} \union {(table \ {<<p[1], n>>}) \union {p} : n \in Ends(table, p[1])}

\* perceive(): a word that is known, or the first cluster not yet active.
Perceived(w) == w \in brain.words \/ \A v \in Words \ brain.words : w <= v

\* What the learner does while sleep() counts and writes ends up in the file.
Overheard ==
    /\ file_mixed' = (file_mixed \/ mpc \in {"header", "words", "nodes"})
    /\ UNCHANGED <<file, mpc, saving, crashes, snapshot, interrupted, brain_mixed>>

PerceiveFirst ==
    /\ lpc = "idle" /\ mpc # "boot"
    /\ sentences < MaxSentences
    /\ \E w \in Words :
        /\ Perceived(w)
        /\ brain' = [brain EXCEPT !.words = @ \union {w}]
        /\ word' = w
    /\ sentences' = sentences + 1
    /\ lpc' = "second"
    /\ Overheard
    /\ UNCHANGED pair

PerceiveSecond ==
    /\ lpc = "second"
    /\ \E w \in Words :
        /\ Perceived(w)
        /\ brain' = [brain EXCEPT !.words = @ \union {w}]
        /\ pair' = <<word, w>>
        /\ word' = w
        /\ lpc' = IF w = word THEN "spawn" ELSE "link"
    /\ Overheard
    /\ UNCHANGED sentences

\* After a bond of two words a node is spawned; a bond of that ends the sentence.
Afterwards == IF pair[1] \in Words /\ pair[2] \in Words THEN "spawn" ELSE "idle"

\* add_edge() on the first node of the bond. Bonds of consecutive words and of
\* phrases have an inverse; those of identifiers, skip-grams, causes and binding
\* nodes have none.
Link ==
    /\ lpc = "link"
    /\ \E table \in Added(brain.edges, pair) : brain' = [brain EXCEPT !.edges = table]
    /\ lpc' \in {"back", Afterwards}
    /\ Overheard
    /\ UNCHANGED <<pair, word, sentences>>

LinkBack ==
    /\ lpc = "back"
    /\ \E table \in Added(brain.inverse_edges, <<pair[2], pair[1]>>) :
           brain' = [brain EXCEPT !.inverse_edges = table]
    /\ lpc' = Afterwards
    /\ Overheard
    /\ UNCHANGED <<pair, word, sentences>>

\* spawn(): a node with empty tables, bound to a word or, a binding node, a word to it.
SpawnNode ==
    /\ lpc = "spawn"
    /\ LET n == brain.node_count + 1
       IN  /\ brain' = [brain EXCEPT !.node_count = n,
                                     !.edges = {p \in @ : p[1] # n},
                                     !.inverse_edges = {p \in @ : p[1] # n}]
           /\ pair' \in {<<n, word>>, <<word, n>>}
    /\ lpc' = "link"
    /\ Overheard
    /\ UNCHANGED <<word, sentences>>

Learn == PerceiveFirst \/ PerceiveSecond \/ Link \/ LinkBack \/ SpawnNode

----------------------------------------------------------------------------
(***************************************************************************)
(* sleep()                                                                  *)
(***************************************************************************)
\* fwrite(): nobody looks at its result. What fails once keeps failing.
Write(records) ==
    \/ ~disk_full /\ file' = file \o records /\ disk_full' = FALSE
    \/ file' = file /\ disk_full' = TRUE

\* fopen(..., "wb") empties the file. (When it fails sleep() returns and the
\* state is as before.)
SaveOpen ==
    /\ mpc = "loop"
    /\ file' = <<>>
    /\ disk_full' = FALSE
    /\ snapshot' = brain
    /\ interrupted' = TRUE
    /\ file_mixed' = brain_mixed
    /\ mpc' = "header"
    /\ UNCHANGED <<brain, at, node_count, learner, sentences, crashes, brain_mixed>>

\* The counts, and the header with them.
SaveHeader ==
    /\ mpc = "header"
    /\ node_count' = brain.node_count
    /\ Write(<<[kind |-> "header", node_count |-> brain.node_count,
                cortex_active_count |-> Cardinality(brain.words),
                alive_node_count |-> brain.node_count]>>)
    /\ at' = 1
    /\ mpc' = "words"
    /\ UNCHANGED <<brain, learner, sentences, crashes, history>>

SaveWord ==
    /\ mpc = "words"
    /\ Write(IF at \in brain.words THEN <<[kind |-> "word", id |-> at]>> ELSE <<>>)
    /\ at' = IF at = MaxWords THEN 1 ELSE at + 1
    /\ mpc' = IF at = MaxWords THEN "nodes" ELSE "words"
    /\ UNCHANGED <<brain, node_count, learner, sentences, crashes, history>>

SaveNodeSlip ==                                     \* leaves out the inverse edges
    /\ mpc = "nodes"
    /\ Write(<<[kind |-> "node", id |-> at, edges |-> Ends(brain.edges, at),
                inverse_edges |-> {}]>>)
    /\ at' = IF at = node_count THEN 0 ELSE at + 1
    /\ mpc' = IF at = node_count THEN "close" ELSE "nodes"
    /\ UNCHANGED <<brain, node_count, learner, sentences, crashes, history>>

SaveNode ==
    /\ mpc = "nodes"
    /\ Write(<<[kind |-> "node", id |-> at,
                edges |-> Ends(brain.edges, at),
                inverse_edges |-> Ends(brain.inverse_edges, at)]>>)
    /\ at' = IF at = node_count THEN 0 ELSE at + 1
    /\ mpc' = IF at = node_count THEN "close" ELSE "nodes"
    /\ UNCHANGED <<brain, node_count, learner, sentences, crashes, history>>

\* fclose(): the rest of the buffer reaches the disk, if there is room.
SaveClose ==
    /\ mpc = "close"
    /\ interrupted' = disk_full
    /\ disk_full' = FALSE
    /\ node_count' = 0
    /\ mpc' = "loop"
    /\ UNCHANGED <<brain, file, at, learner, sentences, crashes, snapshot, mixed>>

Save == SaveOpen \/ SaveHeader \/ SaveWord \/ SaveNode \/ SaveClose

----------------------------------------------------------------------------
(***************************************************************************)
(* wake(), boot, /load and /reset                                           *)
(***************************************************************************)
\* What wake() takes record i for. It goes by the counts in the header.
Expected(f, i) == IF i <= 1 + f[1].cortex_active_count THEN "word" ELSE "node"
Announced(f) == 1 + f[1].cortex_active_count + f[1].alive_node_count

\* The records wake() reads before the end of the file, or a record that is not
\* what it takes it for, stops it. (Such a record is bytes read as something else.
\* Only a file that was written during a sentence has one.)
Reads(f) == {i \in 2 .. Len(f) : /\ i <= Announced(f)
                                 /\ \A k \in 2 .. i : f[k].kind = Expected(f, k)}

HasHeader(f) == f # NoFile /\ f # <<>>
Readable(f) ==
    /\ HasHeader(f)
    /\ Announced(f) <= Len(f)
    /\ \A k \in 2 .. Announced(f) : f[k].kind = Expected(f, k)

\* wake() may go on after a record that is something else, and even come to the
\* end. The model takes nothing from what is read like that.
Misread(f) == HasHeader(f) /\ \E k \in 2 .. Len(f) :
                                  k <= Announced(f) /\ f[k].kind # Expected(f, k)

LoadedSlip(f) ==                                    \* makes the nodes it reads
    LET read == {f[i] : i \in Reads(f)}
        nodes == {r \in read : r.kind = "node"}
    IN  [words |-> {r.id : r \in read \ nodes},
         node_count |-> Cardinality(nodes),
         edges |-> UNION {{r.id} \X r.edges : r \in nodes},
         inverse_edges |-> UNION {{r.id} \X r.inverse_edges : r \in nodes}]

\* The brain wake() makes of what it reads.
Loaded(f) ==
    LET read == {f[i] : i \in Reads(f)}
        nodes == {r \in read : r.kind = "node"}
    IN  [words |-> {r.id : r \in read \ nodes},
         node_count |-> f[1].node_count,
         edges |-> UNION {{r.id} \X r.edges : r \in nodes},
         inverse_edges |-> UNION {{r.id} \X r.inverse_edges : r \in nodes}]

BootSlip ==                                         \* takes what could be read
    /\ mpc = "boot"
    /\ brain' = IF HasHeader(file) THEN Loaded(file) ELSE Newborn
    /\ mpc' = "loop"
    /\ brain_mixed' = (HasHeader(file) /\ file_mixed)
    /\ UNCHANGED <<file, saving, learner, sentences, crashes, snapshot, interrupted,
                   file_mixed>>

\* A brain that wakes whole, or else the cold start: graph and cortex are made
\* anew, whatever wake() left in them.
Boot ==
    /\ mpc = "boot"
    /\ \/ /\ Readable(file) \/ Misread(file)
          /\ brain' = Loaded(file)
          /\ brain_mixed' = file_mixed
       \/ /\ ~Readable(file)
          /\ brain' = Newborn
          /\ brain_mixed' = FALSE
    /\ mpc' = "loop"
    /\ UNCHANGED <<file, saving, learner, sentences, crashes, snapshot, interrupted,
                   file_mixed>>

\* /load: a file with no header leaves the brain alone. A truncated one leaves
\* what could be read of it. A sentence under way goes on in the new graph.
Load ==
    /\ mpc = "loop"
    /\ HasHeader(file)
    /\ brain' = Loaded(file)
    /\ brain_mixed' = (file_mixed \/ lpc # "idle")
    /\ UNCHANGED <<file, mpc, saving, learner, sentences, crashes, snapshot, interrupted,
                   file_mixed>>

\* /reset
Reset ==
    /\ mpc = "loop"
    /\ file' = NoFile
    /\ brain' = Newborn
    /\ snapshot' = NoFile /\ interrupted' = FALSE
    /\ file_mixed' = FALSE /\ brain_mixed' = (lpc # "idle")
    /\ UNCHANGED <<mpc, saving, learner, sentences, crashes>>

\* The process dies. Of a file it was writing, any part may be on the disk. The
\* brain is lost; boot makes another.
Crash ==
    /\ mpc # "boot"
    /\ crashes < MaxCrashes
    /\ IF mpc = "loop" THEN file' = file
                       ELSE \E n \in 0 .. Len(file) : file' = SubSeq(file, 1, n)
    /\ mpc' = "boot"
    /\ at' = 0 /\ node_count' = 0 /\ disk_full' = FALSE
    /\ lpc' = "idle" /\ pair' = <<0, 0>> /\ word' = 0
    /\ crashes' = crashes + 1
    /\ UNCHANGED <<brain, sentences, history>>

----------------------------------------------------------------------------
BrainNext == Learn \/ Save \/ Boot \/ Load \/ Reset \/ Crash

BrainSpec == BrainInit /\ [][BrainNext]_brainVars

----------------------------------------------------------------------------
(***************************************************************************)
(* Properties                                                               *)
(***************************************************************************)
\* Types. A file that is there begins with its header (fpsan_memory.h:98-105).
BrainTypeOK ==
    /\ brain \in Brains
    /\ \/ file = NoFile
       \/ /\ file \in Seq(Records)
          /\ \A i \in 1 .. Len(file) : file[i].kind = "header" <=> i = 1
    /\ mpc \in {"boot", "loop", "header", "words", "nodes", "close"}
    /\ at \in 0 .. MaxWords + 1 + MaxSentences /\ node_count \in Nat /\ disk_full \in BOOLEAN
    /\ lpc \in {"idle", "second", "link", "back", "spawn"}
    /\ pair \in Pairs \union {<<0, 0>>} /\ word \in Words \union {0}
    /\ sentences \in 0 .. MaxSentences /\ crashes \in 0 .. MaxCrashes
    /\ snapshot \in Brains \union {NoFile} /\ interrupted \in BOOLEAN
    /\ file_mixed \in BOOLEAN /\ brain_mixed \in BOOLEAN

\* The daemon boots with the brain of its last finished save, edge for edge, or,
\* if there is none, with the newborn one. Only when the last save begun was cut
\* off, by a death or a full disk, may it be newborn instead, or the brain of
\* that save if all of it had reached the disk. It never boots with a part of a
\* brain (boot in fpsan_live_core.cpp:2183-2218). All this of a save in which no
\* sentence was learned: nothing in the code keeps one out, and
\* SnapshotReadsBack shows what becomes of it.
BootRecovers ==
    [][Boot /\ ~file_mixed =>
           IF interrupted THEN brain' \in {Newborn, snapshot}
           ELSE brain' = IF snapshot = NoFile THEN Newborn ELSE snapshot]_brainVars

\* An edge joins nodes the graph has: spread_activation() goes to the far end of
\* every edge without a look at node_count. Learning, full tables, saves cut off
\* and half-finished loads keep it so, as long as no sentence was caught in a save
\* that is read back, in a /load or in a /reset.
EdgesNameNodes ==
    ~brain_mixed => \A p \in brain.edges \union brain.inverse_edges :
                        p[1] <= brain.node_count /\ p[2] <= brain.node_count

\* The brain has the form the code relies on after every save, death, restart and
\* /load.
BrainSound == BrainTypeOK /\ EdgesNameNodes

\* The daemon and its file implement a store that holds one whole brain, or none, or
\* a brain that was mixed up with a sentence and of which nothing is promised.
OnDisk == IF file_mixed THEN Mixed ELSE IF Readable(file) THEN Loaded(file) ELSE NoFile
AtHand == IF brain_mixed THEN Mixed ELSE brain
Store == INSTANCE BrainStore WITH brain <- AtHand, store <- OnDisk, None <- NoFile
ImplementsStore == Store!StoreSpec

\* "The snapshot is taken from a quiescent state": a save that ran to its end on
\* a disk with room left a file that can be read back. (It need not: see the README.)
SnapshotReadsBack == (mpc = "close" /\ ~disk_full) => Readable(file)
=============================================================================

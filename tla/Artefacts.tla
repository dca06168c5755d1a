----------------------------- MODULE Artefacts ------------------------------
(***************************************************************************)
(* The programs the brain writes for itself. /metamorph has MetamorphicEngine*)
(* (fpsan_metamorphic.h) generate, compile and load a DLL; SelfEditRegistry  *)
(* (fpsan_self_edit_registry.h) accounts for the files, refuses what is too  *)
(* large and, at the end of every turn, prunes what has not been used.       *)
(*                                                                          *)
(* Everything runs on the main thread. What acts besides: the file system,   *)
(* the compiler and the loader, which may fail at every call; the clock on   *)
(* the wall, which may also be set back; and the end of the process, which    *)
(* forgets the records. Windows neither deletes nor overwrites a file that is *)
(* mapped as a DLL.                                                          *)
(***************************************************************************)
EXTENDS Integers, FiniteSets, FiniteSetsExt, SequencesExt

CONSTANTS None,
          Slugs,            \* names of artefacts: meta_<slug>.dll
          Sizes,            \* sizes a compiled file may have
          PerArtefactCap, TotalCap,
          IdleEpisodes,
          Week,             \* kSevenDays100ns
          MaxEpisode,       \* bound: episodes of one process
          MaxTime,          \* bound: readings of the clock
          MaxRecords        \* bound: records of one process

ASSUME ArtefactsAssumption ==
    /\ Sizes \subseteq Nat \ {0} /\ IsFiniteSet(Slugs) /\ None \notin Slugs
    /\ {PerArtefactCap, TotalCap, IdleEpisodes, Week} \subseteq Nat \ {0}
    /\ {MaxEpisode, MaxTime, MaxRecords} \subseteq Nat

VARIABLES
    disk,      \* slug -> size of its file, 0 when there is none
    loaded,    \* loaded_dll
    records,   \* records_
    episode,   \* g_episode_counter
    now,       \* GetSystemTime()
    strays     \* history: files known to have got out of the accounts

vars == <<disk, loaded, records, episode, now, strays>>

Record == [path : Slugs, episode : Nat, time : Nat, bytes : Nat, pruned : BOOLEAN]

Init ==
    /\ disk = [s \in Slugs |-> 0] /\ loaded = None /\ records = <<>>
    /\ episode = 0 /\ now = 0 /\ strays = {}

----------------------------------------------------------------------------
(***************************************************************************)
(* SelfEditRegistry                                                         *)
(***************************************************************************)
Live == {i \in DOMAIN records : ~records[i].pruned}
Accounted == {records[i].path : i \in Live}
Bytes(i) == records[i].bytes
total_bytes_disk == MapThenSumSet(Bytes, Live)

Fresh(s, b) == [path |-> s, episode |-> episode, time |-> now, bytes |-> b, pruned |-> FALSE]

\* The first live record of that name, and the only one.
Touched(s, b) ==
    [i \in DOMAIN records |->
       IF i \in Live /\ records[i].path = s THEN Fresh(s, b) ELSE records[i]]

\* Whether register_or_touch() takes the artefact: the total is asked of new ones only.
Accepts(s, b) ==
    /\ b <= PerArtefactCap
    /\ s \in Accounted \/ total_bytes_disk + b <= TotalCap

Registered(s, b) == IF s \in Accounted THEN Touched(s, b) ELSE Append(records, Fresh(s, b))

OldEpisodeSlip(r, e) == e - r.episode > IdleEpisodes  \* one episode later

OldEpisode(r, e) == e > r.episode /\ e - r.episode >= IdleEpisodes

\* The difference is unsigned: a clock that was set back makes a record old at once.
OldWall(r) == now < r.time \/ now - r.time >= Week

Sweep(e) == {i \in Live : OldEpisode(records[i], e) \/ OldWall(records[i])}
Swept(e) == {records[i].path : i \in Sweep(e)}

----------------------------------------------------------------------------
(***************************************************************************)
(* MetamorphicEngine                                                        *)
(***************************************************************************)
\* When no source is written or the compiler fails, nothing changes. It always fails for
\* the DLL that is loaded, which it cannot overwrite: s # loaded below.

\* Compiled, but LoadLibrary() does not take it: what was loaded is gone already, and
\* the file is in nobody's account.
LoadFails(s, b) ==
    /\ s # loaded
    /\ disk' = [disk EXCEPT ![s] = b] /\ loaded' = None
    /\ strays' = IF s \in Accounted THEN strays ELSE strays \union {s}
    /\ UNCHANGED <<records, episode, now>>

RejectedSlip(s, b) ==                               \* leaves it loaded, so that it stays
    /\ s # loaded /\ ~Accepts(s, b)
    /\ disk' = [disk EXCEPT ![s] = b] /\ loaded' = s
    /\ strays' = strays \ {s}
    /\ UNCHANGED <<records, episode, now>>

\* The registry refuses it: unloaded, and deleted. A record of an earlier size stays.
Rejected(s, b) ==
    /\ s # loaded /\ ~Accepts(s, b)
    /\ disk' = [disk EXCEPT ![s] = 0] /\ loaded' = None
    /\ strays' = strays \ {s}
    /\ UNCHANGED <<records, episode, now>>

\* Loaded and registered; without fpsan_motor_init it is unloaded again.
Loads(s, b) ==
    /\ s # loaded /\ Accepts(s, b)
    /\ s \in Accounted \/ Len(records) < MaxRecords
    /\ disk' = [disk EXCEPT ![s] = b] /\ loaded' \in {s, None}
    /\ records' = Registered(s, b)
    /\ strays' = strays \ {s}
    /\ UNCHANGED <<episode, now>>

cmd_metamorph ==
    \E s \in Slugs, b \in Sizes : LoadFails(s, b) \/ Rejected(s, b) \/ Loads(s, b)

----------------------------------------------------------------------------
(***************************************************************************)
(* Turns, the clock and the end of the process                              *)
(***************************************************************************)
\* A record is marked whether its file could be deleted or not.
Pruned(e) ==
    [i \in DOMAIN records |->
       IF i \in Sweep(e) THEN [records[i] EXCEPT !.pruned = TRUE] ELSE records[i]]

Deleted(e) == [s \in Slugs |-> IF s \in Swept(e) \ {loaded} THEN 0 ELSE disk[s]]

\* jarvis_neuromod_end_turn(): the next episode, then janitor_sweep().
EndTurn ==
    /\ episode < MaxEpisode
    /\ episode' = episode + 1
    /\ disk' = Deleted(episode + 1) /\ records' = Pruned(episode + 1)
    /\ strays' = strays \union (Swept(episode + 1) \intersect {loaded})
    /\ UNCHANGED <<loaded, now>>

SetClock ==
    /\ now' \in 0 .. MaxTime
    /\ UNCHANGED <<disk, loaded, records, episode, strays>>

\* The files stay, what was known of them does not.
Restart ==
    /\ loaded' = None /\ records' = <<>> /\ episode' = 0
    /\ strays' = {s \in Slugs : disk[s] > 0}
    /\ UNCHANGED <<disk, now>>

Next == cmd_metamorph \/ EndTurn \/ SetClock \/ Restart

Spec == Init /\ [][Next]_vars

----------------------------------------------------------------------------
(***************************************************************************)
(* Properties                                                               *)
(***************************************************************************)
\* No path has two live records, so that no file is counted twice.
TypeOK ==
    /\ disk \in [Slugs -> Sizes \union {0}]
    /\ loaded \in Slugs \union {None}
    /\ records \in Seq(Record) /\ Len(records) <= MaxRecords
    /\ \A i, j \in Live : records[i].path = records[j].path => i = j
    /\ episode \in 0 .. MaxEpisode /\ now \in 0 .. MaxTime
    /\ strays \subseteq Slugs

\* "prune if idle [...] 50 episodes": no artefact stays in the accounts that was not
\* registered again for that long, whatever was touched, refused or reloaded since.
IdleIsPruned == \A i \in Live : episode - records[i].episode < IdleEpisodes

\* What runs inside the process was taken by the registry, at the size its file has: a
\* DLL it refused, or one whose file was replaced, is never left loaded.
LoadedWasAccepted ==
    loaded # None =>
       /\ disk[loaded] \in 1 .. PerArtefactCap
       /\ \E i \in DOMAIN records :
             records[i].path = loaded /\ records[i].bytes = disk[loaded]

\* A file gets out of the accounts in three ways only: the process ended, the loader
\* refused it, or it was pruned while it was loaded. All others are counted or gone.
StraysAreKnown == {s \in Slugs : disk[s] > 0} \subseteq Accounted \union strays
=============================================================================

# Engram Core in TLA+

TLA+ modules, TLC configurations and TLAPS proofs about Engram Core
(`src/src/core/*.h` and `src/src/fpsan_live_core.cpp`). Line numbers below are
those of the files in `src/`.

## The system

Engram Core is one Windows process. Its main loop ticks a thousand times a
second over an in-memory graph of "clusters" joined by typed edges; helper
threads type on the keyboard, do research and listen. Nearly all sharing is by
atomics and lock-free structures, with one reader-writer lock around the graph.

| Part (file) | State | Operations | Interacts with | Hard behaviour | Correct when |
| --- | --- | --- | --- | --- | --- |
| Spike queue (`fpsan_san_scheduler.h` 29-124) | ring of cells with sequence numbers, two 32-bit counters | `try_push`, `try_pop` | any thread that raises a voltage; the main loop drains | lock-free claims, wrap-around, sleeping producers | no torn, lost or repeated spike; refusals are true |
| SAN scheduler (same file, 127-215) | the queue, graph pointer, clock | `post_spike`, `drain_until`, `propagate_one_nolock` | graph, main loop | deadlines re-order or lose spikes | bounded work; due spikes are propagated |
| Node pool (`cluster_graph.h` 374-465) | `node_count`, `free_head`, `free_next[]` | `init`, `spawn`, `kill` | lexer, temporal memory, motor bindings | ABA, arena overshoot | one owner per node, no node lost |
| Edge tables (`cluster_graph.h` 192-303) | 150 edges and a count per node, a spinlock | `add_edge`, `add_inverse_edge`, `prune`, STDP | all readers, without the lock | readers during the in-place sort | readers see real edges; order by weight |
| Activation (`cluster_graph.h` 468-738) | voltage, tier and flags per node | `spread_*`, `tick`, `clear_activation`, `add_voltage_to` | SAN, all cortices | lost updates, threshold crossings | pinned nodes stay, others decay |
| Motor cortex (`fpsan_motor.h`) | command ring, epoch, kill switch, indentation | `queue_*`, `execute_procedure*`, `abort_sequence`, `motor_loop` | main loop, user, windows | aborts and ESC in the middle of output | nothing stale is typed, ESC halts |
| Research (`fpsan_research_async.h`, `fpsan_research.h`) | three flags, task list, result strings | `request_next_step`, `research_loop`, `consume_result` | main loop, drives, network | unlocked lists and strings shared by two threads | plans worked off in order, results announced |
| Live core (`fpsan_live_core.cpp`) | globals, goal, target window, timers | `dispatch`, the tick, goal pursuit, save and exit | everything | hand-offs between all of the above | see each part |
| Synaptic memory (`fpsan_memory.h`) | the brain file | `sleep`, `wake` | graph, language cortex, file system | crash while writing, partial read | a woken brain is one that was saved |
| Temporal memory (`fpsan_temporal_memory.h`) and short-term memory (live core) | roster of 64, tier per node, ring of 5 nodes | `promote_to_l1`, `spawn_episode`, `seal_directive`, `clear_working_slots`, snapshot and priming | node pool, activation | unconditional tier stores; `/load` under a roster that stays | the working set is bounded, sealed directives stay lit, context comes back |
| Self-edit registry, metamorphic engine | records, loaded DLL | `register_or_touch`, `janitor_sweep`, `hot_load` | file system, node pool | cap bypass, clock set back | caps hold; pinned artefacts stay |
| Module registry (`fpsan_module_registry.h`) | 64 entries and a count | `register_module`, `tick_health_all` | modules | count before entry | a module at fault is quarantined |
| Goal planner, drives, ShadowBrain (`fpsan_drives.h`, `fpsan_sandbox.h`) | goal steps, drive levels, shadow graph | `set_goal`, `next_action`, `is_safe` | motor cortex, the foreground window | what is screened against what runs; windows that come, go and change their role | each goal ends once; only screened chains run, towards a window that was seen |
| Dialogue (`fpsan_live_core.cpp`: commands, confirmation, voice state) | dialogue and brain state, the request held for confirmation and its deadline | `jarvis_say`, confirm, refuse, time out, serve commands | ears, voice, research | replies, new requests, half-typed lines and a deadline in any order | one answer for each request, no fetch without it |
| Ears (`fpsan_ears.h`) | window of attention, ring of 32 commands, audio buffers | `on_recognized`, `force_listen_ms`, `pop_command`, `shutdown` | main loop | a window two threads open and close by two stores | nothing is served that was not said to the program |
| Cortex harness (`fpsan_cortex_harness.h`) | run and pause flags, four threads | `pause`, `resume`, `shutdown` | benchmarks only | pause is not a barrier | nothing ticks while paused |
| Knowledge mass, sensor bus | loader, SPSC ring | `load`; `push`, `pop` | graph; UDP thread | lock windows; ring limits | all records; no torn frame |
| Language, screen, HTTP, wasm | text, pixels, sockets | - | graph | data, not control | mostly not modelled |

`PROJECT.json` lists every part with its status, and under "hazards" what in
this code a test hardly reaches, each at its line.

## Modules

| Module | Models | Abstracts |
| --- | --- | --- |
| `SpikeChannel` | what the spike queue promises: a bounded FIFO that hands each accepted spike to one consumer | everything else |
| `MpmcQueue` | `try_push` and `try_pop`, one action per atomic access | a spike is the pair of its producer and its ticket |
| `MpmcQueueProofs` | the proofs about it | |
| `NodePool` | `spawn()` and `kill()`, one action per atomic access of `free_head`, `free_next` and `node_count` | a node is its id and whether it is alive |
| `ClusterGraphProofs` | proofs about `NodePool` and `EdgeTable` | |
| `MotorCortex` | the command ring, the motor thread, the main loop's calls on it, the user at the keyboard | a command is one of four kinds and a number of inputs |
| `MotorProofs` | proofs about it | |
| `ResearchCortex` | the research thread, the plan, the main loop's commands and handoff | a step is its plan and its number, an article the number of its facts |
| `ResearchProofs` | proofs about it | |
| `EdgeSet` | what a node's edge table promises: a bounded map that one whole operation at a time changes | everything else |
| `EdgeTable` | `add_edge`, `prune` and `apply_stdp` under the spinlock, store by store, and a lock-free reader | a target and a type are one value; counts and provenance |
| `BrainStore` | what saving promises: a store of one whole brain or none | everything else |
| `BrainFile` | `sleep` record by record, `wake`, boot, `/save`, `/load`, `/reset`, auto-save, learning, deaths, a full disk | a brain is its words, its number of nodes and two edge tables |
| `MotorPlan` | the motor rules in the graph, the chain that is screened, the policy, the chain that is queued | a text is the set of markers the policy looks for |
| `GoalPursuit` | the planner and the main loop's pursuit, over `MotorPlan`: lines, readiness gate, visual check, timeouts, vetoes | time is the phase of the check and the ticks since the last step; the motor is a list of whose commands are queued |
| `GoalProofs` | proofs about it | |
| `Ears` | the acoustic thread, the window of attention, the ring of commands | an utterance is one of five kinds; a time is what is left of it |
| `Dialogue` | the main loop's conversation, over `Ears`: typed lines, commands, confirmation, voice, `/quit` | when the program speaks by itself is left open |
| `DialogueProofs` | proofs about both | |
| `Activation` | voltages, tiers, roster, spikes, short-term memory, episodes, `/load`, `/reset` | a voltage is one of four levels, and how much is added or fades is left open |
| `ActivationProofs` | proofs about it | |
| `Artefacts` | `/metamorph`, the registry, the janitor, restarts, the clock | a DLL is its name and size |
| `PersistenceProofs` | proofs about `BrainFile` and `Artefacts` | |
| `MC...` | values for the constants | |

Variables and actions have the names of the code's fields and functions where
there is one; `PROJECT.json` "map" gives the lines of each definition. Variables
marked "history" are not in the code and no guard reads them, other than to
bound a run. Operators named `...Slip` are wrong versions of the definition that
follows them; the specifications do not use them. Each property has one that it
does not survive, which shows that the property can fail.

### Atomicity and memory order

An action is one access to memory that another thread reads or writes, with the
thread-local computation up to the next. Compare-exchange has an action for
success and one for failure; the weak form fails spuriously too. Steps are
interleaved in one order (sequential consistency). The code relies on
acquire/release pairs for the data it hands over (`seq`, the ring's `tail` and
`head`, the research flags), and on x86, for which it is built, these loads and
stores are plain moves; what weaker hardware might do to the relaxed accesses is
not modelled. Where the code shares plain data without a lock, the modules do
not interleave inside it: `CellExclusive` and `CommandsArriveWhole` say that the
data of the queue and of the motor ring is never touched by two threads at a time.
Of the research thread's list and results that is not true; what `NoDataRace` leaves
out is named under `ResearchCortex`.

`check_kill_switch()` is one action: the test of ESC and of `killed` and the
store of `killed`. The `abort_sequence()` calls it leads to are counted in
`owed` and are actions of their own, since the other thread may well run in
between. `killed` is a plain bool that both threads access; the calls to Windows
around every access keep the compiler from caching it.

### MpmcQueue

`enqueue_pos`, `dequeue_pos`, `seq` and `data` are the fields; `pos` is each
thread's local and `pc` where it stands. A position is the number of its ticket
and does not wrap; the code's comparisons are made modulo `PosMod` (2^32), so
that wrap-around is in the model where it matters. This needs the assumption
`MaxLag`: no thread sleeps inside one call while `MaxLag` pushes go by, where
`PosMod > 2 * (MaxLag + 2 * Capacity)`. With the code's numbers (2^32 positions,
2^20 cells) `MaxLag` may be about 2.1 thousand million. Without it a sleeping
compare-exchange could meet its own position one full turn later.

### NodePool

`free_head` is a record of tag and id. The empty stack's word is all ones, so it
has a fixed tag: the code restarts the tags whenever the stack runs empty.
`stale` remembers which threads read the head before the stack was last empty,
`broken` whether such a thread's compare-exchange succeeded. A node can be killed
by the thread that has it (by `spawn`, or one of the nodes `init` made).

### MotorCortex

The main loop is one thread: its calls (`Submit`, `Pursue`, `FallBack`,
`MainAbort`, `DirectCheck`, `reset_kill_switch`, `shutdown`) start from `idle`
and run to their end. `mode` tells the calls apart that wait when the ring is
full from the goal pursuit, which drops the command. The motor thread's
`tpc` follows `motor_loop()` and `type_string()`. Kinds of command differ in
where they look at the kill switch: once ("key"), before every character, with
the epoch and the window ("string"), after the colon before every key ("start"),
before each of two keys ("end"). The window is reduced to whether it is the one
the string was begun in. `MotorAssumption` asks of procedures and chains only that they
are nonempty sequences of commands. `shutdown()` is modelled although the daemon's own exit
does not call it.

### ResearchCortex

`mpc` is the main loop, `rpc` the research thread. `live` chooses between the
daemon, which announces results, and a batch, which waits for the flags, saves
and ends. The user is one who waits until a run has been announced before the
next `/research` or `/research_run` (`Quiet`). Without that the code has plain
data races: `cmd_research` clears the vector the research thread iterates over.
Even with such a user two are left, and both are in the module. After a request
`cmd_research_run` counts the list once more, and `/research_status` counts and prints
it at any time, while the thread may be taking steps off it: `PrintRemaining`, which
changes nothing (`CountReadAlone`). And the daemon's own research asks `research_busy`,
`research_complete` and the list one after the other (`AutonomousBusy`,
`AutonomousComplete`, `AutonomousRemaining`), never `research_pending`: a request that
is made or taken up just before may run to its last step between these looks, and a
plan is then made under it. `early` says that the last look at `research_busy` fell
between a request and its being taken up, `overtaken` that a plan was made after such
a look; the safety properties hold until then. That the plan file can be opened or not
is the choice in `LocalStep`; a step without an output counts as completed all the
same, as in the code. The strings `last_goal` and `last_plan_path`, which both threads
use as well, are left out.

### EdgeTable

`stage`, `ec`, `walk`, `gap` and `key` are where the holder of the spinlock stands
and its locals: `walk` is the index of the outer loop of the sort and of the loop of
`prune()`, `gap` the sort's inner index or the number of edges kept so far. Whoever holds the lock is the only writer, so one holder is enough; a
waiting writer does nothing. `out` is the list of stores it has issued and that
have not reached the slots: each copy of a slot is a store of the target and one
of the weight, and `Store` lets the reader in between. The field `of` of a slot is
history: the edge whose weight the slot holds. The order of the two stores is the
order of the fields; a compiler may choose another, which changes which torn
slots are seen and nothing else that is checked. `add_inverse_edge` has the same
code over its own array. `kill()` and `init()`, which set the count to zero
without the lock, are not among the operations: the daemon kills no node.

### BrainFile

`mpc` and `at` are where the main loop stands in `sleep()`, `lpc` where the
learner stands in a sentence. A sentence has two words, which may be one, and makes a
bond between them and one between one of them and a new node (a phrase's or a binding
node). A bond has an inverse or has none, as those of identifiers, skip-grams, causes
and binding nodes; and a table that is full gives up an edge or refuses the new one,
on each side for itself (`Added`). So the two tables of edges need not agree, and no
property says they do. Any sentence may be the research thread's, which ingests
without a lock (`fpsan_research_async.h:418`), and nothing in `/save`, `/quit`, the
auto-save, `/load` or `/reset` waits for it: `SaveOpen`, `Load` and `Reset` ask only
where the main loop is. `file_mixed` and `brain_mixed` are history: a sentence was
learned during the save the file is from; the brain was loaded from such a file, or
replaced in the middle of a sentence. The last is also what stands for the arena that
`/load` and `/reset` free under the thread that writes to it.

`file` is the sequence of records on the disk; a process that dies while it writes
leaves a prefix of it, a full disk loses all records from some point on, and a finished
`fclose` is final. A record cut in the middle is dropped whole; in the code the node
keeps a count larger than its edges, until the boot throws it away, or for good after a
`/load`. `wake()` goes by the counts in the header: when a sentence made the records
disagree with them it reads bytes as the wrong kind of record, and may come to the end
or not (`Misread`); the model takes nothing from what is read like that, since nothing
is promised of it. Two sentences learned at once are left out. That a file which exists
can be opened for reading is assumed. The directives that are sealed again after a boot
are left out.

### MotorPlan and GoalPursuit

One pass of the loop is `input -> confirm -> tick -> pursue`, with `wait` and
`type` inside a line that opens or types. `current` is the planner's goal; its
number, counted over all goals set, is history, as are `fate` and `ran`. A goal
has at most one step, as in the code. `since` counts from the last step; the code
does not reset it when a goal is set. `seen` and `inherited` are history and say why
`verified` is set: the target was in front since it became the target (or was set
again), or the flag is left from the target before. The code cannot tell the two apart,
and carries a goal out in both cases (`StepsWaitForWindow` below). `MotorPlan` numbers motor nodes in the order of spawning, so that an
`EDGE_SEQUENCE` always leads to a higher number and the chain to be queued ends
(`Follow`; `Walk` is the walk of the screening, which has room for `MaxChain` nodes);
a brain file could hold a cycle, `save` and `load` are not composed with it. The
veto's other reason, nodes that a motor node requires and that are not active, is
a free choice.

### Ears and Dialogue

`hearing` is where the acoustic thread stands and the text it is at, `pc` where
the main loop stands: `input -> confirm -> ears -> tick -> drives -> input`, then
`stop -> join -> off`. Of a deadline only what is left of it is kept, and
`Clock` lets it go down by one for both threads. `force_listen_ms()` is two
stores (`ForceOpen`, `ForceUntil`), and so is the thread's own opening of the
window (`WakeHeard`, `Woken`), since the other thread may act in between.
`promised`, what is left of the longest invitation, is history, as are `asked` and
`fetched`. `voice` is SAPI's: `jarvis_say()` only hands it a text ("queued", or
nothing when muted), which is heard some time later (`VoiceStarts`, "speaking") until
it is over; `is_speaking()` is true only while it is heard.

### Activation

Everything in it is done by the main loop, so each function is one step; only
spikes may be posted by others (`post_spike`). Levels: 0 is below every cut-off
the code compares with, 1 above them, 2 at the threshold of a spike, -1 the
negative voltage a word is left with when it was said. `Raised`, `Decayed` and
`Thoughts` are the sets of outcomes that the additions, the decay and the spread
may have. `Wake` is what a wake word does before anything else: every node is raised,
and the snapshot of "Listening." goes over the short-term memory. `roster` is `l1_nodes_` with an age in place of the tick a word was last
seen at; the ages are closed up at each tick, since only their order matters.
`spawn_episode` and `clear_working_slots` are called by the gates of the benchmark
only; they are in the module because the daemon's tick and recall read what they
leave.

### Artefacts

`loaded` is the DLL that is mapped, `disk` the size of each file, `records` the
registry. `LoadFails`, `Rejected` and `Loads` are the three ends of `hot_load()`
after the compiler succeeded; when it did not, nothing changes. `strays` is
history: how a file got out of the accounts.

## Runs

| Run | Instance | Shows |
| --- | --- | --- |
| `spike_queue` | 2 producers, 2 consumers, 2 cells, 3 tickets, positions modulo 16 | safety, true refusals, every spike handed out, refinement of `SpikeChannel` |
| `node_pool` | 2 threads, 4 nodes, 6 changes of the head | one owner per node and no node lost, as long as no pop spans an empty stack; the top is what is popped; how far `node_count` overshoots |
| `node_pool_aba` | the same, 7 changes of the head | violation: without that proviso two threads own one node |
| `motor` | ring of 3, two procedures, one chain, one abort, one press of ESC, one reset | whole commands in order, an abort stops text within a character, ESC within an input, procedures run in prefixes, back-pressure ends; no deadlock in shutdown |
| `research` | 3 plans of 2 steps | until a request is overlooked: plans made and results taken while the thread is elsewhere, steps tried in order, no result lost; always: requests served, results announced |
| `edge_table` | 4 targets, 3 slots, 6 operations, a reader of 2 slots | the table stays a map and keeps its strongest edges; no unwritten slot is read; refinement of `EdgeSet` |
| `brain` | 3 words, 1 sentence, 1 death, 2 places in a table, saves and sentences at any moment | what the daemon boots with; edges join nodes there are; refinement of `BrainStore` |
| `goal_pursuit` | 2 concepts, 2 windows, 2 rules, chains screened to 4 nodes and 2 texts, 3 lines, 1 lapse; visual check every 2nd tick, a step after 2, a window missing after 4 | every goal ends once, and its plan is one the policy lets pass; none stays active for ever |
| `goal_lost_window` | the same | violation: the loss of the window is not noticed while a plan is typed |
| `dialogue` | 2 utterances of 5 kinds, ring of 1, 2 commands a pass, 1 line, deadline 1, windows 0 to 2 | only invited commands; each request ends one way and only agreed ones are fetched; requests, commands, `/quit` and the state of speaking end |
| `activation` | 2 words, one a directive, 1 episode, working set of 1, short-term memory of 2, queue of 1, 2 spikes a drain | no word in the first tier without a slot; sealed directives full after every tick; what the last snapshot took is active again in the next context; a drain ends |
| `artefacts` | 2 names, sizes 1 to 3, caps 2 and 3, 2 idle episodes, 2 records, 5 episodes, times 0 to 3 | what idles is pruned; what runs was accepted |

Where two invariants are about one thing, a run checks them under one name:
`NodesAccounted`, `StopsInTime`, `ResearchEnds`, `TableSound`, `BrainSound`,
`GoalsEndOnce` and `RequestsEndOnce` are the conjunctions, with the type invariant in those of
`NodePool`, `EdgeTable` and `BrainFile`. What is proved below and needed only as a
step to what a run checks is not run again: `PopsOwnTicket`, `RingInv`,
`VerifiedMeansSeen`, `StraysAreKnown`, and `TypeOK` of `MpmcQueue`, `Dialogue` and
`Artefacts`.

Why the bounds are enough. *Queue:* with two cells and three tickets a cell is
used twice, so a spike of an earlier lap is always at hand to be confused with;
`Laps = 7` puts the wrap of positions (at 16) among the tickets; two threads of
each kind are the fewest that compete for one ticket. *Pool:* three nodes may be
on the stack, so a successor can be changed under a sleeping pop; `TagMod` is
beyond the number of changes of the head, as 2^32 is in practice. *Motor:* every call is
as long as the ring can hold or longer; one abort, one press and one reset are
enough for each to fall anywhere in a call. *Research:* one plan that collects,
one that does not, and a third to overwrite what they left. *Edges:* three slots are the fewest in which a key
passes one edge and stops at another; six operations fill the table, change a
weight out of order and add to the full table twice. *Brain:* one word is not
known at first, so that the tables of clusters and nodes both grow; two places in a
table are filled by the sentence, so that an edge is given up; one sentence and one
death allow a finished save, another that is cut off, and learning before, during,
between and after. *Goals:* three lines are a rule, a goal and a
window, a rule, a rule and a goal, or two goals and a window, in every order; two
rules together make a chain that the policy blocks although neither is blocked
alone, and one more node than is screened. The numbers of ticks keep the order of
the code's. *Dialogue:* two utterances are a request and its reply, two requests,
or a command and its successor; with one line, the half-typed line, `!ears`,
`!ears_listen` and `/quit` each meet them at every step. *Activation:* a working set of one is full
at the first word, so each promotion of another evicts; a short-term memory of
two wraps; a queue of one overflows; each word is the other's successor, so a
spike can raise another for ever. *Artefacts:* one size is over the cap of an
artefact, two files together are over the total, and with two records a new
one takes the place of one that was pruned.

Fairness. *Queue:* a thread inside a call keeps running (weak fairness of its
loads and stores); pops that are possible again and again succeed (strong
fairness of the compare-exchange of all consumers together, which x86 gives: one
fails only when another succeeded). No fairness for a producer's
compare-exchange: it may give up posting. *Motor and research:* each thread runs
when it can; their waits are sleeps of 1 to 10 ms. A result that waits is taken, even
if boredom comes again and again, since each tick looks for it (l.2568) before it looks
for boredom (l.2641): strong fairness of `ConsumeCopy`. The user and the main loop's
other decisions have no fairness. *Goals:* the loop runs on and the
motor thread works off its queue; nothing is assumed of the windows, and
`GoalResolved` and `CommandsServed` ask only that the user does not keep a line half-typed for
ever. *Dialogue:* the loop runs on, the acoustic thread gets on with what it
has heard (not: hears more), and time passes. The voice has no fairness: `SpeakingEnds`
asks that it is silent from some time on. *Activation:* the drain, which is a
loop without waits, runs on. *Edges, brain, artefacts:* no liveness is stated, so
none is assumed.

## Proofs

Every safety property that a run checks is a theorem for all values of the
constants, with the exceptions named at the end of this section. The constants are
constrained by the `...Assumption` of each module only; TLC evaluates these on its
instances. In each proof module the inductive invariant comes first, then the lemmas
about the operators, then one lemma for each action or for each kind of step, then
the theorems. TLC was run on the inductive invariants before they were proved.

### The queue: `MpmcQueueProofs`

For any numbers of producers, consumers, cells and tickets:

- `RingCorrect`: `TypeOK` and `RingInv` always hold;
- `CellsExclusive`: no cell ever has two owners;
- `PopsOwn`: a pop returns the spike of its own ticket;
- `QueueImplementsChannel`: the queue implements `SpikeChannel`;
- `RefusalsTrue`: a push that is refused found the ring full, a pop that is
  refused found no complete spike.

They rest on `QueueAssumption` in `MpmcQueue`: at least two
cells, and `MaxLag` and `PosMod` as above. `CellExclusive` alone is not
inductive. What carries it is that the last `Capacity` tickets have one cell
each, and that the cell's sequence number tells whether its ticket is being
written, complete, being copied or free again (`CellsInv`); that owners hold
distinct tickets of the right kind (`ProducersInv`, `ConsumersInv`,
`OwnersInv`); and that a thread which saw its turn still has it if the counter
has not moved (`LookersInv`). The proof first shows that a looking thread's
sequence number is within half of `PosMod` of its ticket, so that the wrapped
comparisons say what they mean, then goes through the actions one by one. True
refusals need the converse too: a cell that looks busy has an owner (`OwnedInv`).

### The cluster graph: `ClusterGraphProofs`

*The node pool* (`PoolInvariant`, `EveryNodeAccounted`, `TopsAreTaken`), for finitely
many threads, any arena, and fewer changes of `free_head` than there are tags.
`NodesAccounted` is not inductive: that a pop takes the top off rests on the tag, and
the tag helps only a thread whose head is no older than the last empty stack, and only
if the stack under that head has not changed (`HeadsFresh`, `TagsBehind`). That no
killed node is lost rests on the shape of the stack: what can be reached from the top
(`Reach`, the smallest set closed under `free_next`) has no cycle and is apart from
what anyone owns or is about to push (`StackSound`). Acyclicity is stated by a measure
that falls along the links, so that no induction over the stack's length is needed: a
push adds a node above the measure of the rest, a pop takes one away.

*Edge tables* (`TableInductive`, `TablesStaySound`, `StrongestAreKept`,
`TablesImplementMaps`), for any fan-out, cap on the reader's walk, set of targets and
range of weights. `TableInv` is stated about the slots and the count as they will be
when the stores under way have reached memory (`Pending`): at every step some such
table exists, and it is sound for the holder's stage. During the sort the slots hold
an edge twice and lack another; with the key put where the gap is they are again a map
that the operation may make of the map before (`Filled`, `Outcome`), sorted up to the
edge being moved. In `prune()` it is the slots before the gap and those still to be
looked at that hold such a map (`Live`, `Strong`). A store then changes nothing of all
that, a move of the sort swaps two slots (`Swapped`), and a full table has as many
targets as slots (`AsMany`). The reader needs only that a slot once written stays
written. `KeepsStrongest` follows from the order that every operation but STDP leaves,
and the refinement of `EdgeSet` from `Outcome` at the unlock.

### The motor cortex: `MotorProofs`

`MotorInvariant`, `TypeCorrect`, `CommandsWhole`, `BothStopsInTime` and `PrefixRuns`,
for any ring of at least two slots, any procedures, chains and lengths of text, and
any numbers of calls, aborts, presses and resets. What was pushed and not popped is in
the ring from `head` to `tail` (`RingHolds`; the modulus is replaced by one
subtraction in `Plus`). For the prefixes: the commands of one procedure follow each
other in the log under one epoch (`CallsInOrder`), and those of this epoch that are
through the checks have begun, unless an abort the motor thread has decided on is
still owed (`FreshBegan`), so that the step before the next has begun whatever is
aborted now (`KillReady`).

### Research: `ResearchProofs`

`ResearchInvariant`, `TypeCorrect`, `ThreadsApart`, `PlansWorkedOff` and
`NoResultLost`, for any number and length of plans. Without a lock, the threads are
kept apart by what each may conclude from the three flags about where the other is:
`FlagsTell` and `MainAlone`. `ThreadsApart` follows from these two. `PlanWorkedOff`
needs that the step under way is the first of the list (`LabelTells`), `ResultsKept`
where a result is between the run that made it and its announcement (`ResultTells`).
All but the types are invariant only as long as no request was overlooked
(`~overtaken`), and the invariant says what makes the three looks of the daemon's own
research safe until then: if none was early, the thread does not start a run between
them.

### What is on the disk: `PersistenceProofs`

*The brain* (`BrainStaysSound`, `BootsWhole`, `SavesImplementStore`), for any numbers of
words, sentences, deaths and places in a table, with sentences at any moment.
`BrainInv` says that the file, unless a sentence was learned during its save, is always
a part of what `sleep()` writes of the brain that was last saved (`IsPartOf`, `FileInv`,
`SavingInv`), and all of it after a finished save; and that a learner inside a sentence
has room for what it has still to spawn, in a graph that has the nodes it links
(`LearnerInv`). The lemmas `WholeLoads` and `PartReadsToEnd` say what `wake()` makes of a
whole file and of a part of one.

*Self-edits* (`TypeCorrect`, `NothingIdles`, `OnlyAcceptedRuns`,
`NoOtherStrays`), for any names, sizes, caps and bounds. The four properties are
inductive with the type, of which the part that matters is that no two live
records have one path.

### Goals: `GoalProofs`

`GoalsAreAccounted`, `GoalsRunOnce`, `VerifiedIsSeen`, and `EveryGoalEndsOnce` from
the first two, for any concepts, rules, windows and numbers of ticks.
Each step does to the goals one of four things (set, cancel, find no step left,
carry out) or nothing (`GoalSteps`); `GoalsAccounted` and `RunsOnce` are
inductive together, since only an open goal is carried out and that ends it. For
the window one more fact is needed: the loop is in a wait only if there is a
target (`WaitsForTarget`).

`TypeCorrect` and `BlockedPlansStay`, for any rules, nodes, texts and caps as well. A
plan is screened as `ScreenedChain` and carried out as `QueuedChain`; `ScreenedIs`
says that the first is the beginning of the second. For that the recursive functions
must be known to have a value at all: `FollowExists` builds the chains from the newest
node back, which ends because a node's chain goes on with the next node or not at all
(`Linked`, inductive); `WalkIs` then shows that a walk with room is the beginning of one
without, and `FlattenIs` what joining the chains gives. Each is an induction over
naturals by way of a least counterexample (`LeastNatural`, `UpTo`), since the library's
induction theorems cannot be instantiated. `WholeBlob`: a plan with few enough texts is
looked at whole, since only what is launched or typed has a text (`Wordless`). What was
harmless when it was screened stays so, since nodes are only added and none is rewritten
(`NewNodes`, `StillHarmless`).

### Dialogue: `DialogueProofs`

`TypeCorrect`, `OnlyInvited`, `OneRequestHeld`,
`OnlyAgreedFetches`, and `EveryRequestEndsOnce` from the third and
fourth, for any ring, windows and deadline. Ears, request and speech (of which only
the types are proved) are three invariants, each proved over the list of what steps
do to its variables, and `StepKinds` shows that there is nothing else on the
lists. `InvitedOnly` is inductive once it is known that the window is never open
for longer than was promised (`PromiseKept`); `RequestsAccounted` needs that flag
and goal are set and cleared together (`HeldTogether`).

### Activation: `ActivationProofs`

`WorkingSetHolds`, `DirectivesStayLit`, `TypeCorrect` and `ContextIsPrimed`, for any words,
hubs, directives and capacities. The working set needs that `evict_lru_()` finds
a slot at all (`OldestIsThere`, from a least element of the ages, which are
bounded, `AgedRoster`); the directives need that a seal keeps its clamp
(`SealClamps`), although it does not keep its tier. The types of the queue and of the
episodes' references are `SpikesOK` and `EpisodesOK`. The context needs that the ring
of short-term memory holds the last snapshot over its end, whatever was stored before
(`ContextOK`).

### Only model-checked

- The liveness properties: `EverySpikeHandedOut`, `BackpressureEnds`, `ResearchEnds`,
  `GoalResolved`, `SpeakingEnds`, `RequestEnds`, `CommandsServed`, `QuitEnds`, `DrainEnds`.
  Fairness and ENABLED are out of the prover's reach.
- The two violations.

## Where the code and its comments disagree

Two runs expect a violation and are findings: `node_pool_aba`
(`cluster_graph.h:18` claims an ABA-tagged stack; the tag is lost whenever the
stack runs empty) and `goal_lost_window` (`fpsan_live_core.cpp:2461` describes a
window closed "mid-typing", a case its branch does not see).

Eleven more promises are stated as definitions that no run checks, because TLC
refutes them; add the definition as an INVARIANT (`ContextKept` as a PROPERTY) to the
configuration named:

| Definition | Configuration | Promise and what happens |
| --- | --- | --- |
| `DrainedMeansExecuted` | `MCMotorCortex` | `fpsan_motor.h:585` takes an idle queue for executed steps; the last one may be under way |
| `NeverTornSlot` | `MCEdgeTable` | `cluster_graph.h:189`: readers never see a torn slot; they read target and weight one after the other while the sort copies |
| `SnapshotReadsBack` | `MCBrainFile` | `fpsan_memory.h:8`: a quiescent state; a word the research thread learns between the count and the walk of a save, whoever asked for it, makes the file unreadable |
| `BreakMeansDone` | `MCResearchCortex` | `fpsan_live_core.cpp:2281`: three clear flags are "all async work done"; between two of them a run is under way |
| `FactsCreditedOnce` | `MCResearchCortex` | `fpsan_live_core.cpp:2582`: the real count of facts; a run without a fetch repeats the last one |
| `AutonomousWhenIdle` | `MCResearchCortex` | `fpsan_live_core.cpp:2644`: "If very bored and no research active"; `research_pending` is not asked, and the three looks are not one |
| `CountReadAlone` | `MCResearchCortex` | `fpsan_research_async.h:7-8`: the main loop "signals via lock-free atomics"; with no look at them it counts (live core l.1246, 1270, 2649) and prints (l.1296) the list from which the thread erases (`fpsan_research.h:63`) |
| `CompletedHasOutcome` | `MCResearchCortex` | `fpsan_research_async.h:58`: "Steps completed in this plan"; a step whose plan file cannot be opened (`fpsan_research.h:81-82`) is one of them (`fpsan_research_async.h:168-170`) |
| `StepsWaitForWindow` | `MCGoalPursuit` | `fpsan_live_core.cpp:2713`: "Wait until window is visually confirmed before executing next step"; a new target (l.1872, 1670) inherits the confirmation of the last one |
| `SpeakingShown` | `MCDialogue` | `fpsan_live_core.cpp:246`: "SPEAKING = TTS in progress (g_voice.is_speaking())"; the poll of l.2491 may come before the voice starts, and the boot greeting is spoken in LISTENING (l.2299) |
| `ContextKept` | `MCActivation` | `fpsan_live_core.cpp:238`: "contextual awareness of the previous dialogue turn"; the "Listening." of each wake word (l.2384), and every comment, goes over the ring first |

Met while modelling:

- *Brain.* `cmd_load()` announces "a clean slate" after a failed load, but leaves
  the brain as it was or a part of the saved one; `cmd_save()` announces "Brain
  saved" whatever `sleep()` returned. `/load` does not seal the directives again
  that l.2219 calls immortal.
- *Dialogue.* l.247 says half-duplex, "we never speak and listen at once";
  commands are served while it speaks, and the boot greeting is spoken in the state
  LISTENING. A command shortens a window that was longer (ears l.532). A reply
  that has a mark of both kinds ("don't do it") agrees.
- *Ears.* `shutdown()` deletes the critical section of the audio buffers
  (l.121, l.258) before it joins the thread that enters it. The buffers and their
  lock are not modelled.
- *Activation.* `hop` of a spike is checked (scheduler l.186) and never counted.
  A word just said is negative, so it is not in the snapshot taken right after.
- *Self-edits.* `fpsan_self_edit_registry.h:4` calls the caps HARD; touching an
  artefact with a larger size does not ask the total cap, the records are
  forgotten at every restart, a clock set back prunes everything, and a DLL that
  is mapped is marked pruned while its file stays.

## Not modelled

- Module registry, cortex harness, sensor bus: used by the benchmarks only, or
  by nothing.
- Knowledge mass loader: a sequential caller of operations that are modelled.
- HTTP client, wasm sandbox: sockets, and an object made and dropped by each
  command around a vendored interpreter.
- The lexer, the language cortex, hierarchy, world model and translation beyond
  what they do to the graph: text and floating-point code.
- Screen, voice and speaker profile beyond one bit each: calls to Windows.
- `kill()` against `add_edge()`: the daemon kills no node.
- Deadlines of spikes: every caller posts 0.

## Plan

Next: `GoalPursuit` over the real ring of `MotorCortex`; `kill()` and `init()` against
the edge tables; two learners at once, the research thread and the main loop, over one
graph; and the audio buffers with their critical section, to state what `shutdown()`
may not do.

------------------------------ MODULE MpmcQueue ------------------------------
(***************************************************************************)
(* The bounded multi-producer multi-consumer spike queue of                 *)
(* core/fpsan_san_scheduler.h: a ring of cells, each with a sequence number *)
(* that says whose turn the cell is, and two counters that hand out tickets.*)
(* One action is one atomic access of the code, so every interleaving of    *)
(* try_push and try_pop calls is a behaviour of Spec.                       *)
(*                                                                          *)
(* Positions are 32-bit counters in the code. Here a position is the number *)
(* of the ticket it stands for, which never wraps, and every comparison the *)
(* code makes is made on the positions modulo PosMod (2^32 in the code).    *)
(***************************************************************************)
EXTENDS Integers, Sequences

CONSTANTS Producers,   \* threads calling try_push
          Consumers,   \* threads calling try_pop
          Capacity,    \* cells in the ring
          PosMod,      \* positions are compared modulo this
          Laps,        \* laps of the ring completed before the first state
          MaxLag,      \* no thread sleeps inside a call while this many pushes pass
          MaxTickets,  \* bound: tickets handed out to producers
          NoSpike      \* what a cell or a consumer holds before its first spike

Threads == Producers \union Consumers

\* The constructor rounds the capacity to a power of two and never goes below
\* 1024: with one cell, "published" and "free for the next lap" would be the
\* same number. MaxLag is what 32-bit positions can tell apart.
ASSUME QueueAssumption ==
    /\ Producers \intersect Consumers = {}
    /\ Capacity \in Nat /\ Capacity > 1
    /\ Laps \in Nat
    /\ MaxLag \in Nat /\ MaxLag > Capacity
    /\ MaxTickets \in Nat
    /\ PosMod \in Nat
    /\ PosMod > 2 * (MaxLag + 2 * Capacity)

VARIABLES enqueue_pos,  \* next ticket for a producer
          dequeue_pos,  \* next ticket for a consumer
          seq,          \* cells_[i].seq
          data,         \* cells_[i].data
          pc,           \* where each thread is in its call
          pos,          \* each thread's local pos
          out,          \* each consumer's out parameter
          log           \* history: the spike of each ticket, in ticket order

vars == <<enqueue_pos, dequeue_pos, seq, data, pc, pos, out, log>>

Slots  == 0 .. Capacity - 1
Base   == Laps * Capacity
Index(p) == p % Capacity

\* Slips (operators named ...Slip, here and below): one change to the definition
\* each of them precedes that a property must not survive. Spec uses none.
BeforePosSlip(a, b) == a % PosMod < b % PosMod      \* forgets that words wrap

\* The two questions the code asks of a 32-bit difference: diff == 0, diff < 0.
SamePos(a, b)   == (a - b) % PosMod = 0
BeforePos(a, b) == 2 * ((a - b) % PosMod) >= PosMod

\* A spike is named by its producer and the ticket it was accepted under.
Spikes == Producers \X (Base .. Base + MaxTickets)
SpikeOf(t) == log[t - Base + 1]

----------------------------------------------------------------------------
\* The constructor, or any later moment at which the queue is empty and idle
\* after Laps laps.
Init ==
    /\ enqueue_pos = Base
    /\ dequeue_pos = Base
    /\ seq = [i \in Slots |-> Base + i]
    /\ data = [i \in Slots |-> NoSpike]
    /\ pc = [t \in Threads |-> "load"]
    /\ pos = [t \in Threads |-> Base]
    /\ out = [c \in Consumers |-> NoSpike]
    /\ log = <<>>

Goto(t, label) == pc' = [pc EXCEPT ![t] = label]

\* The position counter a thread works on.
Cursor(t) == IF t \in Producers THEN enqueue_pos ELSE dequeue_pos

\* What the cell's sequence number must be for a thread to have its turn.
Turn(t) == IF t \in Producers THEN pos[t] ELSE pos[t] + 1

\* pos = enqueue_pos_.load() or dequeue_pos_.load(): on entry, and again when
\* the cell turned out to belong to a later ticket.
LoadPos(t) ==
    /\ pc[t] = "load"
    /\ pos' = [pos EXCEPT ![t] = Cursor(t)]
    /\ Goto(t, "seq")
    /\ UNCHANGED <<enqueue_pos, dequeue_pos, seq, data, out, log>>

\* seq = c.seq.load() and the branch on diff: our turn, refused (full for a
\* producer, empty for a consumer: return false), or another thread was faster.
TurnReady(t)   == SamePos(seq[Index(pos[t])], Turn(t))
TurnRefused(t) == ~TurnReady(t) /\ BeforePos(seq[Index(pos[t])], Turn(t))

LoadSeq(t, label) ==
    /\ pc[t] = "seq"
    /\ Goto(t, label)
    /\ UNCHANGED <<enqueue_pos, dequeue_pos, seq, data, pos, out, log>>

TurnCome(t) == TurnReady(t) /\ LoadSeq(t, "cas")
Refuse(t)   == TurnRefused(t) /\ LoadSeq(t, "load")
Retry(t)    == ~TurnReady(t) /\ ~TurnRefused(t) /\ LoadSeq(t, "load")

\* compare_exchange_weak failed, spuriously or because the counter moved: pos
\* is the counter's value and the loop goes on.
CasFail(t) ==
    /\ pc[t] = "cas"
    /\ pos' = [pos EXCEPT ![t] = Cursor(t)]
    /\ Goto(t, "seq")
    /\ UNCHANGED <<enqueue_pos, dequeue_pos, seq, data, out, log>>

\* The bound on sleeping threads (MaxLag).
NobodyLags ==
    \A t \in Threads : pc[t] \in {"seq", "cas"} => enqueue_pos - pos[t] < MaxLag

\* An increment in place of the compare-exchange: the ticket is no longer pos.
PushCasSlip(p) ==
    /\ pc[p] = "cas"
    /\ NobodyLags
    /\ enqueue_pos < Base + MaxTickets
    /\ enqueue_pos' = enqueue_pos + 1
    /\ log' = Append(log, <<p, pos[p]>>)
    /\ Goto(p, "data")
    /\ UNCHANGED <<dequeue_pos, seq, data, pos, out>>

\* compare_exchange_weak succeeded: the producer owns ticket pos and its cell.
PushCas(p) ==
    /\ pc[p] = "cas"
    /\ SamePos(enqueue_pos, pos[p])
    /\ NobodyLags
    /\ enqueue_pos < Base + MaxTickets
    /\ enqueue_pos' = enqueue_pos + 1
    /\ log' = Append(log, <<p, pos[p]>>)
    /\ Goto(p, "data")
    /\ UNCHANGED <<dequeue_pos, seq, data, pos, out>>

\* c.data = ev
PushData(p) ==
    /\ pc[p] = "data"
    /\ data' = [data EXCEPT ![Index(pos[p])] = <<p, pos[p]>>]
    /\ Goto(p, "publish")
    /\ UNCHANGED <<enqueue_pos, dequeue_pos, seq, pos, out, log>>

\* The cell is handed back unpublished.
PushPublishSlip(p) ==
    /\ pc[p] = "publish"
    /\ seq' = [seq EXCEPT ![Index(pos[p])] = pos[p]]
    /\ Goto(p, "load")
    /\ UNCHANGED <<enqueue_pos, dequeue_pos, data, pos, out, log>>

\* c.seq.store(pos + 1, release); return true
PushPublish(p) ==
    /\ pc[p] = "publish"
    /\ seq' = [seq EXCEPT ![Index(pos[p])] = pos[p] + 1]
    /\ Goto(p, "load")
    /\ UNCHANGED <<enqueue_pos, dequeue_pos, data, pos, out, log>>

\* The cell is released with the claim, before its spike is copied out.
PopCasSlip(c) ==
    /\ pc[c] = "cas"
    /\ SamePos(dequeue_pos, pos[c])
    /\ dequeue_pos' = dequeue_pos + 1
    /\ seq' = [seq EXCEPT ![Index(pos[c])] = pos[c] + Capacity]
    /\ Goto(c, "data")
    /\ UNCHANGED <<enqueue_pos, data, pos, out, log>>

\* compare_exchange_weak succeeded: the consumer owns the oldest ticket.
PopCas(c) ==
    /\ pc[c] = "cas"
    /\ SamePos(dequeue_pos, pos[c])
    /\ dequeue_pos' = dequeue_pos + 1
    /\ Goto(c, "data")
    /\ UNCHANGED <<enqueue_pos, seq, data, pos, out, log>>

\* out = c.data
PopData(c) ==
    /\ pc[c] = "data"
    /\ out' = [out EXCEPT ![c] = data[Index(pos[c])]]
    /\ Goto(c, "release")
    /\ UNCHANGED <<enqueue_pos, dequeue_pos, seq, data, pos, log>>

\* c.seq.store(pos + capacity_, release); return true
PopRelease(c) ==
    /\ pc[c] = "release"
    /\ seq' = [seq EXCEPT ![Index(pos[c])] = pos[c] + Capacity]
    /\ Goto(c, "load")
    /\ UNCHANGED <<enqueue_pos, dequeue_pos, data, pos, out, log>>

Look(t) == LoadPos(t) \/ TurnCome(t) \/ Refuse(t) \/ Retry(t) \/ CasFail(t)
Push(p) == PushCas(p) \/ PushData(p) \/ PushPublish(p)
Pop(c)  == PopCas(c) \/ PopData(c) \/ PopRelease(c)

Next ==
    \/ \E t \in Threads : Look(t)
    \/ \E p \in Producers : Push(p)
    \/ \E c \in Consumers : Pop(c)

Spec == Init /\ [][Next]_vars

\* Threads inside a call keep running. A compare-exchange that is tried again
\* and again with the counter unchanged succeeds: on the x86 the daemon is
\* built for it fails only when another thread's succeeded.
FairSpec ==
    /\ Spec
    /\ \A t \in Threads :
           WF_vars(LoadPos(t) \/ TurnCome(t) \/ Refuse(t) \/ Retry(t))
    /\ \A p \in Producers : WF_vars(PushData(p) \/ PushPublish(p))
    /\ \A c \in Consumers : WF_vars(PopData(c) \/ PopRelease(c))
    /\ SF_vars(\E c \in Consumers : PopCas(c))

----------------------------------------------------------------------------
(***************************************************************************)
(* Properties                                                               *)
(***************************************************************************)
TypeOK ==
    /\ enqueue_pos \in Base .. Base + MaxTickets
    /\ dequeue_pos \in Base .. enqueue_pos
    /\ seq \in [Slots -> Nat]
    /\ data \in [Slots -> Spikes \union {NoSpike}]
    /\ pc \in [Threads -> {"load", "seq", "cas", "data", "publish", "release"}]
    /\ pos \in [Threads -> Base .. Base + MaxTickets]
    /\ out \in [Consumers -> Spikes \union {NoSpike}]
    /\ log \in Seq(Spikes)

\* A thread owns the cell of its ticket from the compare-exchange to the store
\* of the cell's next sequence number.
Owns(t) == pc[t] \in {"data", "publish", "release"}

\* c.data is a plain struct: no two threads may be between their claim and
\* their release of the same cell, or a spike is torn, lost or read twice.
CellExclusive ==
    \A t, u \in Threads :
        t # u /\ Owns(t) /\ Owns(u) => Index(pos[t]) # Index(pos[u])

\* What try_pop returns is the spike that was pushed under the consumer's own
\* ticket: not a spike of an earlier lap, not one that another consumer gets.
PopsOwnTicket ==
    \A c \in Consumers : pc[c] = "release" => out[c] = SpikeOf(pos[c])

\* Is ticket t's spike in its cell, complete, or already taken out of it?
Published(t) == t < enqueue_pos /\ ~\E p \in Producers : Owns(p) /\ pos[p] = t
Released(t)  == t < dequeue_pos /\ ~\E c \in Consumers : Owns(c) /\ pos[c] = t

----------------------------------------------------------------------------
(* Why they hold: the last Capacity tickets have one cell each, and the     *)
(* cell's sequence number says how far its ticket has come.                 *)

Waiting == dequeue_pos .. enqueue_pos - 1           \* accepted, not handed out
Gone    == enqueue_pos - Capacity .. dequeue_pos - 1 \* handed out, same lap

\* A waiting ticket is being written or complete; one that is handed out is
\* being copied or its cell is free for the next lap.
CellsInv ==
    /\ enqueue_pos - dequeue_pos <= Capacity
    /\ Len(log) = enqueue_pos - Base
    /\ \A t \in Waiting : \/ seq[Index(t)] = t
                          \/ seq[Index(t)] = t + 1 /\ data[Index(t)] = SpikeOf(t)
    /\ \A t \in Gone : seq[Index(t)] = t + 1 \/ seq[Index(t)] = t + Capacity

\* The owners of cells hold tickets of the right kind, each its own.
ProducersInv ==
    \A p \in Producers :
        /\ pc[p] # "release"
        /\ Owns(p) => /\ pos[p] \in Waiting
                      /\ seq[Index(pos[p])] = pos[p]
                      /\ SpikeOf(pos[p]) = <<p, pos[p]>>
        /\ pc[p] = "publish" => data[Index(pos[p])] = SpikeOf(pos[p])

ConsumersInv ==
    \A c \in Consumers :
        /\ pc[c] # "publish"
        /\ Owns(c) => pos[c] \in Gone /\ seq[Index(pos[c])] = pos[c] + 1
        /\ pc[c] = "data" => data[Index(pos[c])] = SpikeOf(pos[c])
        /\ pc[c] = "release" => out[c] = SpikeOf(pos[c])

OwnersInv ==
    \A t, u \in Threads : t # u /\ Owns(t) /\ Owns(u) => pos[t] # pos[u]

\* A thread that is still looking is behind the counter; if it saw its turn
\* and the counter has not moved, it is still its turn.
LookersInv ==
    /\ \A t \in Threads : pc[t] \in {"seq", "cas"} =>
           pos[t] <= Cursor(t) /\ enqueue_pos - pos[t] <= MaxLag
    /\ \A p \in Producers : pc[p] = "cas" /\ pos[p] = enqueue_pos =>
           seq[Index(pos[p])] = pos[p]
    /\ \A c \in Consumers : pc[c] = "cas" /\ pos[c] = dequeue_pos =>
           pos[c] \in Waiting /\ seq[Index(pos[c])] = pos[c] + 1

RingInv == CellsInv /\ ProducersInv /\ ConsumersInv /\ OwnersInv /\ LookersInv

\* return false means what the callers take it to mean: a refused push found
\* the ring full (the spike one lap back is still in the cell the next push
\* needs) and a refused pop found no complete spike at the head of the ring.
RefusalsAreTrue ==
    [][ /\ \A p \in Producers : Refuse(p) => ~Released(enqueue_pos - Capacity)
        /\ \A c \in Consumers : Refuse(c) => ~Published(dequeue_pos) ]_vars

\* An accepted spike is handed out, though a producer may be asleep between
\* its claim and its store and every consumer waits behind it.
EverySpikeHandedOut ==
    \A t \in Base .. Base + MaxTickets - 1 :
        (enqueue_pos > t) ~> (dequeue_pos > t)

\* The queue implements SpikeChannel: a push takes effect at the producer's
\* compare-exchange, a pop at the consumer's, whose spike is on its way while
\* it has still to be copied out of the cell.
Channel == INSTANCE SpikeChannel WITH
    accepted <- log,
    taken    <- dequeue_pos - Base,
    hand     <- [c \in Consumers |-> IF pc[c] = "data" THEN SpikeOf(pos[c])
                                                      ELSE out[c]]
ImplementsChannel == Channel!ChanSpec
=============================================================================

--------------------------- MODULE MpmcQueueProofs ---------------------------
(***************************************************************************)
(* Proofs about MpmcQueue, for every number of threads, cells and tickets.  *)
(***************************************************************************)
EXTENDS MpmcQueue, TLAPS

----------------------------------------------------------------------------
(* Arithmetic of positions *)

\* Division with remainder has one answer.
LEMMA DivisionUnique ==
    ASSUME NEW M \in Nat, M > 0, NEW q \in Int, NEW r \in 0 .. M - 1
    PROVE  (M * q + r) % M = r
<1> DEFINE a == M * q + r
           d == q - (a \div M)
<1>1. a \in Int /\ a % M \in 0 .. M - 1 /\ a = M * (a \div M) + (a % M)
  OBVIOUS
<1>2. d \in Int /\ M * d = (a % M) - r
  BY <1>1
<1> HIDE DEF d
<1>3. CASE d >= 1
  BY <1>1, <1>2, <1>3, M * d >= M
<1>4. CASE d <= -1
  BY <1>1, <1>2, <1>4, M * d <= -M
<1>5. CASE d = 0
  BY <1>1, <1>2, <1>5
<1> QED
  BY <1>2, <1>3, <1>4, <1>5

\* Fewer than M apart and equal modulo M: equal.
LEMMA ModInjective ==
    ASSUME NEW M \in Nat, M > 0, NEW a \in Int, NEW b \in Int,
           a % M = b % M, -M < a - b, a - b < M
    PROVE  a = b
<1> DEFINE d == (a \div M) - (b \div M)
<1>1. /\ a = M * (a \div M) + (a % M) /\ a \div M \in Int
      /\ b = M * (b \div M) + (b % M) /\ b \div M \in Int
  OBVIOUS
<1>2. d \in Int /\ a - b = M * d
  BY <1>1
<1> HIDE DEF d
<1>3. CASE d >= 1
  BY <1>2, <1>3, M * d >= M
<1>4. CASE d <= -1
  BY <1>2, <1>4, M * d <= -M
<1>5. CASE d = 0
  BY <1>2, <1>5
<1> QED
  BY <1>2, <1>3, <1>4, <1>5

LEMMA IndexInSlots ==
    ASSUME NEW a \in Int
    PROVE  Index(a) \in Slots
BY QueueAssumption DEF Index, Slots

\* Two tickets less than a lap apart have different cells.
LEMMA IndexInjective ==
    ASSUME NEW a \in Int, NEW b \in Int, Index(a) = Index(b),
           -Capacity < a - b, a - b < Capacity
    PROVE  a = b
BY ModInjective, QueueAssumption DEF Index

\* One lap later comes the same cell.
LEMMA IndexNextLap ==
    ASSUME NEW a \in Int
    PROVE  Index(a + Capacity) = Index(a)
<1> DEFINE q == (a \div Capacity) + 1
           r == a % Capacity
<1>1. a + Capacity = Capacity * q + r /\ q \in Int /\ r \in 0 .. Capacity - 1
  BY QueueAssumption
<1> HIDE DEF q, r
<1>2. (Capacity * q + r) % Capacity = r
  BY <1>1, DivisionUnique, QueueAssumption
<1> QED
  BY <1>1, <1>2 DEF Index, r

\* The first lap starts at cell 0.
LEMMA IndexOfFirstLap ==
    ASSUME NEW i \in Slots
    PROVE  Index(Base + i) = i
<1>1. Base + i = Capacity * Laps + i /\ i \in 0 .. Capacity - 1 /\ Laps \in Int
  BY QueueAssumption DEF Base, Slots
<1>2. (Capacity * Laps + i) % Capacity = i
  BY <1>1, DivisionUnique, QueueAssumption
<1> QED
  BY <1>1, <1>2 DEF Index

\* Each cell belongs to one of the last Capacity tickets before e.
LEMMA IndexOnto ==
    ASSUME NEW e \in Int, NEW i \in Slots
    PROVE  \E v \in e - Capacity .. e - 1 : Index(v) = i
<1> DEFINE d == i - (e - Capacity)
           q == 0 - (d \div Capacity)
           r == d % Capacity
           v == e - Capacity + r
<1>1. d = r - Capacity * q /\ q \in Int /\ r \in 0 .. Capacity - 1
  BY QueueAssumption DEF Slots
<1>2. v = i + Capacity * q /\ v \in e - Capacity .. e - 1
  BY <1>1, QueueAssumption DEF Slots
<1> HIDE DEF q, v
<1>3. v = Capacity * q + i /\ q \in Int /\ i \in 0 .. Capacity - 1
  BY <1>1, <1>2, QueueAssumption DEF Slots
<1>4. (Capacity * q + i) % Capacity = i
  BY <1>3, DivisionUnique, QueueAssumption
<1>5. Index(v) = i
  BY <1>3, <1>4 DEF Index
<1> QED
  BY <1>2, <1>5

\* Within half the range of a position, the code's comparisons are exact.
LEMMA SamePosExact ==
    ASSUME NEW a \in Int, NEW b \in Int, -PosMod < a - b, a - b < PosMod
    PROVE  SamePos(a, b) <=> a = b
<1>1. PosMod \in Nat /\ PosMod > 0 /\ 0 % PosMod = 0
  BY QueueAssumption, DivisionUnique
<1>2. ASSUME (a - b) % PosMod = 0 PROVE a = b
  BY <1>1, <1>2, ModInjective
<1> QED
  BY <1>1, <1>2 DEF SamePos

LEMMA BeforePosExact ==
    ASSUME NEW a \in Int, NEW b \in Int,
           -PosMod < 2 * (a - b), 2 * (a - b) < PosMod
    PROVE  BeforePos(a, b) <=> a < b
<1>1. PosMod \in Nat /\ PosMod > 0
  BY QueueAssumption
<1>2. CASE a < b
  <2>1. a - b = PosMod * (-1) + (a - b + PosMod) /\ a - b + PosMod \in 0 .. PosMod - 1
    BY <1>1, <1>2
  <2>2. (PosMod * (-1) + (a - b + PosMod)) % PosMod = a - b + PosMod
    BY <1>1, <2>1, DivisionUnique
  <2> QED
    BY <1>1, <1>2, <2>1, <2>2 DEF BeforePos
<1>3. CASE ~(a < b)
  <2>1. a - b = PosMod * 0 + (a - b) /\ a - b \in 0 .. PosMod - 1
    BY <1>1, <1>3
  <2>2. (PosMod * 0 + (a - b)) % PosMod = a - b
    BY <1>1, <2>1, DivisionUnique
  <2> QED
    BY <1>1, <1>3, <2>1, <2>2 DEF BeforePos
<1> QED
  BY <1>2, <1>3

----------------------------------------------------------------------------
(* The invariant *)

LEMMA ConstantTypes ==
    /\ Base \in Nat
    /\ Capacity \in Nat /\ Capacity > 1
    /\ MaxLag \in Nat /\ MaxLag > Capacity
    /\ PosMod \in Nat /\ PosMod > 2 * (MaxLag + 2 * Capacity)
    /\ MaxTickets \in Nat
    /\ \A p \in Producers : p \notin Consumers
BY QueueAssumption DEF Base

LEMMA InitInv == Init => TypeOK /\ RingInv
<1> SUFFICES ASSUME Init PROVE TypeOK /\ RingInv
  OBVIOUS
<1> USE ConstantTypes DEF Init
<1>1. TypeOK
  BY DEF TypeOK, Slots
<1>2. CellsInv
  <2>1. ASSUME NEW t \in Gone PROVE seq[Index(t)] = t + Capacity
    <3> DEFINE i == t + Capacity - Base
    <3>1. i \in Slots /\ Base + i = t + Capacity
      BY DEF Gone, Slots
    <3>2. Index(t) = i
      BY <3>1, IndexOfFirstLap, IndexNextLap DEF Gone
    <3> QED
      BY <3>1, <3>2
  <2>2. Waiting = {}
    BY DEF Waiting
  <2>3. enqueue_pos - dequeue_pos = 0 /\ enqueue_pos - Base = 0 /\ Len(log) = 0
    OBVIOUS
  <2>4. enqueue_pos - dequeue_pos <= Capacity /\ Len(log) = enqueue_pos - Base
    BY <2>3
  <2> QED
    BY <2>1, <2>2, <2>4, Zenon DEF CellsInv
<1>3. ProducersInv /\ ConsumersInv /\ OwnersInv /\ LookersInv
  BY DEF ProducersInv, ConsumersInv, OwnersInv, LookersInv, Owns, Threads
<1> QED
  BY <1>1, <1>2, <1>3 DEF RingInv

\* The tickets of one lap have different cells.
LEMMA LapInjective ==
    ASSUME TypeOK, RingInv,
           NEW t \in Waiting \union Gone, NEW u \in Waiting \union Gone, t # u
    PROVE  Index(t) # Index(u)
<1> QED
  BY IndexInjective, ConstantTypes DEF TypeOK, RingInv, CellsInv, Waiting, Gone

\* Two threads never own the same cell: the safety of the plain copies of
\* c.data in try_push and try_pop.
LEMMA RingInvExclusive == TypeOK /\ RingInv => CellExclusive
<1> SUFFICES ASSUME TypeOK, RingInv, NEW t \in Threads, NEW u \in Threads,
                    t # u, Owns(t), Owns(u)
             PROVE  Index(pos[t]) # Index(pos[u])
  BY DEF CellExclusive
<1>1. pos[t] \in Waiting \union Gone /\ pos[u] \in Waiting \union Gone
  BY DEF RingInv, ProducersInv, ConsumersInv, Threads
<1>2. pos[t] # pos[u]
  BY DEF RingInv, OwnersInv
<1> QED
  BY <1>1, <1>2, LapInjective

----------------------------------------------------------------------------
(* What a thread learns from the cell's sequence number *)

LEMMA CellBounds ==
    ASSUME TypeOK, RingInv, NEW i \in Slots
    PROVE  seq[i] \in enqueue_pos - Capacity .. enqueue_pos + Capacity - 1
<1>0. enqueue_pos \in Int /\ dequeue_pos \in Int
  BY ConstantTypes DEF TypeOK
<1>1. PICK v \in enqueue_pos - Capacity .. enqueue_pos - 1 : Index(v) = i
  BY <1>0, IndexOnto
<1>2. v \in Waiting \/ v \in Gone
  BY <1>1, ConstantTypes DEF TypeOK, RingInv, CellsInv, Waiting, Gone
<1>3. seq[i] \in {v, v + 1, v + Capacity}
  BY <1>1, <1>2 DEF RingInv, CellsInv
<1> QED
  BY <1>1, <1>3, ConstantTypes DEF TypeOK

\* The sequence number in a looking thread's cell is close to its ticket, so
\* the code's wrapped comparisons say what they mean.
LEMMA LookExact ==
    ASSUME TypeOK, RingInv, NEW t \in Threads, pc[t] \in {"seq", "cas"}
    PROVE  /\ pos[t] \in Nat /\ pos[t] <= Cursor(t)
           /\ TurnReady(t) <=> seq[Index(pos[t])] = Turn(t)
           /\ BeforePos(seq[Index(pos[t])], Turn(t)) <=> seq[Index(pos[t])] < Turn(t)
           /\ SamePos(Cursor(t), pos[t]) <=> Cursor(t) = pos[t]
<1> DEFINE s == seq[Index(pos[t])]
<1> USE ConstantTypes
<1>1. /\ pos[t] \in Nat /\ enqueue_pos \in Nat /\ dequeue_pos \in Nat
      /\ dequeue_pos <= enqueue_pos
      /\ pos[t] <= Cursor(t) /\ enqueue_pos - pos[t] <= MaxLag
  BY DEF TypeOK, RingInv, LookersInv
<1>2. /\ Cursor(t) \in {enqueue_pos, dequeue_pos}
      /\ Turn(t) \in {pos[t], pos[t] + 1}
  BY DEF Cursor, Turn
<1>3. s \in enqueue_pos - Capacity .. enqueue_pos + Capacity - 1
  BY <1>1, CellBounds, IndexInSlots
<1> HIDE DEF s
<1>4. /\ s \in Int /\ Turn(t) \in Int /\ Cursor(t) \in Int
      /\ -PosMod < 2 * (s - Turn(t)) /\ 2 * (s - Turn(t)) < PosMod
      /\ -PosMod < Cursor(t) - pos[t] /\ Cursor(t) - pos[t] < PosMod
  BY <1>1, <1>2, <1>3
<1>5. SamePos(s, Turn(t)) <=> s = Turn(t)
  BY <1>4, SamePosExact
<1>6. BeforePos(s, Turn(t)) <=> s < Turn(t)
  BY <1>4, BeforePosExact
<1>7. SamePos(Cursor(t), pos[t]) <=> Cursor(t) = pos[t]
  BY <1>1, <1>4, SamePosExact
<1> QED
  BY <1>1, <1>5, <1>6, <1>7 DEF s, TurnReady

----------------------------------------------------------------------------
(* Each step preserves the invariant *)

LEMMA LookStep ==
    ASSUME TypeOK, RingInv, NEW t \in Threads, Look(t)
    PROVE  TypeOK' /\ RingInv'
<1> USE ConstantTypes
<1>1. /\ UNCHANGED <<enqueue_pos, dequeue_pos, seq, data, out, log>>
      /\ pc[t] \in {"load", "seq", "cas"}
      /\ \/ pos' = [pos EXCEPT ![t] = Cursor(t)] /\ pc' = [pc EXCEPT ![t] = "seq"]
         \/ pos' = pos /\ pc' = [pc EXCEPT ![t] = "load"]
         \/ /\ pos' = pos /\ pc' = [pc EXCEPT ![t] = "cas"]
            /\ pc[t] = "seq" /\ TurnReady(t)
  BY DEF Look, LoadPos, TurnCome, Refuse, Retry, CasFail, LoadSeq, Goto
<1>2. TypeOK'
  <2>1. Cursor(t) \in Base .. Base + MaxTickets
    BY DEF Cursor, TypeOK
  <2>2. pos' \in [Threads -> Base .. Base + MaxTickets]
    BY <1>1, <2>1 DEF TypeOK
  <2>3. pc' \in [Threads -> {"load", "seq", "cas", "data", "publish", "release"}]
    BY <1>1 DEF TypeOK
  <2> QED
    BY <1>1, <2>2, <2>3 DEF TypeOK
<1>3. CellsInv'
  BY <1>1 DEF RingInv, CellsInv, Waiting, Gone, SpikeOf
<1>4. \A u \in Threads : /\ u # t => pc'[u] = pc[u] /\ pos'[u] = pos[u]
                         /\ pc'[t] \in {"load", "seq", "cas"}
  BY <1>1 DEF TypeOK
<1>5. \A u \in Threads : Owns(u)' => u # t /\ Owns(u)
  BY <1>4 DEF Owns
<1>6. ProducersInv' /\ ConsumersInv' /\ OwnersInv'
  <2>1. ASSUME NEW p \in Producers
        PROVE  /\ pc'[p] # "release"
               /\ Owns(p)' => /\ pos'[p] \in Waiting
                              /\ seq[Index(pos'[p])] = pos'[p]
                              /\ SpikeOf(pos'[p]) = <<p, pos'[p]>>
               /\ pc'[p] = "publish" => data[Index(pos'[p])] = SpikeOf(pos'[p])
    BY <1>4, <1>5 DEF RingInv, ProducersInv, Threads, Owns
  <2>2. ASSUME NEW c \in Consumers
        PROVE  /\ pc'[c] # "publish"
               /\ Owns(c)' => pos'[c] \in Gone /\ seq[Index(pos'[c])] = pos'[c] + 1
               /\ pc'[c] = "data" => data[Index(pos'[c])] = SpikeOf(pos'[c])
               /\ pc'[c] = "release" => out[c] = SpikeOf(pos'[c])
    BY <1>4, <1>5 DEF RingInv, ConsumersInv, Threads, Owns
  <2>3. OwnersInv'
    BY <1>4, <1>5 DEF RingInv, OwnersInv
  <2> QED
    BY <1>1, <2>1, <2>2, <2>3
    DEF ProducersInv, ConsumersInv, Waiting, Gone, SpikeOf
<1>7. LookersInv'
  <2>1. \A u \in Threads : Cursor(u)' = Cursor(u)
    BY <1>1 DEF Cursor
  <2>2. Cursor(t) \in Int /\ enqueue_pos - Cursor(t) <= MaxLag /\ Cursor(t) <= Cursor(t)
    BY DEF Cursor, TypeOK, RingInv, CellsInv
  <2>3. pc'[t] \in {"seq", "cas"} =>
            pos'[t] <= Cursor(t) /\ enqueue_pos - pos'[t] <= MaxLag
    BY <1>1, <2>2 DEF TypeOK, RingInv, LookersInv
  <2>4. pc'[t] = "cas" => pos'[t] = pos[t] /\ seq[Index(pos[t])] = Turn(t)
    BY <1>1, LookExact DEF TypeOK
  <2>5. ASSUME NEW c \in Consumers, pc'[c] = "cas", pos'[c] = dequeue_pos
        PROVE  pos'[c] \in Waiting /\ seq[Index(pos'[c])] = pos'[c] + 1
    <3>1. CASE c # t
      BY <1>4, <2>5, <3>1 DEF RingInv, LookersInv, Threads
    <3>2. CASE c = t
      <4>1. seq[Index(dequeue_pos)] = dequeue_pos + 1
        BY <2>4, <2>5, <3>2 DEF Turn
      <4>2. ASSUME dequeue_pos = enqueue_pos PROVE FALSE
        <5>1. dequeue_pos - Capacity \in Gone
          BY <4>2 DEF Gone, TypeOK
        <5>2. Index(dequeue_pos - Capacity) = Index(dequeue_pos)
          BY IndexNextLap, dequeue_pos - Capacity \in Int,
             (dequeue_pos - Capacity) + Capacity = dequeue_pos DEF TypeOK
        <5>3. \/ seq[Index(dequeue_pos)] = dequeue_pos - Capacity + 1
              \/ seq[Index(dequeue_pos)] = dequeue_pos - Capacity + Capacity
          BY <5>1, <5>2 DEF RingInv, CellsInv
        <5> QED
          BY <4>1, <5>3 DEF TypeOK
      <4> QED
        BY <2>4, <2>5, <3>2, <4>1, <4>2 DEF Waiting, TypeOK
    <3> QED
      BY <3>1, <3>2
  <2>6. ASSUME NEW p \in Producers, pc'[p] = "cas", pos'[p] = enqueue_pos
        PROVE  seq[Index(pos'[p])] = pos'[p]
    BY <1>4, <2>4, <2>6 DEF RingInv, LookersInv, Threads, Turn
  <2> QED
    BY <1>1, <1>4, <2>1, <2>3, <2>5, <2>6 DEF RingInv, LookersInv, Waiting
<1> QED
  BY <1>2, <1>3, <1>6, <1>7 DEF RingInv

\* A producer's turn on a counter that has not moved: its cell is free.
LEMMA PushTurn ==
    ASSUME TypeOK, RingInv, NEW p \in Producers, PushCas(p)
    PROVE  /\ pos[p] = enqueue_pos
           /\ seq[Index(enqueue_pos)] = enqueue_pos
           /\ enqueue_pos - dequeue_pos < Capacity
<1> USE ConstantTypes
<1>1. pos[p] = enqueue_pos
  BY LookExact DEF PushCas, Cursor, Threads
<1>2. seq[Index(enqueue_pos)] = enqueue_pos
  BY <1>1 DEF PushCas, RingInv, LookersInv
<1>3. ASSUME enqueue_pos - dequeue_pos = Capacity PROVE FALSE
  <2>1. dequeue_pos \in Waiting /\ Index(dequeue_pos) = Index(enqueue_pos)
    BY <1>3, IndexNextLap, dequeue_pos + Capacity = enqueue_pos DEF TypeOK, Waiting
  <2>2. seq[Index(dequeue_pos)] \in {dequeue_pos, dequeue_pos + 1}
    BY <2>1 DEF RingInv, CellsInv
  <2> QED
    BY <1>2, <1>3, <2>1, <2>2 DEF TypeOK
<1>4. enqueue_pos - dequeue_pos <= Capacity /\ enqueue_pos \in Int /\ dequeue_pos \in Int
  BY DEF RingInv, CellsInv, TypeOK
<1> QED
  BY <1>1, <1>2, <1>3, <1>4

LEMMA PushCasStep ==
    ASSUME TypeOK, RingInv, NEW p \in Producers, PushCas(p)
    PROVE  TypeOK' /\ RingInv'
<1> USE ConstantTypes
<1>1. /\ pc[p] = "cas" /\ pos[p] = enqueue_pos
      /\ enqueue_pos \in Nat /\ dequeue_pos \in Nat
      /\ Base <= dequeue_pos /\ dequeue_pos <= enqueue_pos
      /\ enqueue_pos < Base + MaxTickets
      /\ seq[Index(enqueue_pos)] = enqueue_pos
      /\ enqueue_pos - dequeue_pos < Capacity
      /\ enqueue_pos' = enqueue_pos + 1
      /\ pc' = [pc EXCEPT ![p] = "data"]
      /\ UNCHANGED <<dequeue_pos, seq, data, pos, out>>
  <2>1. /\ pos[p] = enqueue_pos /\ seq[Index(enqueue_pos)] = enqueue_pos
        /\ enqueue_pos - dequeue_pos < Capacity
    BY PushTurn
  <2>2. /\ enqueue_pos \in Nat /\ dequeue_pos \in Nat
        /\ Base <= dequeue_pos /\ dequeue_pos <= enqueue_pos
    BY DEF TypeOK
  <2> QED
    BY <2>1, <2>2 DEF PushCas, Goto
<1>2. /\ log' = Append(log, <<p, enqueue_pos>>) /\ <<p, enqueue_pos>> \in Spikes
      /\ log \in Seq(Spikes) /\ Len(log) = enqueue_pos - Base
  BY <1>1 DEF PushCas, Spikes, TypeOK, RingInv, CellsInv
<1>3. TypeOK'
  <2>1. log' \in Seq(Spikes)
    BY <1>2
  <2>2. pc' \in [Threads -> {"load", "seq", "cas", "data", "publish", "release"}]
    BY <1>1 DEF TypeOK
  <2> QED
    BY <1>1, <2>1, <2>2 DEF TypeOK
<1> DEFINE newSpike(t) == log'[t - Base + 1]
<1>4. /\ newSpike(enqueue_pos) = <<p, enqueue_pos>>
      /\ \A t \in Base .. enqueue_pos - 1 : newSpike(t) = SpikeOf(t)
  <2>1. /\ Len(log') = Len(log) + 1 /\ log'[Len(log) + 1] = <<p, enqueue_pos>>
        /\ \A i \in 1 .. Len(log) : log'[i] = log[i]
    BY <1>2
  <2>2. \A t \in Base .. enqueue_pos - 1 : t - Base + 1 \in 1 .. Len(log)
    BY <1>1, <1>2
  <2> QED
    BY <1>1, <1>2, <2>1, <2>2 DEF SpikeOf
<1> HIDE DEF newSpike
<1>5. /\ Waiting' = Waiting \union {enqueue_pos}
      /\ Gone' = Gone \ {enqueue_pos - Capacity}
      /\ Waiting \subseteq Base .. enqueue_pos - 1
  BY <1>1 DEF Waiting, Gone
<1>6. CellsInv'
  <2>1. Len(log)' = enqueue_pos' - Base
    <3>1. Len(log') = Len(log) + 1 /\ Len(log) = enqueue_pos - Base
      BY <1>2
    <3> QED
      BY <1>1, <3>1
  <2>2. ASSUME NEW t \in Waiting'
        PROVE  \/ seq[Index(t)] = t
               \/ seq[Index(t)] = t + 1 /\ data[Index(t)] = newSpike(t)
    BY <1>1, <1>4, <1>5 DEF RingInv, CellsInv
  <2>3. \A t \in Gone' : seq[Index(t)] = t + 1 \/ seq[Index(t)] = t + Capacity
    BY <1>5 DEF RingInv, CellsInv
  <2>4. enqueue_pos' - dequeue_pos' <= Capacity
    BY <1>1
  <2> QED
    BY <1>1, <2>1, <2>2, <2>3, <2>4 DEF CellsInv, SpikeOf, newSpike
<1>7. \A u \in Threads : /\ u # p => pc'[u] = pc[u]
                         /\ pc'[p] = "data"
  BY <1>1 DEF TypeOK, Threads
<1>8. \A u \in Threads : u # p => Owns(u)' = Owns(u)
  BY <1>7 DEF Owns
<1>9. ProducersInv'
  <2>1. ASSUME NEW q \in Producers
        PROVE  /\ pc'[q] # "release"
               /\ Owns(q)' => /\ pos[q] \in Waiting'
                              /\ seq[Index(pos[q])] = pos[q]
                              /\ newSpike(pos[q]) = <<q, pos[q]>>
               /\ pc'[q] = "publish" => data[Index(pos[q])] = newSpike(pos[q])
    <3>1. CASE q = p
      BY <1>1, <1>4, <1>5, <1>7, <3>1 DEF Threads
    <3>2. CASE q # p
      <4>1. pc'[q] = "publish" => Owns(q)
        BY <1>7, <3>2 DEF Owns, Threads
      <4>2. Owns(q) => pos[q] \in Waiting /\ newSpike(pos[q]) = SpikeOf(pos[q])
        BY <1>4, <1>5 DEF RingInv, ProducersInv
      <4> QED
        BY <1>5, <1>7, <1>8, <3>2, <4>1, <4>2 DEF RingInv, ProducersInv, Threads
    <3> QED
      BY <3>1, <3>2
  <2> QED
    BY <1>1, <2>1 DEF ProducersInv, SpikeOf, newSpike
<1>10. ConsumersInv'
  <2>1. ASSUME NEW c \in Consumers
        PROVE  /\ pc'[c] # "publish"
               /\ Owns(c)' => pos[c] \in Gone' /\ seq[Index(pos[c])] = pos[c] + 1
               /\ pc'[c] = "data" => data[Index(pos[c])] = newSpike(pos[c])
               /\ pc'[c] = "release" => out[c] = newSpike(pos[c])
    <3>1. c # p /\ c \in Threads /\ pc'[c] = pc[c] /\ (Owns(c)' <=> Owns(c))
      BY <1>7, <1>8 DEF Threads
    <3>2. pc[c] \in {"data", "release"} => Owns(c)
      BY DEF Owns
    <3>3. Owns(c) => /\ pos[c] \in Gone /\ seq[Index(pos[c])] = pos[c] + 1
                     /\ pos[c] \in Base .. enqueue_pos - 1
      BY <1>1, <3>1 DEF RingInv, ConsumersInv, TypeOK, Gone
    <3>4. Owns(c) => pos[c] # enqueue_pos - Capacity
      <4>1. Index(enqueue_pos - Capacity) = Index(enqueue_pos)
        BY <1>1, IndexNextLap, enqueue_pos - Capacity \in Int,
           (enqueue_pos - Capacity) + Capacity = enqueue_pos
      <4> QED
        BY <1>1, <3>3, <4>1
    <3>5. Owns(c) => newSpike(pos[c]) = SpikeOf(pos[c])
      BY <1>4, <3>3
    <3> QED
      BY <1>5, <3>1, <3>2, <3>3, <3>4, <3>5 DEF RingInv, ConsumersInv
  <2> QED
    BY <1>1, <2>1 DEF ConsumersInv, SpikeOf, newSpike
<1>11. OwnersInv'
  <2>1. \A u \in Threads : u # p /\ Owns(u) => pos[u] # pos[p]
    BY <1>1 DEF RingInv, ProducersInv, ConsumersInv, Waiting, Gone, Threads
  <2> QED
    BY <1>1, <1>8, <2>1 DEF RingInv, OwnersInv
<1>12. LookersInv'
  <2>1. ASSUME NEW u \in Threads, pc'[u] \in {"seq", "cas"}
        PROVE  pos[u] <= Cursor(u)' /\ enqueue_pos' - pos[u] <= MaxLag
    <3>1. u # p /\ pc[u] \in {"seq", "cas"}
      BY <1>7, <2>1
    <3>2. enqueue_pos - pos[u] < MaxLag
      BY <3>1 DEF PushCas, NobodyLags
    <3>3. pos[u] <= Cursor(u) /\ pos[u] \in Nat
      BY <3>1 DEF RingInv, LookersInv, TypeOK
    <3>4. Cursor(u)' >= Cursor(u) /\ Cursor(u)' \in Nat /\ Cursor(u) \in Nat
      BY <1>1 DEF Cursor
    <3> QED
      BY <1>1, <3>2, <3>3, <3>4
  <2>2. ASSUME NEW q \in Producers, pc'[q] = "cas", pos[q] = enqueue_pos'
        PROVE  FALSE
    <3>1. q # p /\ q \in Threads /\ pc[q] = "cas"
      BY <1>7, <2>2 DEF Threads
    <3>2. pos[q] <= enqueue_pos
      BY <3>1 DEF RingInv, LookersInv, Cursor
    <3> QED
      BY <1>1, <2>2, <3>2
  <2>3. ASSUME NEW c \in Consumers, pc'[c] = "cas", pos[c] = dequeue_pos
        PROVE  pos[c] \in Waiting' /\ seq[Index(pos[c])] = pos[c] + 1
    BY <1>5, <1>7, <2>3 DEF RingInv, LookersInv, Threads
  <2> QED
    BY <1>1, <2>1, <2>2, <2>3 DEF LookersInv
<1> QED
  BY <1>3, <1>6, <1>9, <1>10, <1>11, <1>12 DEF RingInv

\* What a thread that owns a cell may rely on.
LEMMA OwnerFacts ==
    ASSUME TypeOK, RingInv, NEW t \in Threads, Owns(t)
    PROVE  /\ pos[t] \in Waiting \union Gone
           /\ pos[t] \in Base .. enqueue_pos - 1
           /\ Index(pos[t]) \in Slots
           /\ \A v \in Waiting \union Gone : v # pos[t] => Index(v) # Index(pos[t])
           /\ \A u \in Threads : u # t /\ Owns(u) => Index(pos[u]) # Index(pos[t])
<1> USE ConstantTypes
<1>1. pos[t] \in Waiting \union Gone
  BY DEF RingInv, ProducersInv, ConsumersInv, Threads
<1>2. pos[t] \in Base .. enqueue_pos - 1
  BY <1>1 DEF TypeOK, Waiting, Gone
<1>3. Index(pos[t]) \in Slots
  BY <1>2, IndexInSlots, pos[t] \in Int DEF TypeOK
<1>4. \A v \in Waiting \union Gone : v # pos[t] => Index(v) # Index(pos[t])
  BY <1>1, LapInjective
<1>5. \A u \in Threads : u # t /\ Owns(u) => Index(pos[u]) # Index(pos[t])
  BY RingInvExclusive DEF CellExclusive
<1> QED
  BY <1>1, <1>2, <1>3, <1>4, <1>5

\* Steps inside the cell a thread owns: the counters and everything that other
\* threads look at stay as they are, but for the owner's cell.
LEMMA PushDataStep ==
    ASSUME TypeOK, RingInv, NEW p \in Producers, PushData(p)
    PROVE  TypeOK' /\ RingInv'
<1> USE ConstantTypes
<1> DEFINE k == Index(pos[p])
<1>1. /\ pc[p] = "data" /\ p \in Threads /\ Owns(p)
      /\ data' = [data EXCEPT ![k] = <<p, pos[p]>>]
      /\ pc' = [pc EXCEPT ![p] = "publish"]
      /\ UNCHANGED <<enqueue_pos, dequeue_pos, seq, pos, out, log>>
  BY DEF PushData, Goto, Threads, Owns
<1>2. /\ k \in Slots
      /\ pos[p] \in Waiting /\ seq[k] = pos[p] /\ SpikeOf(pos[p]) = <<p, pos[p]>>
      /\ \A v \in Waiting \union Gone : v # pos[p] => Index(v) # k
      /\ \A u \in Threads : u # p /\ Owns(u) => Index(pos[u]) # k
  BY <1>1, OwnerFacts DEF RingInv, ProducersInv
<1> HIDE DEF k
<1>3. /\ data'[k] = <<p, pos[p]>>
      /\ \A i \in Slots : i # k => data'[i] = data[i]
      /\ \A u \in Threads : u # p => pc'[u] = pc[u]
      /\ pc'[p] = "publish"
  BY <1>1, <1>2 DEF TypeOK
<1>4. \A u \in Threads : Owns(u)' = Owns(u)
  BY <1>1, <1>3 DEF Owns
<1>5. TypeOK'
  <2>1. <<p, pos[p]>> \in Spikes
    BY <1>1 DEF TypeOK, Spikes
  <2>2. data' \in [Slots -> Spikes \union {NoSpike}]
    BY <1>1, <1>2, <2>1 DEF TypeOK
  <2>3. pc' \in [Threads -> {"load", "seq", "cas", "data", "publish", "release"}]
    BY <1>1 DEF TypeOK
  <2> QED
    BY <1>1, <2>2, <2>3 DEF TypeOK
<1>6. CellsInv'
  <2>1. ASSUME NEW t \in Waiting
        PROVE  \/ seq[Index(t)] = t
               \/ seq[Index(t)] = t + 1 /\ data'[Index(t)] = SpikeOf(t)
    <3>1. Index(t) \in Slots /\ t \in Int
      BY IndexInSlots DEF Waiting, TypeOK
    <3>2. CASE t = pos[p]
      BY <1>2, <3>2 DEF k
    <3>3. CASE t # pos[p]
      <4>1. data'[Index(t)] = data[Index(t)]
        BY <1>2, <1>3, <3>1, <3>3
      <4> QED
        BY <4>1 DEF RingInv, CellsInv
    <3> QED
      BY <3>2, <3>3
  <2> QED
    BY <1>1, <2>1 DEF RingInv, CellsInv, Waiting, Gone, SpikeOf
<1>7. ProducersInv'
  <2>1. ASSUME NEW q \in Producers
        PROVE  /\ pc'[q] # "release"
               /\ pc'[q] = "publish" => data'[Index(pos[q])] = SpikeOf(pos[q])
    <3>1. CASE q = p
      BY <1>2, <1>3, <3>1 DEF k
    <3>2. CASE q # p
      <4>1. pc'[q] = pc[q] /\ q \in Threads
        BY <1>3, <3>2 DEF Threads
      <4>2. ASSUME pc[q] = "publish" PROVE Index(pos[q]) # k /\ Index(pos[q]) \in Slots
        BY <1>2, <3>2, <4>1, <4>2, OwnerFacts DEF Owns
      <4> QED
        BY <1>3, <4>1, <4>2 DEF RingInv, ProducersInv
    <3> QED
      BY <3>1, <3>2
  <2>2. \A q \in Producers : q \in Threads
    BY DEF Threads
  <2> QED
    BY <1>1, <1>4, <2>1, <2>2 DEF RingInv, ProducersInv, Waiting, SpikeOf
<1>8. ConsumersInv'
  <2>1. ASSUME NEW c \in Consumers
        PROVE  /\ pc'[c] = pc[c]
               /\ Owns(c)' = Owns(c)
               /\ pc[c] = "data" => data'[Index(pos[c])] = SpikeOf(pos[c])
    <3>1. c # p /\ c \in Threads /\ pc'[c] = pc[c]
      BY <1>3 DEF Threads
    <3>2. ASSUME pc[c] = "data" PROVE Index(pos[c]) # k /\ Index(pos[c]) \in Slots
      BY <1>2, <3>1, <3>2, OwnerFacts DEF Owns
    <3> QED
      BY <1>3, <1>4, <3>1, <3>2 DEF RingInv, ConsumersInv
  <2> QED
    BY <1>1, <2>1 DEF RingInv, ConsumersInv, Gone, SpikeOf
<1>9. OwnersInv'
  BY <1>1, <1>4 DEF RingInv, OwnersInv
<1>10. LookersInv'
  <2>1. \A u \in Threads : pc'[u] \in {"seq", "cas"} => pc'[u] = pc[u]
    BY <1>3
  <2> QED
    BY <1>1, <2>1 DEF RingInv, LookersInv, Cursor, Waiting, Threads
<1> QED
  BY <1>5, <1>6, <1>7, <1>8, <1>9, <1>10 DEF RingInv

LEMMA PushPublishStep ==
    ASSUME TypeOK, RingInv, NEW p \in Producers, PushPublish(p)
    PROVE  TypeOK' /\ RingInv'
<1> USE ConstantTypes
<1> DEFINE k == Index(pos[p])
<1>1. /\ pc[p] = "publish" /\ p \in Threads /\ Owns(p)
      /\ seq' = [seq EXCEPT ![k] = pos[p] + 1]
      /\ pc' = [pc EXCEPT ![p] = "load"]
      /\ UNCHANGED <<enqueue_pos, dequeue_pos, data, pos, out, log>>
  BY DEF PushPublish, Goto, Threads, Owns
<1>2. /\ k \in Slots
      /\ pos[p] \in Waiting /\ seq[k] = pos[p] /\ data[k] = SpikeOf(pos[p])
      /\ \A v \in Waiting \union Gone : v # pos[p] => Index(v) # k
      /\ \A u \in Threads : u # p /\ Owns(u) => Index(pos[u]) # k
  BY <1>1, OwnerFacts DEF RingInv, ProducersInv
<1> HIDE DEF k
<1>3. /\ seq'[k] = pos[p] + 1
      /\ \A i \in Slots : i # k => seq'[i] = seq[i]
      /\ \A u \in Threads : u # p => pc'[u] = pc[u]
      /\ pc'[p] = "load"
  BY <1>1, <1>2 DEF TypeOK
<1>4. \A u \in Threads : Owns(u)' <=> u # p /\ Owns(u)
  BY <1>1, <1>3 DEF Owns
<1>5. TypeOK'
  <2>1. pos[p] + 1 \in Nat
    BY <1>1 DEF TypeOK
  <2>2. seq' \in [Slots -> Nat]
    BY <1>1, <1>2, <2>1 DEF TypeOK
  <2>3. pc' \in [Threads -> {"load", "seq", "cas", "data", "publish", "release"}]
    BY <1>1 DEF TypeOK
  <2> QED
    BY <1>1, <2>2, <2>3 DEF TypeOK
<1>6. \A t \in Waiting \union Gone : t # pos[p] => seq'[Index(t)] = seq[Index(t)]
  <2>1. \A t \in Waiting \union Gone : Index(t) \in Slots
    BY IndexInSlots DEF Waiting, Gone, TypeOK
  <2> QED
    BY <1>2, <1>3, <2>1
<1>7. pos[p] \notin Gone
  BY <1>2 DEF Waiting, Gone, TypeOK
<1>8. CellsInv'
  <2>1. ASSUME NEW t \in Waiting
        PROVE  \/ seq'[Index(t)] = t
               \/ seq'[Index(t)] = t + 1 /\ data[Index(t)] = SpikeOf(t)
    BY <1>2, <1>3, <1>6 DEF RingInv, CellsInv, k
  <2>2. ASSUME NEW t \in Gone
        PROVE  seq'[Index(t)] = t + 1 \/ seq'[Index(t)] = t + Capacity
    BY <1>6, <1>7 DEF RingInv, CellsInv
  <2> QED
    BY <1>1, <2>1, <2>2 DEF RingInv, CellsInv, Waiting, Gone, SpikeOf
<1>9. ProducersInv'
  <2>1. ASSUME NEW q \in Producers
        PROVE  /\ q \in Threads
               /\ pc'[q] # "release"
               /\ Owns(q)' => /\ pos[q] \in Waiting
                              /\ seq'[Index(pos[q])] = pos[q]
                              /\ SpikeOf(pos[q]) = <<q, pos[q]>>
               /\ pc'[q] = "publish" => data[Index(pos[q])] = SpikeOf(pos[q])
    <3>1. q \in Threads
      BY DEF Threads
    <3>2. Owns(q)' => pos[q] # pos[p] /\ pos[q] \in Waiting
      BY <1>1, <1>4, <3>1 DEF RingInv, OwnersInv, ProducersInv
    <3> QED
      BY <1>3, <1>4, <1>6, <3>1, <3>2 DEF RingInv, ProducersInv
  <2> QED
    BY <1>1, <2>1 DEF ProducersInv, Waiting, SpikeOf
<1>10. ConsumersInv'
  <2>1. ASSUME NEW c \in Consumers
        PROVE  /\ pc'[c] = pc[c]
               /\ Owns(c)' => pos[c] \in Gone /\ seq'[Index(pos[c])] = pos[c] + 1
    <3>1. c # p /\ c \in Threads /\ pc'[c] = pc[c]
      BY <1>3 DEF Threads
    <3> QED
      BY <1>4, <1>6, <1>7, <3>1 DEF RingInv, ConsumersInv
  <2> QED
    BY <1>1, <2>1 DEF RingInv, ConsumersInv, Gone, SpikeOf
<1>11. OwnersInv'
  BY <1>1, <1>4 DEF RingInv, OwnersInv
<1>12. LookersInv'
  <2>1. \A u \in Threads : pc'[u] \in {"seq", "cas"} => pc'[u] = pc[u]
    BY <1>3
  <2>2. ASSUME NEW c \in Consumers, pc[c] = "cas", pos[c] = dequeue_pos
        PROVE  pos[c] \in Waiting /\ seq'[Index(pos[c])] = pos[c] + 1
    <3>1. pos[c] \in Waiting /\ seq[Index(pos[c])] = pos[c] + 1
      BY <2>2 DEF RingInv, LookersInv
    <3>2. pos[c] # pos[p]
      BY <1>2, <3>1 DEF TypeOK, Waiting, k
    <3> QED
      BY <1>6, <3>1, <3>2
  <2>3. ASSUME NEW q \in Producers, pc[q] = "cas", pos[q] = enqueue_pos
        PROVE  seq'[Index(pos[q])] = pos[q]
    <3>1. seq[Index(pos[q])] = pos[q]
      BY <2>3 DEF RingInv, LookersInv
    <3>2. pos[p] # pos[q] /\ Index(pos[q]) \in Slots
      <4>1. pos[q] \in Int
        BY <2>3 DEF TypeOK
      <4>2. pos[p] < pos[q]
        BY <1>2, <2>3 DEF Waiting, TypeOK
      <4>3. pos[p] # pos[q]
        BY <1>2, <4>1, <4>2 DEF Waiting, TypeOK
      <4> QED
        BY <4>1, <4>3, IndexInSlots
    <3>3. Index(pos[q]) # k
      BY <1>2, <3>1, <3>2
    <3> QED
      BY <1>3, <3>1, <3>2, <3>3
  <2> QED
    BY <1>1, <2>1, <2>2, <2>3 DEF RingInv, LookersInv, Cursor, Waiting, Threads
<1> QED
  BY <1>5, <1>8, <1>9, <1>10, <1>11, <1>12 DEF RingInv

\* A consumer's turn on a counter that has not moved: the head of the ring is
\* complete.
LEMMA PopTurn ==
    ASSUME TypeOK, RingInv, NEW c \in Consumers, PopCas(c)
    PROVE  /\ pos[c] = dequeue_pos
           /\ dequeue_pos \in Waiting
           /\ seq[Index(dequeue_pos)] = dequeue_pos + 1
           /\ data[Index(dequeue_pos)] = SpikeOf(dequeue_pos)
<1> USE ConstantTypes
<1>1. pos[c] = dequeue_pos
  <2>1. c \in Threads /\ Cursor(c) = dequeue_pos
    BY DEF Threads, Cursor
  <2> QED
    BY <2>1, LookExact DEF PopCas
<1>2. dequeue_pos \in Waiting /\ seq[Index(dequeue_pos)] = dequeue_pos + 1
  BY <1>1 DEF PopCas, RingInv, LookersInv
<1>3. data[Index(dequeue_pos)] = SpikeOf(dequeue_pos)
  <2>1. dequeue_pos + 1 # dequeue_pos
    BY DEF TypeOK
  <2> QED
    BY <1>2, <2>1 DEF RingInv, CellsInv
<1> QED
  BY <1>1, <1>2, <1>3

LEMMA PopCasStep ==
    ASSUME TypeOK, RingInv, NEW c \in Consumers, PopCas(c)
    PROVE  TypeOK' /\ RingInv'
<1> USE ConstantTypes
<1>1. /\ pc[c] = "cas" /\ c \in Threads /\ pos[c] = dequeue_pos
      /\ dequeue_pos' = dequeue_pos + 1
      /\ pc' = [pc EXCEPT ![c] = "data"]
      /\ UNCHANGED <<enqueue_pos, seq, data, pos, out, log>>
  BY PopTurn DEF PopCas, Goto, Threads
<1>2. /\ seq[Index(dequeue_pos)] = dequeue_pos + 1
      /\ data[Index(dequeue_pos)] = SpikeOf(dequeue_pos)
      /\ dequeue_pos \in Nat /\ enqueue_pos \in Nat
      /\ Base <= dequeue_pos /\ dequeue_pos < enqueue_pos
      /\ enqueue_pos - dequeue_pos <= Capacity
  <2>1. dequeue_pos \in Nat /\ enqueue_pos \in Nat /\ Base <= dequeue_pos
    BY DEF TypeOK
  <2>2. dequeue_pos < enqueue_pos
    BY <2>1, PopTurn DEF Waiting
  <2> QED
    BY <2>1, <2>2, PopTurn DEF RingInv, CellsInv
<1>3. TypeOK'
  <2>1. pc' \in [Threads -> {"load", "seq", "cas", "data", "publish", "release"}]
    BY <1>1 DEF TypeOK
  <2> QED
    BY <1>1, <1>2, <2>1 DEF TypeOK
<1>4. /\ Waiting' = Waiting \ {dequeue_pos}
      /\ Gone' = Gone \union {dequeue_pos}
  BY <1>1, <1>2 DEF Waiting, Gone
<1>5. /\ \A u \in Threads : u # c => pc'[u] = pc[u]
      /\ pc'[c] = "data"
  BY <1>1 DEF TypeOK
<1>6. \A u \in Threads : u # c => Owns(u)' = Owns(u)
  BY <1>5 DEF Owns
<1>7. \A p \in Producers : p # c /\ p \in Threads
  BY DEF Threads
<1>8. CellsInv'
  <2>1. enqueue_pos' - dequeue_pos' <= Capacity
    BY <1>1, <1>2
  <2>2. \A t \in Gone' : seq[Index(t)] = t + 1 \/ seq[Index(t)] = t + Capacity
    BY <1>2, <1>4 DEF RingInv, CellsInv
  <2>3. ASSUME NEW t \in Waiting'
        PROVE  \/ seq[Index(t)] = t
               \/ seq[Index(t)] = t + 1 /\ data[Index(t)] = SpikeOf(t)
    BY <1>4 DEF RingInv, CellsInv
  <2>4. Len(log) = enqueue_pos - Base
    BY DEF RingInv, CellsInv
  <2> QED
    BY <1>1, <2>1, <2>2, <2>3, <2>4 DEF CellsInv, SpikeOf
<1>9. ProducersInv'
  <2>1. ASSUME NEW p \in Producers, Owns(p)
        PROVE  pos[p] \in Waiting' /\ seq[Index(pos[p])] = pos[p]
                   /\ SpikeOf(pos[p]) = <<p, pos[p]>>
    <3>1. /\ pos[p] \in Waiting /\ seq[Index(pos[p])] = pos[p]
          /\ SpikeOf(pos[p]) = <<p, pos[p]>>
      BY <2>1 DEF RingInv, ProducersInv
    <3>2. pos[p] # dequeue_pos
      BY <1>2, <3>1
    <3> QED
      BY <1>4, <3>1, <3>2
  <2> QED
    BY <1>1, <1>5, <1>6, <1>7, <2>1 DEF RingInv, ProducersInv, SpikeOf
<1>10. ConsumersInv'
  <2>1. ASSUME NEW d \in Consumers
        PROVE  /\ pc'[d] # "publish"
               /\ Owns(d)' => pos[d] \in Gone' /\ seq[Index(pos[d])] = pos[d] + 1
               /\ pc'[d] = "data" => data[Index(pos[d])] = SpikeOf(pos[d])
               /\ pc'[d] = "release" => out[d] = SpikeOf(pos[d])
    <3>1. CASE d = c
      BY <1>1, <1>2, <1>4, <1>5, <3>1
    <3>2. CASE d # c
      BY <1>4, <1>5, <1>6, <3>2 DEF RingInv, ConsumersInv, Threads
    <3> QED
      BY <3>1, <3>2
  <2> QED
    BY <1>1, <2>1 DEF ConsumersInv, SpikeOf
<1>11. OwnersInv'
  <2>1. ASSUME NEW u \in Threads, u # c, Owns(u) PROVE pos[u] # pos[c]
    <3>1. CASE u \in Producers
      <4>1. seq[Index(pos[u])] = pos[u]
        BY <2>1, <3>1 DEF RingInv, ProducersInv
      <4> QED
        BY <1>1, <1>2, <4>1
    <3>2. CASE u \in Consumers
      BY <1>1, <1>2, <2>1, <3>2 DEF RingInv, ConsumersInv, Gone
    <3> QED
      BY <3>1, <3>2 DEF Threads
  <2> QED
    BY <1>1, <1>6, <2>1 DEF RingInv, OwnersInv
<1>12. LookersInv'
  <2>1. \A u \in Threads : pc'[u] \in {"seq", "cas"} => u # c /\ pc'[u] = pc[u]
    BY <1>5
  <2>2. ASSUME NEW u \in Threads, pc'[u] \in {"seq", "cas"}
        PROVE  pos[u] <= Cursor(u)' /\ enqueue_pos - pos[u] <= MaxLag
    <3>1. pos[u] <= Cursor(u) /\ enqueue_pos - pos[u] <= MaxLag /\ pos[u] \in Nat
      BY <2>1, <2>2 DEF RingInv, LookersInv, TypeOK
    <3>2. Cursor(u)' \in Nat /\ Cursor(u) \in Nat /\ Cursor(u) <= Cursor(u)'
      BY <1>1, <1>2 DEF Cursor
    <3> QED
      BY <3>1, <3>2
  <2>3. ASSUME NEW d \in Consumers, pc'[d] = "cas", pos[d] = dequeue_pos'
        PROVE  FALSE
    <3>1. pc[d] = "cas" /\ d \in Threads /\ Cursor(d) = dequeue_pos
      BY <2>1, <2>3 DEF Threads, Cursor
    <3>2. pos[d] <= dequeue_pos
      BY <3>1 DEF RingInv, LookersInv
    <3> QED
      BY <1>1, <1>2, <2>3, <3>2
  <2>4. ASSUME NEW p \in Producers, pc'[p] = "cas", pos[p] = enqueue_pos
        PROVE  seq[Index(pos[p])] = pos[p]
    BY <1>7, <2>1, <2>4 DEF RingInv, LookersInv
  <2> QED
    BY <1>1, <2>2, <2>3, <2>4 DEF LookersInv
<1> QED
  BY <1>3, <1>8, <1>9, <1>10, <1>11, <1>12 DEF RingInv

LEMMA PopDataStep ==
    ASSUME TypeOK, RingInv, NEW c \in Consumers, PopData(c)
    PROVE  TypeOK' /\ RingInv'
<1> USE ConstantTypes
<1>1. /\ pc[c] = "data" /\ c \in Threads /\ Owns(c)
      /\ out' = [out EXCEPT ![c] = data[Index(pos[c])]]
      /\ pc' = [pc EXCEPT ![c] = "release"]
      /\ UNCHANGED <<enqueue_pos, dequeue_pos, seq, data, pos, log>>
  BY DEF PopData, Goto, Threads, Owns
<1>2. data[Index(pos[c])] = SpikeOf(pos[c]) /\ Index(pos[c]) \in Slots
  BY <1>1, OwnerFacts DEF RingInv, ConsumersInv
<1>3. /\ \A u \in Threads : u # c => pc'[u] = pc[u]
      /\ pc'[c] = "release"
      /\ \A d \in Consumers : d # c => out'[d] = out[d]
      /\ out'[c] = SpikeOf(pos[c])
  BY <1>1, <1>2 DEF TypeOK
<1>4. \A u \in Threads : Owns(u)' = Owns(u)
  BY <1>1, <1>3 DEF Owns
<1>5. TypeOK'
  <2>1. out' \in [Consumers -> Spikes \union {NoSpike}]
    BY <1>1, <1>2 DEF TypeOK
  <2>2. pc' \in [Threads -> {"load", "seq", "cas", "data", "publish", "release"}]
    BY <1>1 DEF TypeOK
  <2> QED
    BY <1>1, <2>1, <2>2 DEF TypeOK
<1>6. CellsInv'
  BY <1>1 DEF RingInv, CellsInv, Waiting, Gone, SpikeOf
<1>7. ProducersInv'
  <2>1. \A p \in Producers : p \in Threads /\ pc'[p] = pc[p]
    BY <1>3 DEF Threads
  <2> QED
    BY <1>1, <1>4, <2>1 DEF RingInv, ProducersInv, Waiting, SpikeOf
<1>8. ConsumersInv'
  <2>1. ASSUME NEW d \in Consumers
        PROVE  /\ pc'[d] # "publish"
               /\ Owns(d)' => pos[d] \in Gone /\ seq[Index(pos[d])] = pos[d] + 1
               /\ pc'[d] = "data" => data[Index(pos[d])] = SpikeOf(pos[d])
               /\ pc'[d] = "release" => out'[d] = SpikeOf(pos[d])
    BY <1>3, <1>4 DEF RingInv, ConsumersInv, Threads
  <2> QED
    BY <1>1, <2>1 DEF ConsumersInv, Gone, SpikeOf
<1>9. OwnersInv'
  BY <1>1, <1>4 DEF RingInv, OwnersInv
<1>10. LookersInv'
  <2>1. \A u \in Threads : pc'[u] \in {"seq", "cas"} => pc'[u] = pc[u]
    BY <1>3
  <2> QED
    BY <1>1, <2>1 DEF RingInv, LookersInv, Cursor, Waiting, Threads
<1> QED
  BY <1>5, <1>6, <1>7, <1>8, <1>9, <1>10 DEF RingInv

LEMMA PopReleaseStep ==
    ASSUME TypeOK, RingInv, NEW c \in Consumers, PopRelease(c)
    PROVE  TypeOK' /\ RingInv'
<1> USE ConstantTypes
<1> DEFINE k == Index(pos[c])
<1>1. /\ pc[c] = "release" /\ c \in Threads /\ Owns(c)
      /\ seq' = [seq EXCEPT ![k] = pos[c] + Capacity]
      /\ pc' = [pc EXCEPT ![c] = "load"]
      /\ UNCHANGED <<enqueue_pos, dequeue_pos, data, pos, out, log>>
  BY DEF PopRelease, Goto, Threads, Owns
<1>2. /\ k \in Slots
      /\ pos[c] \in Gone /\ seq[k] = pos[c] + 1
      /\ \A v \in Waiting \union Gone : v # pos[c] => Index(v) # k
  BY <1>1, OwnerFacts DEF RingInv, ConsumersInv
<1> HIDE DEF k
<1>3. /\ seq'[k] = pos[c] + Capacity
      /\ \A i \in Slots : i # k => seq'[i] = seq[i]
      /\ \A u \in Threads : u # c => pc'[u] = pc[u]
      /\ pc'[c] = "load"
  BY <1>1, <1>2 DEF TypeOK
<1>4. \A u \in Threads : Owns(u)' <=> u # c /\ Owns(u)
  BY <1>1, <1>3 DEF Owns
<1>5. TypeOK'
  <2>1. pos[c] + Capacity \in Nat
    BY <1>1 DEF TypeOK
  <2>2. seq' \in [Slots -> Nat]
    BY <1>1, <1>2, <2>1 DEF TypeOK
  <2>3. pc' \in [Threads -> {"load", "seq", "cas", "data", "publish", "release"}]
    BY <1>1 DEF TypeOK
  <2> QED
    BY <1>1, <2>2, <2>3 DEF TypeOK
<1>6. \A t \in Waiting \union Gone : t # pos[c] => seq'[Index(t)] = seq[Index(t)]
  <2>1. \A t \in Waiting \union Gone : Index(t) \in Slots
    BY IndexInSlots DEF Waiting, Gone, TypeOK
  <2> QED
    BY <1>2, <1>3, <2>1
<1>7. pos[c] \notin Waiting
  BY <1>2 DEF Waiting, Gone, TypeOK
<1>8. CellsInv'
  <2>1. ASSUME NEW t \in Waiting
        PROVE  \/ seq'[Index(t)] = t
               \/ seq'[Index(t)] = t + 1 /\ data[Index(t)] = SpikeOf(t)
    BY <1>6, <1>7 DEF RingInv, CellsInv
  <2>2. ASSUME NEW t \in Gone
        PROVE  seq'[Index(t)] = t + 1 \/ seq'[Index(t)] = t + Capacity
    BY <1>3, <1>6 DEF RingInv, CellsInv, k
  <2> QED
    BY <1>1, <2>1, <2>2 DEF RingInv, CellsInv, Waiting, Gone, SpikeOf
<1>9. ProducersInv'
  <2>1. ASSUME NEW p \in Producers
        PROVE  /\ pc'[p] = pc[p]
               /\ Owns(p)' = Owns(p)
               /\ Owns(p) => seq'[Index(pos[p])] = pos[p]
    <3>1. p # c /\ p \in Threads
      BY DEF Threads
    <3>2. Owns(p) => pos[p] \in Waiting /\ seq[Index(pos[p])] = pos[p]
      BY DEF RingInv, ProducersInv
    <3>3. Owns(p) => pos[p] # pos[c]
      BY <1>7, <3>2
    <3>4. Owns(p) => seq'[Index(pos[p])] = pos[p]
      BY <1>6, <3>2, <3>3
    <3>5. pc'[p] = pc[p]
      BY <1>3, <3>1
    <3> QED
      BY <3>4, <3>5 DEF Owns
  <2> QED
    BY <1>1, <2>1 DEF RingInv, ProducersInv, Waiting, SpikeOf
<1>10. ConsumersInv'
  <2>1. ASSUME NEW d \in Consumers
        PROVE  /\ pc'[d] # "publish"
               /\ Owns(d)' => pos[d] \in Gone /\ seq'[Index(pos[d])] = pos[d] + 1
               /\ pc'[d] = "data" => data[Index(pos[d])] = SpikeOf(pos[d])
               /\ pc'[d] = "release" => out[d] = SpikeOf(pos[d])
    <3>1. d \in Threads
      BY DEF Threads
    <3>2. Owns(d)' => pos[d] # pos[c] /\ pos[d] \in Gone
      BY <1>1, <1>4, <3>1 DEF RingInv, OwnersInv, ConsumersInv
    <3> QED
      BY <1>3, <1>4, <1>6, <3>1, <3>2 DEF RingInv, ConsumersInv
  <2> QED
    BY <1>1, <2>1 DEF ConsumersInv, Gone, SpikeOf
<1>11. OwnersInv'
  BY <1>1, <1>4 DEF RingInv, OwnersInv
<1>12. LookersInv'
  <2>1. \A u \in Threads : pc'[u] \in {"seq", "cas"} => pc'[u] = pc[u]
    BY <1>3
  <2>2. ASSUME NEW d \in Consumers, pc[d] = "cas", pos[d] = dequeue_pos
        PROVE  pos[d] \in Waiting /\ seq'[Index(pos[d])] = pos[d] + 1
    BY <1>6, <1>7, <2>2 DEF RingInv, LookersInv
  <2>3. ASSUME NEW p \in Producers, pc[p] = "cas", pos[p] = enqueue_pos
        PROVE  seq'[Index(pos[p])] = pos[p]
    <3>1. seq[Index(pos[p])] = pos[p] /\ Index(pos[p]) \in Slots
      BY <2>3, IndexInSlots DEF RingInv, LookersInv, TypeOK
    <3>2. ASSUME Index(pos[p]) = k PROVE FALSE
      <4>1. /\ pos[c] \in Int /\ pos[p] \in Int
            /\ pos[p] - Capacity <= pos[c] /\ pos[c] < pos[p]
        BY <1>2, <2>3 DEF Gone, TypeOK
      <4>2. pos[c] + 1 = pos[p]
        BY <1>2, <3>1, <3>2
      <4>3. pos[c] = pos[p]
        BY <3>2, <4>1, <4>2, IndexInjective DEF k
      <4> QED
        BY <4>1, <4>3
    <3> QED
      BY <1>3, <3>1, <3>2
  <2> QED
    BY <1>1, <2>1, <2>2, <2>3 DEF RingInv, LookersInv, Cursor, Waiting, Threads
<1> QED
  BY <1>5, <1>8, <1>9, <1>10, <1>11, <1>12 DEF RingInv

----------------------------------------------------------------------------
(* Theorems *)

LEMMA StepInv == TypeOK /\ RingInv /\ [Next]_vars => TypeOK' /\ RingInv'
<1> SUFFICES ASSUME TypeOK, RingInv, [Next]_vars PROVE TypeOK' /\ RingInv'
  OBVIOUS
<1>1. ASSUME NEW t \in Threads, Look(t) PROVE TypeOK' /\ RingInv'
  BY <1>1, LookStep
<1>2. ASSUME NEW p \in Producers, Push(p) PROVE TypeOK' /\ RingInv'
  BY <1>2, PushCasStep, PushDataStep, PushPublishStep DEF Push
<1>3. ASSUME NEW c \in Consumers, Pop(c) PROVE TypeOK' /\ RingInv'
  BY <1>3, PopCasStep, PopDataStep, PopReleaseStep DEF Pop
<1>4. CASE UNCHANGED vars
  <2>1. TypeOK'
    BY <1>4 DEF vars, TypeOK
  <2>2. CellsInv' /\ ProducersInv' /\ ConsumersInv'
    BY <1>4 DEF vars, RingInv, CellsInv, ProducersInv, ConsumersInv, Waiting, Gone,
         Owns, SpikeOf
  <2>3. OwnersInv' /\ LookersInv'
    BY <1>4 DEF vars, RingInv, OwnersInv, LookersInv, Owns, Waiting, Cursor
  <2> QED
    BY <2>1, <2>2, <2>3 DEF RingInv
<1> QED
  BY <1>1, <1>2, <1>3, <1>4 DEF Next

\* The types of the queue's state and the ring invariant, which says of every
\* cell how far its ticket has come, hold in every reachable state.
THEOREM RingCorrect == Spec => []TypeOK /\ []RingInv
<1>1. TypeOK /\ RingInv /\ [Next]_vars => (TypeOK /\ RingInv)'
  BY StepInv
<1> QED
  BY InitInv, <1>1, PTL DEF Spec

\* fpsan_san_scheduler.h copies spikes into and out of cells with plain
\* assignments: no two threads ever do so on one cell.
THEOREM CellsExclusive == Spec => []CellExclusive
BY RingCorrect, RingInvExclusive, PTL

\* try_pop returns the spike that was accepted under the consumer's ticket, for
\* every interleaving and every wrap of the 32-bit positions.
THEOREM PopsOwn == Spec => []PopsOwnTicket
<1>1. RingInv => PopsOwnTicket
  BY DEF RingInv, ConsumersInv, PopsOwnTicket
<1> QED
  BY <1>1, RingCorrect, PTL

----------------------------------------------------------------------------
(* The queue implements SpikeChannel *)

Hand == [c \in Consumers |-> IF pc[c] = "data" THEN SpikeOf(pos[c]) ELSE out[c]]

LEMMA ChannelStep == TypeOK /\ RingInv /\ [Next]_vars => [Channel!ChanNext]_(Channel!chanVars)
<1> USE ConstantTypes
<1> SUFFICES ASSUME TypeOK, RingInv, [Next]_vars
             PROVE  \/ Channel!ChanNext
                    \/ log' = log /\ dequeue_pos' = dequeue_pos /\ Hand' = Hand
  BY DEF Channel!chanVars, Hand
<1>1. ASSUME NEW t \in Threads, Look(t)
      PROVE  log' = log /\ dequeue_pos' = dequeue_pos /\ Hand' = Hand
  <2>1. /\ UNCHANGED <<dequeue_pos, out, log>>
        /\ pc[t] # "data" /\ pc'[t] # "data"
        /\ \A u \in Threads : u # t => pc'[u] = pc[u] /\ pos'[u] = pos[u]
    BY <1>1 DEF Look, LoadPos, TurnCome, Refuse, Retry, CasFail, LoadSeq, Goto, TypeOK
  <2>2. ASSUME NEW c \in Consumers
        PROVE  (IF pc[c] = "data" THEN SpikeOf(pos[c]) ELSE out[c])' =
               (IF pc[c] = "data" THEN SpikeOf(pos[c]) ELSE out[c])
    <3>1. CASE c = t
      BY <2>1, <3>1
    <3>2. CASE c # t
      BY <2>1, <3>2 DEF Threads, SpikeOf
    <3> QED
      BY <3>1, <3>2
  <2> QED
    BY <2>1, <2>2 DEF Hand
<1>2. ASSUME NEW p \in Producers, PushCas(p) PROVE Channel!ChanNext
  <2>1. /\ log' = Append(log, <<p, pos[p]>>) /\ <<p, pos[p]>> \in Spikes
        /\ UNCHANGED <<dequeue_pos, pos, out>>
        /\ Len(log) - (dequeue_pos - Base) < Capacity
    <3>1. Len(log) = enqueue_pos - Base /\ enqueue_pos - dequeue_pos < Capacity
      BY <1>2, PushTurn DEF RingInv, CellsInv
    <3>2. enqueue_pos \in Int /\ dequeue_pos \in Int
      BY DEF TypeOK
    <3>3. <<p, pos[p]>> \in Spikes
      BY DEF TypeOK, Spikes, Threads
    <3> QED
      BY <1>2, <3>1, <3>2, <3>3 DEF PushCas
  <2>2. ASSUME NEW c \in Consumers
        PROVE  (IF pc[c] = "data" THEN SpikeOf(pos[c]) ELSE out[c])' =
               (IF pc[c] = "data" THEN SpikeOf(pos[c]) ELSE out[c])
    <3>1. c # p /\ pc'[c] = pc[c]
      BY <1>2 DEF PushCas, Goto, TypeOK, Threads
    <3>2. ASSUME pc[c] = "data" PROVE pos[c] - Base + 1 \in 1 .. Len(log)
      <4>1. pos[c] \in Gone
        BY <3>2 DEF RingInv, ConsumersInv, Owns
      <4> QED
        BY <4>1 DEF RingInv, CellsInv, TypeOK, Gone, Threads
    <3>3. ASSUME pc[c] = "data" PROVE log'[pos[c] - Base + 1] = log[pos[c] - Base + 1]
      <4>1. log \in Seq(Spikes)
        BY DEF TypeOK
      <4> QED
        BY <2>1, <3>2, <3>3, <4>1
    <3> QED
      BY <2>1, <3>1, <3>3 DEF SpikeOf
  <2>3. Hand' = Hand
    BY <2>2 DEF Hand
  <2> QED
    BY <2>1, <2>3 DEF Channel!ChanNext, Channel!Accept, Hand
<1>3. ASSUME NEW p \in Producers, PushData(p) \/ PushPublish(p)
      PROVE  log' = log /\ dequeue_pos' = dequeue_pos /\ Hand' = Hand
  <2>1. /\ UNCHANGED <<dequeue_pos, pos, out, log>>
        /\ \A c \in Consumers : pc'[c] = pc[c]
    BY <1>3 DEF PushData, PushPublish, Goto, TypeOK, Threads
  <2> QED
    BY <2>1 DEF Hand, SpikeOf
<1>4. ASSUME NEW c \in Consumers, PopCas(c) PROVE Channel!ChanNext
  <2>1. /\ pos[c] = dequeue_pos
        /\ dequeue_pos' = dequeue_pos + 1
        /\ UNCHANGED <<log, pos, out>>
        /\ pc'[c] = "data"
        /\ \A d \in Consumers : d # c => pc'[d] = pc[d]
    BY <1>4, PopTurn DEF PopCas, Goto, TypeOK, Threads
  <2>2. /\ dequeue_pos - Base < Len(log)
        /\ dequeue_pos' - Base = dequeue_pos - Base + 1
    <3>1. dequeue_pos \in Waiting /\ Len(log) = enqueue_pos - Base
      BY <1>4, PopTurn DEF RingInv, CellsInv
    <3> QED
      BY <2>1, <3>1 DEF Waiting, TypeOK
  <2>3. Hand' = [Hand EXCEPT ![c] = log[dequeue_pos - Base + 1]]
    BY <2>1 DEF Hand, SpikeOf
  <2> QED
    BY <2>1, <2>2, <2>3 DEF Channel!ChanNext, Channel!Take, Hand
<1>5. ASSUME NEW c \in Consumers, PopData(c) \/ PopRelease(c)
      PROVE  log' = log /\ dequeue_pos' = dequeue_pos /\ Hand' = Hand
  <2>1. /\ UNCHANGED <<dequeue_pos, pos, log>>
        /\ \A d \in Consumers : d # c => pc'[d] = pc[d] /\ out'[d] = out[d]
        /\ pc'[c] # "data"
    BY <1>5 DEF PopData, PopRelease, Goto, TypeOK, Threads
  <2>2. IF pc[c] = "data" THEN out'[c] = SpikeOf(pos[c]) ELSE out'[c] = out[c]
    <3>1. CASE PopData(c)
      BY <3>1 DEF PopData, RingInv, ConsumersInv, TypeOK
    <3>2. CASE PopRelease(c)
      BY <3>2 DEF PopRelease
    <3> QED
      BY <1>5, <3>1, <3>2
  <2> QED
    BY <2>1, <2>2 DEF Hand, SpikeOf
<1>6. CASE UNCHANGED vars
  BY <1>6 DEF vars, Hand, SpikeOf
<1> QED
  BY <1>1, <1>2, <1>3, <1>4, <1>5, <1>6 DEF Next, Push, Pop

\* The spike queue implements the abstract channel: spikes come out in the
\* order they were accepted in, each exactly once, never more than Capacity
\* behind.
THEOREM QueueImplementsChannel == Spec => ImplementsChannel
<1>1. Init => Channel!ChanInit
  BY ConstantTypes DEF Init, Channel!ChanInit, Threads
<1> QED
  BY <1>1, ChannelStep, RingCorrect, PTL DEF Spec, ImplementsChannel, Channel!ChanSpec
----------------------------------------------------------------------------
(* A refusal is true: a cell that looks busy has an owner *)

\* The sequence number of a cell changes no later than its owner leaves: a
\* ticket still to be published has a producer at work on it, and one still to
\* be released a consumer.
OwnedInv ==
    /\ \A t \in Waiting : seq[Index(t)] = t =>
           \E p \in Producers : Owns(p) /\ pos[p] = t
    /\ \A t \in Gone : seq[Index(t)] = t + 1 =>
           \E c \in Consumers : Owns(c) /\ pos[c] = t

LEMMA InitOwned == Init => OwnedInv
<1> SUFFICES ASSUME Init PROVE OwnedInv
  OBVIOUS
<1> USE ConstantTypes DEF Init
<1>1. Waiting = {}
  BY DEF Waiting
<1>2. ASSUME NEW t \in Gone PROVE seq[Index(t)] # t + 1
  <2>1. /\ t + Capacity - Base \in Slots /\ t \in Int
        /\ t + Capacity # t + 1
    BY DEF Gone, Slots
  <2>2. Index(Base + (t + Capacity - Base)) = t + Capacity - Base
    BY <2>1, IndexOfFirstLap
  <2>3. Base + (t + Capacity - Base) = t + Capacity
    BY <2>1
  <2>4. Index(t) = t + Capacity - Base
    BY <2>1, <2>2, <2>3, IndexNextLap
  <2> QED
    BY <2>1, <2>3, <2>4
<1> QED
  BY <1>1, <1>2, Zenon DEF OwnedInv

\* What one thread's step leaves of the other threads' ownership.
LEMMA OthersKeep ==
    ASSUME TypeOK, NEW t \in Threads, NEW label,
           pc' = [pc EXCEPT ![t] = label]
    PROVE  \A u \in Threads \ {t} : Owns(u)' <=> Owns(u)
BY DEF TypeOK, Owns

LEMMA LookOwned ==
    ASSUME TypeOK, RingInv, OwnedInv, NEW t \in Threads, Look(t)
    PROVE  OwnedInv'
<1>1. /\ UNCHANGED <<enqueue_pos, dequeue_pos, seq>>
      /\ \A u \in Threads : Owns(u) => Owns(u)' /\ pos'[u] = pos[u]
  BY DEF Look, LoadPos, TurnCome, Refuse, Retry, CasFail, LoadSeq, Goto, TypeOK, Owns
<1>2. \A p \in Producers : p \in Threads
  BY DEF Threads
<1>3. \A c \in Consumers : c \in Threads
  BY DEF Threads
<1>4. Waiting' = Waiting /\ Gone' = Gone
  BY <1>1 DEF Waiting, Gone
<1> QED
  BY <1>1, <1>2, <1>3, <1>4 DEF OwnedInv

\* The owner of the new ticket is the producer that took it.
LEMMA PushCasOwned ==
    ASSUME TypeOK, RingInv, OwnedInv, NEW p \in Producers, PushCas(p)
    PROVE  OwnedInv'
<1> USE ConstantTypes
<1>1. /\ pos[p] = enqueue_pos /\ enqueue_pos - dequeue_pos < Capacity
      /\ enqueue_pos' = enqueue_pos + 1
      /\ pc' = [pc EXCEPT ![p] = "data"] /\ p \in Threads /\ pc[p] = "cas"
      /\ UNCHANGED <<dequeue_pos, seq, pos>>
  BY PushTurn DEF PushCas, Goto, Threads
<1>2. Owns(p)' /\ \A u \in Threads : Owns(u) => Owns(u)'
  BY <1>1 DEF TypeOK, Owns
<1>3. /\ Waiting' \subseteq Waiting \union {enqueue_pos}
      /\ Gone' \subseteq Gone
  BY <1>1 DEF Waiting, Gone, TypeOK
<1>4. \A q \in Producers \union Consumers : q \in Threads
  BY DEF Threads
<1>5. ASSUME NEW t \in Waiting', seq[Index(t)] = t
      PROVE  \E q \in Producers : Owns(q)' /\ pos[q] = t
  <2>1. CASE t = enqueue_pos
    BY <1>1, <1>2, <2>1
  <2>2. CASE t \in Waiting
    BY <1>2, <1>4, <1>5, <2>2 DEF OwnedInv
  <2> QED
    BY <1>3, <2>1, <2>2
<1>6. ASSUME NEW t \in Gone', seq[Index(t)] = t + 1
      PROVE  \E c \in Consumers : Owns(c)' /\ pos[c] = t
  BY <1>2, <1>3, <1>4, <1>6 DEF OwnedInv
<1> QED
  BY <1>1, <1>5, <1>6 DEF OwnedInv

\* The owner of the ticket handed out is the consumer that took it.
LEMMA PopCasOwned ==
    ASSUME TypeOK, RingInv, OwnedInv, NEW c \in Consumers, PopCas(c)
    PROVE  OwnedInv'
<1> USE ConstantTypes
<1>1. /\ pos[c] = dequeue_pos
      /\ dequeue_pos' = dequeue_pos + 1
      /\ pc' = [pc EXCEPT ![c] = "data"] /\ c \in Threads /\ pc[c] = "cas"
      /\ UNCHANGED <<enqueue_pos, seq, pos>>
  BY PopTurn DEF PopCas, Goto, Threads
<1>2. Owns(c)' /\ \A u \in Threads : Owns(u) => Owns(u)'
  BY <1>1 DEF TypeOK, Owns
<1>3. /\ Waiting' \subseteq Waiting
      /\ Gone' \subseteq Gone \union {dequeue_pos}
  BY <1>1 DEF Waiting, Gone, TypeOK
<1>4. \A q \in Producers \union Consumers : q \in Threads
  BY DEF Threads
<1>5. ASSUME NEW t \in Waiting', seq[Index(t)] = t
      PROVE  \E q \in Producers : Owns(q)' /\ pos[q] = t
  BY <1>2, <1>3, <1>4, <1>5 DEF OwnedInv
<1>6. ASSUME NEW t \in Gone', seq[Index(t)] = t + 1
      PROVE  \E d \in Consumers : Owns(d)' /\ pos[d] = t
  <2>1. CASE t = dequeue_pos
    BY <1>1, <1>2, <2>1
  <2>2. CASE t \in Gone
    BY <1>2, <1>4, <1>6, <2>2 DEF OwnedInv
  <2> QED
    BY <1>3, <2>1, <2>2
<1> QED
  BY <1>1, <1>5, <1>6 DEF OwnedInv

\* A copy into or out of the cell moves nobody.
LEMMA CopyOwned ==
    ASSUME TypeOK, OwnedInv,
           (\E p \in Producers : PushData(p)) \/ (\E c \in Consumers : PopData(c))
    PROVE  OwnedInv'
<1>1. /\ UNCHANGED <<enqueue_pos, dequeue_pos, seq, pos>>
      /\ \A u \in Threads : Owns(u) => Owns(u)'
  BY DEF PushData, PopData, Goto, TypeOK, Owns, Threads
<1>2. \A q \in Producers \union Consumers : q \in Threads
  BY DEF Threads
<1>3. Waiting' = Waiting /\ Gone' = Gone
  BY <1>1 DEF Waiting, Gone
<1> QED
  BY <1>1, <1>2, <1>3 DEF OwnedInv

\* The owner leaves with the store that moves the cell's sequence number on.
LEMMA LeaveOwned ==
    ASSUME TypeOK, RingInv, OwnedInv, NEW t \in Threads, Owns(t),
           pc' = [pc EXCEPT ![t] = "load"],
           UNCHANGED <<enqueue_pos, dequeue_pos, pos>>,
           NEW s \in Nat, seq' = [seq EXCEPT ![Index(pos[t])] = s],
           pos[t] \in Waiting => s # pos[t],
           pos[t] \in Gone => s # pos[t] + 1
    PROVE  OwnedInv'
<1> USE ConstantTypes
<1>1. \A v \in Waiting \union Gone : v # pos[t] => seq'[Index(v)] = seq[Index(v)]
  <2>1. \A v \in Waiting \union Gone : Index(v) \in Slots
    BY IndexInSlots DEF Waiting, Gone, TypeOK
  <2> QED
    BY <2>1, OwnerFacts DEF TypeOK
<1>2. seq'[Index(pos[t])] = s
  BY OwnerFacts DEF TypeOK
<1>3. \A u \in Threads \ {t} : Owns(u)' <=> Owns(u)
  BY OthersKeep
<1>4. \A q \in Producers \union Consumers : q \in Threads
  BY DEF Threads
<1>5. Waiting' = Waiting /\ Gone' = Gone
  BY DEF Waiting, Gone
<1>6. ASSUME NEW v \in Waiting, seq'[Index(v)] = v
      PROVE  \E q \in Producers : Owns(q)' /\ pos[q] = v
  <2>1. v # pos[t] /\ seq[Index(v)] = v
    BY <1>1, <1>2, <1>6
  <2>2. PICK q \in Producers : Owns(q) /\ pos[q] = v
    BY <2>1 DEF OwnedInv
  <2> QED
    BY <1>3, <1>4, <2>1, <2>2
<1>7. ASSUME NEW v \in Gone, seq'[Index(v)] = v + 1
      PROVE  \E c \in Consumers : Owns(c)' /\ pos[c] = v
  <2>1. v # pos[t] /\ seq[Index(v)] = v + 1
    BY <1>1, <1>2, <1>7
  <2>2. PICK c \in Consumers : Owns(c) /\ pos[c] = v
    BY <2>1 DEF OwnedInv
  <2> QED
    BY <1>3, <1>4, <2>1, <2>2
<1> QED
  BY <1>5, <1>6, <1>7 DEF OwnedInv

LEMMA StepOwned == TypeOK /\ RingInv /\ OwnedInv /\ [Next]_vars => OwnedInv'
<1> SUFFICES ASSUME TypeOK, RingInv, OwnedInv, [Next]_vars PROVE OwnedInv'
  OBVIOUS
<1> USE ConstantTypes
<1>1. ASSUME NEW p \in Producers, PushPublish(p) PROVE OwnedInv'
  <2>1. /\ p \in Threads /\ Owns(p) /\ pc' = [pc EXCEPT ![p] = "load"]
        /\ UNCHANGED <<enqueue_pos, dequeue_pos, pos>>
        /\ seq' = [seq EXCEPT ![Index(pos[p])] = pos[p] + 1]
    BY <1>1 DEF PushPublish, Goto, Threads, Owns
  <2>2. pos[p] \in Nat /\ pos[p] \in Waiting /\ pos[p] \notin Gone
    BY <2>1 DEF RingInv, ProducersInv, Waiting, Gone, TypeOK
  <2> QED
    BY <2>1, <2>2, LeaveOwned, pos[p] + 1 # pos[p], pos[p] + 1 \in Nat
<1>2. ASSUME NEW c \in Consumers, PopRelease(c) PROVE OwnedInv'
  <2>1. /\ c \in Threads /\ Owns(c) /\ pc' = [pc EXCEPT ![c] = "load"]
        /\ UNCHANGED <<enqueue_pos, dequeue_pos, pos>>
        /\ seq' = [seq EXCEPT ![Index(pos[c])] = pos[c] + Capacity]
    BY <1>2 DEF PopRelease, Goto, Threads, Owns
  <2>2. pos[c] \in Nat
    BY <2>1 DEF TypeOK
  <2> QED
    BY <2>1, <2>2, LeaveOwned, pos[c] + Capacity \in Nat,
       pos[c] + Capacity # pos[c], pos[c] + Capacity # pos[c] + 1
<1>3. ASSUME NEW t \in Threads, Look(t) PROVE OwnedInv'
  BY <1>3, LookOwned
<1>4. ASSUME NEW p \in Producers, Push(p) PROVE OwnedInv'
  BY <1>1, <1>4, PushCasOwned, CopyOwned DEF Push
<1>5. ASSUME NEW c \in Consumers, Pop(c) PROVE OwnedInv'
  BY <1>2, <1>5, PopCasOwned, CopyOwned DEF Pop
<1>6. CASE UNCHANGED vars
  BY <1>6 DEF vars, OwnedInv, Waiting, Gone, Owns
<1> QED
  BY <1>3, <1>4, <1>5, <1>6 DEF Next

\* A looking thread whose cell belongs to an earlier ticket has the counter's
\* own ticket: an older one's cell has been moved past it.
LEMMA RefusedAtCursor ==
    ASSUME TypeOK, RingInv, NEW t \in Threads, pc[t] \in {"seq", "cas"},
           seq[Index(pos[t])] < Turn(t)
    PROVE  pos[t] = Cursor(t)
<1> USE ConstantTypes
<1>1. /\ enqueue_pos \in Nat /\ dequeue_pos \in Nat /\ dequeue_pos <= enqueue_pos
      /\ pos[t] \in Nat /\ pos[t] <= Cursor(t)
      /\ enqueue_pos - dequeue_pos <= Capacity
  BY LookExact DEF TypeOK, RingInv, CellsInv
<1>2. PICK v \in enqueue_pos - Capacity .. enqueue_pos - 1 : Index(v) = Index(pos[t])
  <2>1. Index(pos[t]) \in Slots /\ enqueue_pos \in Int
    BY <1>1, IndexInSlots
  <2> QED
    BY <2>1, IndexOnto
<1>3. seq[Index(v)] \in {v, v + 1, v + Capacity}
  BY <1>1, <1>2 DEF RingInv, CellsInv, Waiting, Gone
<1>4. ASSUME pos[t] < Cursor(t) PROVE FALSE
  <2>1. pos[t] < enqueue_pos
    BY <1>1, <1>4 DEF Cursor
  <2>2. v >= pos[t]
    <3>1. ASSUME v < pos[t] PROVE v = pos[t]
      BY <1>1, <1>2, <2>1, <3>1, IndexInjective
    <3> QED
      BY <1>1, <1>2, <3>1
  <2>3. CASE t \in Producers
    BY <1>1, <1>2, <1>3, <2>2, <2>3 DEF Turn
  <2>4. CASE t \notin Producers
    <3>1. pos[t] < dequeue_pos /\ Turn(t) = pos[t] + 1
      BY <1>4, <2>4 DEF Cursor, Turn
    <3>2. v = pos[t] => v \in Gone
      BY <1>1, <1>2, <3>1 DEF Gone
    <3>3. v = pos[t] => seq[Index(v)] \in {v + 1, v + Capacity}
      BY <3>2 DEF RingInv, CellsInv
    <3> QED
      BY <1>1, <1>2, <1>3, <2>2, <3>1, <3>3
  <2> QED
    BY <2>3, <2>4
<1> QED
  BY <1>1, <1>4 DEF Cursor

LEMMA RefusalStep ==
    ASSUME TypeOK, RingInv, OwnedInv
    PROVE  /\ \A p \in Producers : Refuse(p) => ~Released(enqueue_pos - Capacity)
           /\ \A c \in Consumers : Refuse(c) => ~Published(dequeue_pos)
<1> USE ConstantTypes
<1>1. /\ enqueue_pos \in Nat /\ dequeue_pos \in Nat /\ dequeue_pos <= enqueue_pos
      /\ enqueue_pos - dequeue_pos <= Capacity
  BY DEF TypeOK, RingInv, CellsInv
<1>2. ASSUME NEW t \in Threads, Refuse(t)
      PROVE  pos[t] = Cursor(t) /\ seq[Index(pos[t])] < Turn(t)
  <2>1. pc[t] = "seq" /\ BeforePos(seq[Index(pos[t])], Turn(t))
    BY <1>2 DEF Refuse, TurnRefused, LoadSeq
  <2> QED
    BY <2>1, LookExact, RefusedAtCursor
<1>3. ASSUME NEW p \in Producers, Refuse(p), Released(enqueue_pos - Capacity)
      PROVE  FALSE
  <2> DEFINE t == enqueue_pos - Capacity
  <2>1. seq[Index(enqueue_pos)] < enqueue_pos
    BY <1>2, <1>3 DEF Cursor, Turn, Threads
  <2>2. t \in Int /\ t + Capacity = enqueue_pos
    BY <1>1
  <2>3. Index(enqueue_pos) = Index(t)
    BY <2>2, IndexNextLap
  <2>4. t \in Gone /\ ~\E c \in Consumers : Owns(c) /\ pos[c] = t
    BY <1>1, <1>3 DEF Released, Gone
  <2>5. seq[Index(t)] = t + Capacity
    BY <2>4 DEF RingInv, CellsInv, OwnedInv
  <2> QED
    BY <1>1, <2>1, <2>3, <2>5
<1>4. ASSUME NEW c \in Consumers, Refuse(c), Published(dequeue_pos)
      PROVE  FALSE
  <2>1. seq[Index(dequeue_pos)] < dequeue_pos + 1
    BY <1>2, <1>4 DEF Cursor, Turn, Threads
  <2>2. dequeue_pos \in Waiting /\ ~\E p \in Producers : Owns(p) /\ pos[p] = dequeue_pos
    BY <1>1, <1>4 DEF Published, Waiting
  <2>3. seq[Index(dequeue_pos)] = dequeue_pos + 1
    BY <2>2 DEF RingInv, CellsInv, OwnedInv
  <2> QED
    BY <1>1, <2>1, <2>3
<1> QED
  BY <1>3, <1>4

\* "return false" of try_push and of try_pop is never a mistake: the ring was
\* full, or had no complete spike at its head, when the cell was looked at.
THEOREM RefusalsTrue == Spec => RefusalsAreTrue
<1>1. TypeOK /\ RingInv /\ OwnedInv /\ [Next]_vars => (TypeOK /\ RingInv /\ OwnedInv)'
  BY StepInv, StepOwned
<1>2. TypeOK /\ RingInv /\ OwnedInv /\ [Next]_vars =>
        [ /\ \A p \in Producers : Refuse(p) => ~Released(enqueue_pos - Capacity)
          /\ \A c \in Consumers : Refuse(c) => ~Published(dequeue_pos) ]_vars
  BY RefusalStep
<1> QED
  BY InitInv, InitOwned, <1>1, <1>2, PTL DEF Spec, RefusalsAreTrue
=============================================================================

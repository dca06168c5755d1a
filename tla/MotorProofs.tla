---------------------------- MODULE MotorProofs ----------------------------
(***************************************************************************)
(* Proofs about MotorCortex, for every ring, every set of procedures and     *)
(* chains, texts of every length and any number of calls, aborts and ESC     *)
(* presses: what is popped is what was pushed, both stops take effect within *)
(* one input, and what runs of a procedure is a beginning of it.             *)
(***************************************************************************)
EXTENDS MotorCortex, SequenceTheorems, TLAPS

\* The ring without the modulus: the slot k places after slot i, k at most QueueSize.
Plus(i, k) == IF i + k < QueueSize THEN i + k ELSE i + k - QueueSize

Queued == Len(log) - taken

\* The commands in the ring, from head to tail, are those pushed and not yet popped.
RingHolds ==
    /\ Queued \in 0 .. QueueSize - 1
    /\ tail = Plus(head, Queued)
    /\ \A k \in 0 .. Queued - 1 : buffer[Plus(head, k)] = log[taken + k + 1]
    /\ mpc = "store" => Queued < QueueSize - 1
    /\ tpc = "advance" => Queued > 0 /\ cmd = log[taken + 1]
    /\ tpc \notin {"pop", "advance", "stopped"} => taken > 0 /\ cmd = log[taken]

\* The call under way.
Pushing == mpc \in {"push", "store"}
CallTells ==
    /\ chained \subseteq 1 .. job
    /\ Pushing => at <= Len(steps) /\ (job \in chained <=> mode = "chain")
    /\ mpc = "store" =>
        /\ buffer[tail].job = job /\ buffer[tail].step = at
        /\ job \notin chained => buffer[tail].epoch = call_epoch
    /\ Pushing /\ job \notin chained /\ at > 1 =>
        /\ Len(log) > 0 /\ log[Len(log)].job = job /\ log[Len(log)].step = at - 1
        /\ log[Len(log)].epoch = call_epoch

\* No command is ahead of the epoch.
EpochsPast ==
    /\ call_epoch <= current_motor_epoch /\ cmd.epoch <= current_motor_epoch
    /\ mpc = "store" => buffer[tail].epoch <= current_motor_epoch
    /\ \A i \in 1 .. Len(log) : log[i].epoch <= current_motor_epoch

\* An input is left to send, or to leave out, while the thread is at one.
InputsLeft == tpc \in {"window", "epoch", "esc", "focus", "send"} => left > 0

\* A string whose epoch check was passed has sent nothing late yet; after one
\* character sent late its command is stale for good.
LateTells ==
    cmd.kind = "string" =>
        /\ late > 0 => tpc \in {"pop", "epoch", "stopped"} /\ cmd.epoch < current_motor_epoch
        /\ late <= 1

\* Between a check that found the switch open and the input, nothing was sent.
KillTells ==
    /\ tpc \in {"focus", "send"} => afterKill = 0
    /\ afterKill <= 1

\* The commands of a procedure follow one another, all under one epoch.
CallsInOrder ==
    \A i \in 1 .. Len(log) : log[i].job \notin chained /\ log[i].step > 1 =>
        /\ i > 1
        /\ log[i - 1].job = log[i].job /\ log[i - 1].step = log[i].step - 1
        /\ log[i - 1].epoch = log[i].epoch

\* Of the commands that are through the checks of the loop, those still of this epoch
\* have begun, unless an abort the motor thread has decided on is about to end it.
Through == IF tpc \in {"stale", "kill"} THEN taken - 1 ELSE taken
FreshBegan ==
    owed["motor"] = 0 =>
        \A i \in 1 .. Through :
            log[i].epoch = current_motor_epoch => <<log[i].job, log[i].step>> \in begun

\* The step before the one about to begin has begun, whatever is aborted now.
KillReady ==
    tpc = "kill" /\ cmd.job \notin chained /\ cmd.step > 1
        => <<cmd.job, cmd.step - 1>> \in begun

OrderInv == CallsInOrder /\ FreshBegan /\ KillReady /\ StepsRunInPrefix

MotorInv ==
    /\ TypeOK /\ RingHolds /\ CallTells /\ EpochsPast
    /\ InputsLeft /\ LateTells /\ KillTells /\ OrderInv

----------------------------------------------------------------------------
USE DEF ring, main, motor, switch, world, bounds, history, vars, MainAt, MotorAt, MotorGoto

(***************************************************************************)
(* The modulus                                                              *)
(***************************************************************************)
LEMMA SizeType == QueueSize \in Nat /\ QueueSize > 1 /\ Slots = 0 .. QueueSize - 1
BY MotorAssumption DEF Slots

\* Division by the ring's size: what the solver needs to be told.
LEMMA Remainder ==
    ASSUME NEW q \in Int, NEW r \in 0 .. QueueSize - 1
    PROVE  (QueueSize * q + r) % QueueSize = r
<1> DEFINE a == QueueSize * q + r
<1>1. a \in Int /\ a % QueueSize \in 0 .. QueueSize - 1
      /\ a = QueueSize * (a \div QueueSize) + (a % QueueSize) /\ a \div QueueSize \in Int
  BY SizeType
<1> DEFINE d == q - (a \div QueueSize)
<1>2. d \in Int /\ QueueSize * d = (a % QueueSize) - r
  BY SizeType, <1>1
<1> HIDE DEF a, d
<1>3. d < 1 /\ d > -1
  BY SizeType, <1>1, <1>2
<1>4. d = 0
  BY <1>2, <1>3
<1> QED
  BY SizeType, <1>1, <1>2, <1>4 DEF a

LEMMA AfterPlus == \A i \in Slots : After(i) = Plus(i, 1) /\ After(i) \in Slots
<1> SUFFICES ASSUME NEW i \in Slots PROVE After(i) = Plus(i, 1) /\ After(i) \in Slots
  OBVIOUS
<1>1. CASE i + 1 < QueueSize
  <2>1. (QueueSize * 0 + (i + 1)) % QueueSize = i + 1
    BY <1>1, SizeType, Remainder
  <2> QED
    BY <1>1, <2>1, SizeType DEF After, Plus
<1>2. CASE i + 1 = QueueSize
  <2>1. (QueueSize * 1 + 0) % QueueSize = 0
    BY SizeType, Remainder
  <2> QED
    BY <1>2, <2>1, SizeType DEF After, Plus
<1> QED
  BY <1>1, <1>2, SizeType

\* What is queued, as the model counts it.
LEMMA Distance ==
    ASSUME NEW i \in Slots, NEW k \in 0 .. QueueSize - 1
    PROVE  Plus(i, k) \in Slots /\ (Plus(i, k) - i) % QueueSize = k
<1>1. CASE i + k < QueueSize
  <2>1. (QueueSize * 0 + k) % QueueSize = k
    BY SizeType, Remainder
  <2> QED
    BY <1>1, <2>1, SizeType DEF Plus
<1>2. CASE ~(i + k < QueueSize)
  <2>1. (QueueSize * (-1) + k) % QueueSize = k
    BY SizeType, Remainder
  <2>2. Plus(i, k) - i = QueueSize * (-1) + k
    BY <1>2, SizeType DEF Plus
  <2> QED
    BY <1>2, <2>1, <2>2, SizeType DEF Plus
<1> QED
  BY <1>1, <1>2

----------------------------------------------------------------------------
(***************************************************************************)
(* Kinds of steps                                                           *)
(***************************************************************************)
Words == Procedures \union Chains

LEMMA WordType == \A p \in Words : p \in Seq(Kinds) /\ Len(p) \in Nat /\ Len(p) > 0
<1> SUFFICES ASSUME NEW p \in Words PROVE p \in Seq(Kinds) /\ Len(p) \in Nat /\ Len(p) > 0
  OBVIOUS
<1>1. p \in Seq(Kinds) /\ p # <<>>
  BY MotorAssumption DEF Words
<1> QED
  BY <1>1, EmptySeq, LenProperties

\* A call of any kind, or the fallback of one.
NewCall ==
    /\ mpc \in {"idle", "verify"}
    /\ \E m \in {"procedure", "primary", "chain"}, p \in Words : Issue(m, p)
    /\ UNCHANGED <<ring, motor, switch, thread_running, world, bounds>>

\* The rest of what the main loop does, away from the ring.
MainElse ==
    \/ Drain(TRUE) \/ Drain(FALSE) \/ Verified \/ MainAbort \/ reset_kill_switch
    \/ DirectCheck \/ DirectOutput \/ shutdown \/ Joined

\* What the motor thread does with a command it holds.
MotorElse ==
    \/ MotorStops \/ LoopEpochCheck \/ LoopKillCheck
    \/ TypeEnter \/ CharEpochCheck \/ EscCheck \/ FocusCheck \/ Send

LEMMA NextSplit ==
    [Next]_vars =>
        \/ PushWrite \/ PushStore \/ PushDropped \/ NewCall \/ MainElse
        \/ PopCopy \/ PopAdvance \/ MotorElse
        \/ AbortSequence("main") \/ AbortSequence("motor") \/ User \/ UNCHANGED vars
<1>1. ASSUME NEW m \in {"procedure", "primary", "chain"}, NEW p \in Words, Submit(m, p)
      PROVE  NewCall
  BY <1>1 DEF Submit, NewCall
<1>2. ASSUME NEW p \in Procedures, FallBack(p) PROVE NewCall
  BY <1>2 DEF FallBack, NewCall, Words
<1>3. ASSUME NEW p \in Chains, Pursue(p) PROVE NewCall
  BY <1>1, <1>3 DEF Pursue, Words
<1>4. MainCall => NewCall \/ MainElse
  BY <1>1, <1>3 DEF MainCall, MainElse, Words
<1>5. MainStep => \/ AbortSequence("main") \/ PushWrite \/ PushStore \/ PushDropped
                  \/ NewCall \/ MainElse
  BY <1>2 DEF MainStep, MainElse
<1>6. MotorStep => AbortSequence("motor") \/ PopCopy \/ PopAdvance \/ MotorElse
  BY DEF MotorStep, MotorElse
<1> QED
  BY <1>4, <1>5, <1>6 DEF Next, Stopped

\* What a step away from the ring leaves alone.
RingKept ==
    /\ UNCHANGED <<ring, log, taken, cmd, chained, job, mode, steps, at, call_epoch>>
    /\ \/ mpc' = mpc
       \/ {mpc, mpc'} \intersect {"push", "store"} = {}
    /\ \/ tpc' = tpc
       \/ {tpc, tpc'} \subseteq {"pop", "stopped"}
       \/ /\ tpc \notin {"pop", "advance", "stopped"} /\ tpc' # "advance"

LEMMA KeepsRing ==
    TypeOK /\ (MainElse \/ MotorElse \/ AbortSequence("main") \/ AbortSequence("motor") \/ User
                   \/ UNCHANGED vars)
        => RingKept
<1> SUFFICES ASSUME TypeOK, \/ MainElse \/ MotorElse \/ AbortSequence("main")
                            \/ AbortSequence("motor") \/ User \/ UNCHANGED vars
             PROVE  RingKept
  OBVIOUS
<1> USE DEF RingKept
<1>1. CASE Drain(TRUE) \/ Drain(FALSE) \/ Verified
  BY <1>1 DEF Drain, Verified
<1>2. CASE MainAbort \/ reset_kill_switch
  BY <1>2 DEF MainAbort, reset_kill_switch
<1>3. CASE DirectCheck \/ DirectOutput
  BY <1>3 DEF DirectCheck, CheckKillSwitch, DirectOutput, MoveFocus
<1>4. CASE shutdown \/ Joined
  BY <1>4 DEF shutdown, Joined
<1>5. CASE MotorStops \/ LoopEpochCheck
  BY <1>5 DEF MotorStops, LoopEpochCheck
<1>6. CASE LoopKillCheck
  BY <1>6 DEF LoopKillCheck, CheckKillSwitch, FirstLook
<1>7. CASE TypeEnter \/ CharEpochCheck
  BY <1>7 DEF TypeEnter, CheckKillSwitch, CharEpochCheck
<1>8. CASE EscCheck
  BY <1>8 DEF EscCheck, CheckKillSwitch, NextLook
<1>9. CASE FocusCheck
  BY <1>9 DEF FocusCheck
<1>10. CASE Send
  BY <1>10 DEF Send, NextLook
<1>11. CASE AbortSequence("main") \/ AbortSequence("motor")
  BY <1>11 DEF AbortSequence
<1>12. CASE User
  BY <1>12 DEF User
<1>13. CASE UNCHANGED vars
  BY <1>13
<1> QED
  BY <1>1, <1>2, <1>3, <1>4, <1>5, <1>6, <1>7, <1>8, <1>9, <1>10, <1>11, <1>12, <1>13 DEF MainElse, MotorElse

----------------------------------------------------------------------------
(***************************************************************************)
(* Types                                                                    *)
(***************************************************************************)
RingTypes ==
    /\ buffer \in [Slots -> Commands] /\ head \in Slots /\ tail \in Slots
    /\ cmd \in Commands /\ log \in Seq(Commands) /\ taken \in 0 .. Len(log)

CallTypes ==
    /\ mpc \in {"idle", "push", "store", "drain", "verify", "output", "join", "stopped"}
    /\ job \in Nat /\ mode \in {"procedure", "primary", "chain"}
    /\ steps \in Seq(Kinds) /\ at \in 1 .. Len(steps) + 1 /\ call_epoch \in Nat

ThreadTypes ==
    /\ current_motor_epoch \in Nat /\ owed \in [{"main", "motor"} -> 0 .. 2]
    /\ current_indent_level \in Nat /\ g_motor_focus_aborts \in Nat
    /\ tpc \in {"pop", "advance", "stale", "kill", "window", "epoch", "esc", "focus",
                "send", "stopped"}
    /\ left \in Nat /\ begun \subseteq Nat \X Nat /\ late \in Nat /\ afterKill \in Nat
    /\ presses \in 0 .. MaxPresses /\ aborts \in 0 .. MaxAborts /\ resets \in 0 .. MaxResets

FlagTypes ==
    /\ killed \in BOOLEAN /\ thread_running \in BOOLEAN /\ drained \in BOOLEAN
    /\ esc \in BOOLEAN /\ on_target \in BOOLEAN

LEMMA TypeParts == TypeOK <=> RingTypes /\ CallTypes /\ ThreadTypes /\ FlagTypes
BY Zenon DEF TypeOK, RingTypes, CallTypes, ThreadTypes, FlagTypes

\* What the epoch checked against, the numbers counted, are natural numbers.
LEMMA CommandType ==
    ASSUME NEW j \in Nat, NEW s \in Nat, NEW k \in Kinds, NEW e \in Nat
    PROVE  [job |-> j, step |-> s, kind |-> k, epoch |-> e] \in Commands
BY DEF Commands

LEMMA RingTypesStep == TypeOK /\ RingHolds /\ CallTells /\ [Next]_vars => RingTypes'
<1> SUFFICES ASSUME TypeOK, RingHolds, CallTells, [Next]_vars PROVE RingTypes'
  OBVIOUS
<1>t. /\ RingTypes /\ CallTypes /\ current_motor_epoch \in Nat /\ Len(log) \in Nat
      /\ at \in Nat /\ Len(steps) \in Nat
  BY TypeParts, LenProperties DEF RingTypes, CallTypes, ThreadTypes
<1> USE DEF RingTypes
<1>1. CASE RingKept
  BY <1>t, <1>1 DEF RingKept
<1>2. CASE NewCall
  BY <1>t, <1>2 DEF NewCall, Issue
<1>3. CASE PushDropped
  BY <1>t, <1>3 DEF PushDropped
<1>4. CASE PushWrite
  <2> DEFINE e == IF mode = "chain" THEN current_motor_epoch ELSE call_epoch
  <2>1. steps[at] \in Kinds
    <3>1. at \in 1 .. Len(steps) /\ steps \in Seq(Kinds)
      BY <1>t, <1>4 DEF PushWrite, CallTells, Pushing, CallTypes
    <3> QED
      BY <3>1, ElementOfSeq
  <2>2. e \in Nat /\ job \in Nat
    BY <1>t DEF CallTypes
  <2> HIDE DEF e
  <2>3. [job |-> job, step |-> at, kind |-> steps[at], epoch |-> e] \in Commands
    BY <1>t, <2>1, <2>2, CommandType
  <2>4. /\ buffer' = [buffer EXCEPT ![tail] = [job |-> job, step |-> at, kind |-> steps[at], epoch |-> e]]
        /\ UNCHANGED <<head, tail, cmd, log, taken>>
    BY <1>4 DEF PushWrite, e
  <2> QED
    BY <1>t, <2>3, <2>4
<1>5. CASE PushStore
  <2>1. /\ log' = Append(log, buffer[tail]) /\ tail' = After(tail)
        /\ UNCHANGED <<buffer, head, cmd, taken>>
    BY <1>5 DEF PushStore
  <2>2. buffer[tail] \in Commands
    BY <1>t
  <2>3. log' \in Seq(Commands) /\ Len(log') = Len(log) + 1
    BY <1>t, <2>1, <2>2, AppendProperties
  <2> QED
    BY <1>t, <2>1, <2>3, AfterPlus
<1>6. CASE PopCopy
  BY <1>t, <1>6 DEF PopCopy
<1>7. CASE PopAdvance
  <2>1. taken < Len(log)
    BY <1>t, <1>7 DEF PopAdvance, RingHolds, Queued
  <2> QED
    BY <1>t, <1>7, <2>1, AfterPlus DEF PopAdvance
<1> QED
  BY <1>1, <1>2, <1>3, <1>4, <1>5, <1>6, <1>7, NextSplit, KeepsRing

LEMMA CallTypesStep == TypeOK /\ CallTells /\ [Next]_vars => CallTypes'
<1> SUFFICES ASSUME TypeOK, CallTells, [Next]_vars PROVE CallTypes'
  OBVIOUS
<1>t. CallTypes /\ current_motor_epoch \in Nat /\ Len(steps) \in Nat
  BY TypeParts, LenProperties DEF CallTypes, ThreadTypes
<1> USE DEF CallTypes
<1>1. CASE NewCall
  <2>1. PICK m \in {"procedure", "primary", "chain"}, p \in Words : Issue(m, p)
    BY <1>1 DEF NewCall
  <2> QED
    BY <1>t, <2>1, WordType DEF Issue
<1>2. CASE PushWrite \/ PushStore \/ PushDropped
  BY <1>t, <1>2 DEF PushWrite, PushStore, PushDropped, StepOver, CallTells, Pushing
<1>3. CASE MainElse
  <2>1. UNCHANGED <<job, mode, steps, at, call_epoch>>
    BY <1>3, KeepsRing DEF RingKept
  <2>2. mpc' \in {"idle", "push", "store", "drain", "verify", "output", "join", "stopped"}
    <3>1. CASE Drain(TRUE) \/ Drain(FALSE) \/ Verified \/ MainAbort \/ reset_kill_switch
      BY <1>t, <3>1 DEF Drain, Verified, MainAbort, reset_kill_switch
    <3>2. CASE DirectCheck \/ DirectOutput \/ shutdown \/ Joined
      BY <1>t, <3>2 DEF DirectCheck, DirectOutput, shutdown, Joined
    <3> QED
      BY <1>3, <3>1, <3>2 DEF MainElse
  <2> QED
    BY <1>t, <2>1, <2>2
<1>4. CASE UNCHANGED main
  BY <1>t, <1>4
<1>5. PopCopy \/ PopAdvance \/ MotorElse \/ AbortSequence("main") \/ AbortSequence("motor")
          \/ User => UNCHANGED main
  BY DEF PopCopy, PopAdvance, MotorElse, MotorStops, LoopEpochCheck, LoopKillCheck, TypeEnter,
         CharEpochCheck, EscCheck, FocusCheck, Send, AbortSequence, User
<1> QED
  BY <1>1, <1>2, <1>3, <1>4, <1>5, NextSplit

\* Looking at the kill switch.
LEMMA SwitchLooked ==
    ASSUME TypeOK, NEW t \in {"main", "motor"}, NEW extra \in {0, 1}, CheckKillSwitch(t, extra)
    PROVE  /\ owed' \in [{"main", "motor"} -> 0 .. 2]
           /\ \A u \in {"main", "motor"} \ {t} : owed'[u] = owed[u]
           /\ KillSeen /\ extra = 1 => owed'[t] > 0
           /\ afterKill' \in {0, afterKill} /\ (~KillSeen => afterKill' = 0)
           /\ current_motor_epoch' = current_motor_epoch
<1> DEFINE a == IF esc /\ ~killed THEN 1 ELSE 0
           b == IF KillSeen THEN extra ELSE 0
<1>1. a \in {0, 1} /\ b \in {0, 1} /\ (KillSeen /\ extra = 1 => b = 1)
  BY Zenon
<1>2. owed \in [{"main", "motor"} -> 0 .. 2]
  BY TypeParts DEF ThreadTypes
<1>3. owed' = [owed EXCEPT ![t] = a + b] /\ current_motor_epoch' = current_motor_epoch
  BY Zenon DEF CheckKillSwitch
<1>4. afterKill' \in {0, afterKill} /\ (~KillSeen => afterKill' = 0)
  BY Zenon DEF CheckKillSwitch, KillSeen
<1> HIDE DEF a, b
<1>5. a + b \in 0 .. 2 /\ (b = 1 => a + b > 0)
  BY <1>1
<1> QED
  BY <1>1, <1>2, <1>3, <1>4, <1>5

LEMMA ThreadTypesStep == TypeOK /\ RingHolds /\ InputsLeft /\ [Next]_vars => ThreadTypes'
<1> SUFFICES ASSUME TypeOK, RingHolds, InputsLeft, [Next]_vars PROVE ThreadTypes'
  OBVIOUS
<1>t. ThreadTypes /\ cmd \in Commands /\ Text \in Nat \ {0}
      /\ MaxPresses \in Nat /\ MaxAborts \in Nat /\ MaxResets \in Nat
  BY TypeParts, MotorAssumption DEF RingTypes
<1> USE DEF ThreadTypes
<1>1. CASE PushWrite \/ PushStore \/ PushDropped
  BY <1>t, <1>1 DEF PushWrite, PushStore, PushDropped
<1>2. CASE NewCall
  BY <1>t, <1>2 DEF NewCall, Issue
<1>3. CASE Drain(TRUE) \/ Drain(FALSE) \/ Verified \/ DirectOutput \/ shutdown \/ Joined
  BY <1>t, <1>3 DEF Drain, Verified, DirectOutput, shutdown, Joined
<1>4. CASE MainAbort \/ reset_kill_switch
  BY <1>t, <1>4 DEF MainAbort, reset_kill_switch
<1>5. CASE DirectCheck
  <2>1. /\ owed' \in [{"main", "motor"} -> 0 .. 2] /\ afterKill' \in Nat
        /\ current_motor_epoch' = current_motor_epoch
    BY <1>t, <1>5, SwitchLooked DEF DirectCheck
  <2> QED
    BY <1>t, <1>5, <2>1 DEF DirectCheck
<1>6. CASE \E t \in {"main", "motor"} : AbortSequence(t)
  BY <1>t, <1>6 DEF AbortSequence
<1>7. CASE PopCopy \/ PopAdvance \/ MotorStops \/ LoopEpochCheck \/ CharEpochCheck \/ FocusCheck
  BY <1>t, <1>7 DEF PopCopy, PopAdvance, MotorStops, LoopEpochCheck, CharEpochCheck, FocusCheck
<1>8. CASE LoopKillCheck
  <2>1. /\ owed' \in [{"main", "motor"} -> 0 .. 2] /\ afterKill' \in Nat
        /\ current_motor_epoch' = current_motor_epoch
    BY <1>t, <1>8, SwitchLooked DEF LoopKillCheck
  <2>2. cmd.kind \in Kinds /\ cmd.job \in Nat /\ cmd.step \in Nat
    BY <1>t DEF Commands
  <2>3. /\ LevelAfter(cmd.kind) \in Nat /\ Inputs(cmd.kind) \in Nat
        /\ FirstLook(cmd.kind) \in {"window", "send", "esc"}
    BY <1>t, <2>2 DEF LevelAfter, Inputs, FirstLook, Kinds
  <2>4. <<cmd.job, cmd.step>> \in Nat \X Nat
    BY <2>2
  <2>5. /\ UNCHANGED <<g_motor_focus_aborts, late, presses, aborts, resets>>
        /\ \/ tpc' = "pop" /\ UNCHANGED <<left, current_indent_level, begun>>
           \/ /\ tpc' = FirstLook(cmd.kind) /\ left' = Inputs(cmd.kind)
              /\ current_indent_level' = LevelAfter(cmd.kind)
              /\ begun' = begun \union {<<cmd.job, cmd.step>>}
    BY <1>8 DEF LoopKillCheck
  <2> QED
    BY <1>t, <2>1, <2>3, <2>4, <2>5
<1>9. CASE TypeEnter
  <2>1. /\ owed' \in [{"main", "motor"} -> 0 .. 2] /\ afterKill' \in Nat
        /\ current_motor_epoch' = current_motor_epoch
    BY <1>t, <1>9, SwitchLooked DEF TypeEnter
  <2> QED
    BY <1>t, <1>9, <2>1 DEF TypeEnter
<1>10. CASE EscCheck
  <2>1. /\ owed' \in [{"main", "motor"} -> 0 .. 2] /\ afterKill' \in Nat
        /\ current_motor_epoch' = current_motor_epoch
    BY <1>t, <1>10, SwitchLooked DEF EscCheck
  <2>2. left - 1 \in Nat
    BY <1>t, <1>10 DEF InputsLeft, EscCheck
  <2>3. /\ left' \in {left, left - 1} /\ tpc' \in {"pop", "epoch", "esc", "focus", "send"}
        /\ UNCHANGED <<current_indent_level, g_motor_focus_aborts, begun, late, presses, aborts, resets>>
    BY <1>10 DEF EscCheck, NextLook
  <2> QED
    BY <1>t, <2>1, <2>2, <2>3
<1>11. CASE Send
  <2>1. left - 1 \in Nat
    BY <1>t, <1>11 DEF InputsLeft, Send
  <2>2. /\ left' = left - 1 /\ late' \in {late, late + 1} /\ afterKill' \in {afterKill, afterKill + 1}
        /\ tpc' \in {"pop", "epoch", "esc"}
        /\ UNCHANGED <<current_motor_epoch, owed, current_indent_level, g_motor_focus_aborts, begun,
                       presses, aborts, resets>>
    BY <1>11 DEF Send, NextLook
  <2> QED
    BY <1>t, <2>1, <2>2
<1>12. CASE User
  <2>1. presses' = presses \/ (presses < MaxPresses /\ presses' = presses + 1)
    BY <1>12 DEF User
  <2>2. UNCHANGED <<motor, switch, begun, late, afterKill, aborts, resets>>
    BY <1>12 DEF User
  <2> QED
    BY <1>t, <2>1, <2>2
<1>13. CASE UNCHANGED vars
  BY <1>t, <1>13
<1> QED
  BY <1>1, <1>2, <1>3, <1>4, <1>5, <1>6, <1>7, <1>8, <1>9, <1>10, <1>11, <1>12, <1>13, NextSplit
     DEF MainElse, MotorElse

LEMMA FlagTypesStep == TypeOK /\ [Next]_vars => FlagTypes'
<1> SUFFICES ASSUME FlagTypes, [Next]_vars PROVE FlagTypes'
  BY TypeParts
<1> USE DEF FlagTypes
<1>1. CASE PushWrite
  BY <1>1 DEF PushWrite
<1>2. CASE PushStore \/ PushDropped
  BY <1>2 DEF PushStore, StepOver, PushDropped
<1>3. CASE NewCall
  BY <1>3 DEF NewCall, Issue
<1>4. CASE Drain(TRUE) \/ Drain(FALSE)
  BY <1>4 DEF Drain
<1>5. CASE Verified \/ MainAbort \/ reset_kill_switch
  BY <1>5 DEF Verified, MainAbort, reset_kill_switch
<1>6. CASE DirectCheck
  BY <1>6 DEF DirectCheck, CheckKillSwitch, KillSeen
<1>7. CASE DirectOutput
  BY <1>7 DEF DirectOutput, MoveFocus
<1>8. CASE shutdown \/ Joined
  BY <1>8 DEF shutdown, Joined
<1>9. CASE PopCopy \/ PopAdvance
  BY <1>9 DEF PopCopy, PopAdvance
<1>10. CASE MotorStops \/ LoopEpochCheck
  BY <1>10 DEF MotorStops, LoopEpochCheck, KillSeen
<1>11. CASE LoopKillCheck
  BY <1>11 DEF LoopKillCheck, CheckKillSwitch, KillSeen
<1>12. CASE TypeEnter
  BY <1>12 DEF TypeEnter, CheckKillSwitch, KillSeen
<1>13. CASE CharEpochCheck \/ EscCheck
  BY <1>13 DEF CharEpochCheck, EscCheck, CheckKillSwitch, KillSeen
<1>14. CASE FocusCheck \/ Send
  BY <1>14 DEF FocusCheck, Send, KillSeen
<1>15. CASE AbortSequence("main") \/ AbortSequence("motor")
  BY <1>15 DEF AbortSequence
<1>16. CASE User
  BY <1>16 DEF User
<1>17. CASE UNCHANGED vars
  BY <1>17
<1> QED
  BY <1>1, <1>2, <1>3, <1>4, <1>5, <1>6, <1>7, <1>8, <1>9, <1>10, <1>11, <1>12, <1>13, <1>14, <1>15, <1>16, <1>17, NextSplit DEF MainElse, MotorElse

LEMMA TypeStep ==
    TypeOK /\ RingHolds /\ CallTells /\ InputsLeft /\ [Next]_vars => TypeOK'
<1> SUFFICES ASSUME TypeOK, RingHolds, CallTells, InputsLeft, [Next]_vars PROVE TypeOK'
  OBVIOUS
<1>1. RingTypes' /\ CallTypes' /\ ThreadTypes' /\ FlagTypes'
  BY RingTypesStep, CallTypesStep, ThreadTypesStep, FlagTypesStep, Zenon
<1> QED
  BY <1>1, Zenon DEF TypeOK, RingTypes, CallTypes, ThreadTypes, FlagTypes

----------------------------------------------------------------------------
(***************************************************************************)
(* The ring                                                                 *)
(***************************************************************************)
LEMMA RingFacts ==
    ASSUME TypeOK, RingHolds
    PROVE  /\ head \in Slots /\ tail \in Slots /\ Len(log) \in Nat /\ taken \in Nat
           /\ Queued \in 0 .. QueueSize - 1 /\ Len(log) = taken + Queued
           /\ buffer \in [Slots -> Commands] /\ log \in Seq(Commands)
           /\ \A k \in 0 .. QueueSize - 1 : Plus(head, k) \in Slots
BY TypeParts, LenProperties, Distance DEF RingTypes, RingHolds, Queued

\* Slots of the ring that lie apart are different.
LEMMA PlusApart ==
    ASSUME NEW i \in Slots, NEW j \in 0 .. QueueSize - 1, NEW k \in 0 .. QueueSize - 1, j # k
    PROVE  Plus(i, j) # Plus(i, k)
BY SizeType DEF Plus

LEMMA PlusOn ==
    ASSUME NEW i \in Slots, NEW k \in 0 .. QueueSize - 2
    PROVE  /\ Plus(Plus(i, k), 1) = Plus(i, k + 1)
           /\ Plus(Plus(i, 1), k) = Plus(i, k + 1)
BY SizeType DEF Plus

LEMMA RingStep == TypeOK /\ RingHolds /\ [Next]_vars => RingHolds'
<1> SUFFICES ASSUME TypeOK, RingHolds, [Next]_vars PROVE RingHolds'
  OBVIOUS
<1>t. /\ head \in Slots /\ tail \in Slots /\ Len(log) \in Nat /\ taken \in Nat
      /\ Queued \in 0 .. QueueSize - 1 /\ Len(log) = taken + Queued
      /\ buffer \in [Slots -> Commands] /\ log \in Seq(Commands)
      /\ \A k \in 0 .. QueueSize - 1 : Plus(head, k) \in Slots
  BY RingFacts
<1>r. /\ tail = Plus(head, Queued)
      /\ \A k \in 0 .. Queued - 1 : buffer[Plus(head, k)] = log[taken + k + 1]
      /\ mpc = "store" => Queued < QueueSize - 1
      /\ tpc = "advance" => Queued > 0 /\ cmd = log[taken + 1]
      /\ tpc \notin {"pop", "advance", "stopped"} => taken > 0 /\ cmd = log[taken]
  BY DEF RingHolds
<1>1. CASE RingKept
  BY <1>1, <1>t, <1>r DEF RingKept, RingHolds, Queued
<1>2. CASE NewCall \/ PushDropped
  <2>1. UNCHANGED <<ring, log, taken, cmd, tpc>> /\ mpc' # "store"
    BY <1>2 DEF NewCall, Issue, PushDropped, StepOver
  <2> QED
    BY <2>1, <1>t, <1>r DEF RingHolds, Queued
<1>3. CASE PushWrite
  <2>1. /\ UNCHANGED <<head, tail, log, taken, cmd, tpc>> /\ mpc' = "store" /\ ~Full
        /\ \E c : buffer' = [buffer EXCEPT ![tail] = c]
    BY <1>3 DEF PushWrite
  <2>2. Queued < QueueSize - 1
    <3>1. Queued = QueueSize - 1 => Plus(tail, 1) = head
      BY <1>t, <1>r, SizeType DEF Plus
    <3> QED
      BY <1>t, <2>1, <3>1, AfterPlus, SizeType DEF Full
  <2>3. \A k \in 0 .. Queued - 1 : buffer'[Plus(head, k)] = buffer[Plus(head, k)]
    <3> SUFFICES ASSUME NEW k \in 0 .. Queued - 1
                 PROVE  buffer'[Plus(head, k)] = buffer[Plus(head, k)]
      OBVIOUS
    <3>1. Plus(head, k) # tail
      <4>1. /\ k \in 0 .. QueueSize - 1 /\ Queued \in 0 .. QueueSize - 1 /\ k # Queued
        BY <1>t, SizeType
      <4> QED
        BY <4>1, <1>t, <1>r, PlusApart
    <3> QED
      BY <2>1, <3>1, <1>t
  <2> QED
    BY <2>1, <2>2, <2>3, <1>t, <1>r DEF RingHolds, Queued
<1>4. CASE PushStore
  <2>1. /\ UNCHANGED <<buffer, head, taken, cmd, tpc>> /\ mpc = "store" /\ mpc' # "store"
        /\ tail' = After(tail) /\ log' = Append(log, buffer[tail])
    BY <1>4 DEF PushStore, StepOver
  <2>2. /\ Len(log') = Len(log) + 1 /\ log'[Len(log) + 1] = buffer[tail]
        /\ \A i \in 1 .. Len(log) : log'[i] = log[i]
    BY <1>t, <2>1, AppendProperties
  <2>3. Queued' = Queued + 1 /\ Queued + 1 \in 0 .. QueueSize - 1
    <3>1. Queued < QueueSize - 1
      BY <1>r, <2>1
    <3>2. Queued' = Len(log) + 1 - taken
      <4>1. Len(log') = Len(log) + 1 /\ taken' = taken /\ Len(log) \in Nat /\ taken \in Nat
        BY <1>t, <2>1, <2>2
      <4> QED
        BY <4>1 DEF Queued
    <3> QED
      BY <1>t, <3>1, <3>2, SizeType
  <2>4. tail' = Plus(head, Queued + 1)
    BY <1>t, <1>r, <2>1, AfterPlus, PlusOn, SizeType
  <2>5. \A k \in 0 .. Queued : buffer[Plus(head, k)] = log'[taken + k + 1]
    <3> SUFFICES ASSUME NEW k \in 0 .. Queued
                 PROVE  buffer[Plus(head, k)] = log'[taken + k + 1]
      OBVIOUS
    <3>1. CASE k = Queued
      BY <3>1, <1>t, <1>r, <2>2
    <3>2. CASE k # Queued
      <4>1. k \in 0 .. Queued - 1 /\ taken + k + 1 \in 1 .. Len(log)
        BY <3>2, <1>t
      <4> QED
        BY <4>1, <1>r, <2>2
    <3> QED
      BY <3>1, <3>2
  <2>6. tpc = "advance" => log'[taken + 1] = log[taken + 1]
    BY <1>t, <1>r, <2>2
  <2>7. taken > 0 => log'[taken] = log[taken]
    BY <1>t, <2>2
  <2>8. \A k \in 0 .. Queued' - 1 : buffer'[Plus(head', k)] = log'[taken' + k + 1]
    BY <1>t, <2>1, <2>3, <2>5
  <2> QED
    BY <1>t, <1>r, <2>1, <2>3, <2>4, <2>6, <2>7, <2>8 DEF RingHolds
<1>5. CASE PopCopy
  <2>1. /\ UNCHANGED <<ring, log, taken, mpc>> /\ cmd' = buffer[head] /\ tpc' = "advance"
        /\ head # tail
    BY <1>5 DEF PopCopy, is_idle
  <2>2. Plus(head, 0) = head
    BY <1>t, SizeType DEF Plus
  <2>3. Queued > 0
    BY <1>t, <1>r, <2>1, <2>2
  <2>4. buffer[head] = log[taken + 1]
    BY <1>t, <1>r, <2>2, <2>3
  <2> QED
    BY <1>t, <1>r, <2>1, <2>3, <2>4 DEF RingHolds, Queued
<1>6. CASE PopAdvance
  <2>1. /\ UNCHANGED <<buffer, tail, log, cmd, mpc>> /\ head' = After(head) /\ taken' = taken + 1
        /\ tpc = "advance" /\ tpc' = "stale"
    BY <1>6 DEF PopAdvance
  <2>2. Queued' = Queued - 1 /\ Queued - 1 \in 0 .. QueueSize - 2
    BY <1>t, <1>r, <2>1, SizeType DEF Queued
  <2>3. head' = Plus(head, 1) /\ tail = Plus(head', Queued - 1)
    BY <1>t, <1>r, <2>1, <2>2, AfterPlus, PlusOn
  <2>4. \A k \in 0 .. Queued' - 1 : buffer'[Plus(head', k)] = log'[taken' + k + 1]
    <3> SUFFICES ASSUME NEW k \in 0 .. Queued' - 1
                 PROVE  buffer[Plus(head', k)] = log[taken + 1 + k + 1]
      BY <2>1
    <3>1. k + 1 \in 0 .. Queued - 1 /\ k \in 0 .. QueueSize - 2 /\ taken + (k + 1) + 1 = taken + 1 + k + 1
      BY <1>t, <2>2, SizeType
    <3>2. Plus(head', k) = Plus(head, k + 1)
      BY <1>t, <2>3, <3>1, PlusOn
    <3> QED
      BY <1>r, <3>1, <3>2
  <2> QED
    <3>1. Queued' \in 0 .. QueueSize - 1 /\ (mpc' = "store" => Queued' < QueueSize - 1)
      BY <1>r, <2>1, <2>2, SizeType
    <3>2. taken' > 0 /\ cmd' = log'[taken']
      BY <1>t, <1>r, <2>1
    <3> QED
      BY <2>1, <2>2, <2>3, <2>4, <3>1, <3>2 DEF RingHolds
<1> QED
  BY <1>1, <1>2, <1>3, <1>4, <1>5, <1>6, NextSplit, KeepsRing

LEMMA CallStep == TypeOK /\ CallTells /\ [Next]_vars => CallTells'
<1> SUFFICES ASSUME TypeOK, CallTells, [Next]_vars PROVE CallTells'
  OBVIOUS
<1>t. /\ job \in Nat /\ at \in Nat /\ steps \in Seq(Kinds) /\ Len(steps) \in Nat
      /\ tail \in Slots /\ buffer \in [Slots -> Commands]
      /\ log \in Seq(Commands) /\ Len(log) \in Nat
  BY TypeParts, LenProperties DEF CallTypes, RingTypes
<1>1. CASE RingKept
  BY <1>1 DEF RingKept, CallTells, Pushing
<1>2. CASE PopCopy \/ PopAdvance
  BY <1>2 DEF PopCopy, PopAdvance, CallTells, Pushing
<1>3. CASE NewCall
  <2>1. PICK m \in {"procedure", "primary", "chain"}, p \in Words : Issue(m, p)
    BY <1>3 DEF NewCall
  <2>2. /\ job' = job + 1 /\ mode' = m /\ steps' = p /\ at' = 1 /\ mpc' = "push"
        /\ chained' = IF m = "chain" THEN chained \union {job + 1} ELSE chained
    BY <2>1 DEF Issue
  <2>3. job + 1 \notin chained
    BY <1>t DEF CallTells
  <2>4. job' \in chained' <=> mode' = "chain"
    BY <2>2, <2>3
  <2>5. chained' \subseteq 1 .. job'
    BY <1>t, <2>2 DEF CallTells
  <2> QED
    BY <2>2, <2>4, <2>5, WordType DEF CallTells, Pushing
<1>4. CASE PushWrite
  <2>1. /\ mpc = "push" /\ mpc' = "store"
        /\ buffer' = [buffer EXCEPT ![tail] =
              [job |-> job, step |-> at, kind |-> steps[at],
               epoch |-> IF mode = "chain" THEN current_motor_epoch ELSE call_epoch]]
        /\ UNCHANGED <<tail, log, chained, job, mode, steps, at, call_epoch>>
    BY <1>4 DEF PushWrite
  <2>2. /\ buffer'[tail].job = job /\ buffer'[tail].step = at
        /\ mode # "chain" => buffer'[tail].epoch = call_epoch
    BY <1>t, <2>1
  <2> QED
    BY <2>1, <2>2 DEF CallTells, Pushing
<1>5. CASE PushStore
  <2>1. /\ mpc = "store" /\ log' = Append(log, buffer[tail]) /\ at' = at + 1
        /\ mpc' # "store" /\ (mpc' = "push" => at < Len(steps))
        /\ UNCHANGED <<buffer, chained, job, mode, steps, call_epoch>>
    BY <1>5 DEF PushStore, StepOver
  <2>2. buffer[tail] \in Commands
    BY <1>t
  <2>3. Len(log') = Len(log) + 1 /\ log'[Len(log) + 1] = buffer[tail]
    BY <1>t, <2>1, <2>2, AppendProperties
  <2>4. Len(log') > 0 /\ log'[Len(log')] = buffer[tail] /\ at' - 1 = at
    BY <1>t, <2>1, <2>3
  <2>5. mpc' = "push" => at' <= Len(steps)
    BY <1>t, <2>1
  <2> QED
    BY <2>1, <2>4, <2>5 DEF CallTells, Pushing
<1>6. CASE PushDropped
  <2>1. /\ mpc = "push" /\ at' = at + 1 /\ mode = "chain"
        /\ mpc' # "store" /\ (mpc' = "push" => at < Len(steps))
        /\ UNCHANGED <<buffer, tail, log, chained, job, mode, steps, call_epoch>>
    BY <1>6 DEF PushDropped, StepOver
  <2>2. mpc' = "push" => at' <= Len(steps)
    BY <1>t, <2>1
  <2> QED
    BY <2>1, <2>2 DEF CallTells, Pushing
<1> QED
  BY <1>1, <1>2, <1>3, <1>4, <1>5, <1>6, NextSplit, KeepsRing

----------------------------------------------------------------------------
(***************************************************************************)
(* Epochs                                                                   *)
(***************************************************************************)
LEMMA EpochFacts ==
    ASSUME TypeOK
    PROVE  /\ current_motor_epoch \in Nat /\ call_epoch \in Nat /\ cmd.epoch \in Nat
           /\ cmd.job \in Nat /\ cmd.step \in Nat /\ cmd.kind \in Kinds
           /\ log \in Seq(Commands) /\ Len(log) \in Nat /\ taken \in 0 .. Len(log)
           /\ \A i \in 1 .. Len(log) : log[i].epoch \in Nat /\ log[i].step \in Nat
           /\ \A i \in Slots : buffer[i] \in Commands /\ buffer[i].epoch \in Nat
<1>1. /\ cmd \in Commands /\ log \in Seq(Commands) /\ buffer \in [Slots -> Commands]
      /\ taken \in 0 .. Len(log)
  BY TypeParts DEF RingTypes
<1>2. \A i \in 1 .. Len(log) : log[i] \in Commands
  BY <1>1, ElementOfSeq
<1>3. \A c \in Commands : c.epoch \in Nat /\ c.job \in Nat /\ c.step \in Nat /\ c.kind \in Kinds
  BY DEF Commands
<1> QED
  BY <1>1, <1>2, <1>3, TypeParts, LenProperties DEF CallTypes, ThreadTypes

LEMMA EpochsStep == TypeOK /\ RingHolds /\ EpochsPast /\ [Next]_vars => EpochsPast'
<1> SUFFICES ASSUME TypeOK, RingHolds, EpochsPast, [Next]_vars PROVE EpochsPast'
  OBVIOUS
<1>t. /\ current_motor_epoch \in Nat /\ call_epoch \in Nat /\ cmd.epoch \in Nat
      /\ log \in Seq(Commands) /\ Len(log) \in Nat /\ taken \in 0 .. Len(log)
      /\ \A i \in 1 .. Len(log) : log[i].epoch \in Nat
      /\ \A i \in Slots : buffer[i] \in Commands /\ buffer[i].epoch \in Nat
      /\ tail \in Slots /\ buffer \in [Slots -> Commands]
  BY EpochFacts, RingFacts
<1>e. /\ call_epoch <= current_motor_epoch /\ cmd.epoch <= current_motor_epoch
      /\ mpc = "store" => buffer[tail].epoch <= current_motor_epoch
      /\ \A i \in 1 .. Len(log) : log[i].epoch <= current_motor_epoch
  BY DEF EpochsPast
<1>1. CASE \E t \in {"main", "motor"} : AbortSequence(t)
  <2>1. /\ current_motor_epoch' = current_motor_epoch + 1
        /\ UNCHANGED <<buffer, tail, mpc, call_epoch, cmd, log>>
    BY <1>1 DEF AbortSequence
  <2> QED
    BY <1>t, <1>e, <2>1 DEF EpochsPast
<1>2. CASE NewCall
  <2>1. /\ call_epoch' = current_motor_epoch /\ mpc' = "push"
        /\ UNCHANGED <<current_motor_epoch, cmd, log>>
    BY <1>2 DEF NewCall, Issue
  <2> QED
    BY <1>t, <1>e, <2>1 DEF EpochsPast
<1>3. CASE PushWrite
  <2> DEFINE e == IF mode = "chain" THEN current_motor_epoch ELSE call_epoch
  <2>1. e \in Nat /\ e <= current_motor_epoch
    BY <1>t, <1>e
  <2> HIDE DEF e
  <2>2. /\ buffer' = [buffer EXCEPT ![tail] = [job |-> job, step |-> at, kind |-> steps[at], epoch |-> e]]
        /\ UNCHANGED <<tail, current_motor_epoch, call_epoch, cmd, log>>
    BY <1>3 DEF PushWrite, e
  <2>3. buffer'[tail].epoch = e
    BY <1>t, <2>2
  <2> QED
    BY <1>e, <2>1, <2>2, <2>3 DEF EpochsPast
<1>4. CASE PushStore
  <2>1. /\ mpc = "store" /\ mpc' # "store" /\ log' = Append(log, buffer[tail])
        /\ UNCHANGED <<current_motor_epoch, call_epoch, cmd>>
    BY <1>4 DEF PushStore, StepOver
  <2>2. /\ Len(log') = Len(log) + 1 /\ log'[Len(log) + 1] = buffer[tail]
        /\ \A i \in 1 .. Len(log) : log'[i] = log[i]
    BY <1>t, <2>1, AppendProperties
  <2>3. \A i \in 1 .. Len(log') : log'[i].epoch <= current_motor_epoch
    <3> SUFFICES ASSUME NEW i \in 1 .. Len(log') PROVE log'[i].epoch <= current_motor_epoch
      OBVIOUS
    <3>1. i \in 1 .. Len(log) \/ i = Len(log) + 1
      BY <1>t, <2>2
    <3> QED
      BY <1>e, <2>1, <2>2, <3>1
  <2> QED
    BY <1>e, <2>1, <2>3 DEF EpochsPast
<1>5. CASE PushDropped
  <2>1. mpc' # "store" /\ UNCHANGED <<current_motor_epoch, call_epoch, cmd, log>>
    BY <1>5 DEF PushDropped, StepOver
  <2> QED
    BY <1>e, <2>1 DEF EpochsPast
<1>6. CASE PopCopy
  <2>1. /\ cmd' = buffer[head] /\ tpc' = "advance"
        /\ UNCHANGED <<buffer, tail, mpc, current_motor_epoch, call_epoch, log, taken>>
    BY <1>6 DEF PopCopy
  <2>2. taken + 1 \in 1 .. Len(log) /\ cmd' = log[taken + 1]
    <3>1. RingHolds'
      BY RingStep
    <3>2. Queued' > 0 /\ cmd' = log'[taken' + 1]
      BY <2>1, <3>1 DEF RingHolds
    <3>3. Queued' = Len(log) - taken
      BY <1>t, <2>1 DEF Queued
    <3> QED
      BY <1>t, <2>1, <3>2, <3>3
  <2> QED
    BY <1>e, <2>1, <2>2 DEF EpochsPast
<1>7. CASE PopAdvance
  <2>1. UNCHANGED <<buffer, tail, mpc, current_motor_epoch, call_epoch, cmd, log>>
    BY <1>7 DEF PopAdvance
  <2> QED
    BY <1>e, <2>1 DEF EpochsPast
<1>8. CASE RingKept /\ UNCHANGED current_motor_epoch
  <2>1. /\ mpc' = "store" => mpc = "store"
        /\ UNCHANGED <<buffer, tail, current_motor_epoch, call_epoch, cmd, log>>
    BY <1>8 DEF RingKept
  <2> QED
    BY <1>e, <2>1 DEF EpochsPast
<1>9. MainElse \/ MotorElse \/ User \/ UNCHANGED vars => UNCHANGED current_motor_epoch
  BY DEF MainElse, MotorElse, Drain, Verified, MainAbort, reset_kill_switch, DirectCheck,
         DirectOutput, shutdown, Joined, CheckKillSwitch, MotorStops, LoopEpochCheck, LoopKillCheck,
         TypeEnter, CharEpochCheck, EscCheck, FocusCheck, Send, User
<1> QED
  BY <1>1, <1>2, <1>3, <1>4, <1>5, <1>6, <1>7, <1>8, <1>9, NextSplit, KeepsRing

----------------------------------------------------------------------------
(***************************************************************************)
(* Both stops                                                               *)
(***************************************************************************)
\* What the motor thread alone changes.
ThreadKept == UNCHANGED <<tpc, cmd, left, late>>

LEMMA KeepsThread ==
    PushWrite \/ PushStore \/ PushDropped \/ NewCall \/ MainElse \/ User \/ UNCHANGED vars
        => ThreadKept /\ UNCHANGED current_motor_epoch
<1> USE DEF ThreadKept
<1>1. PushWrite \/ PushStore \/ PushDropped \/ NewCall
          => ThreadKept /\ UNCHANGED current_motor_epoch
  BY DEF PushWrite, PushStore, PushDropped, NewCall, Issue
<1>2. MainElse => ThreadKept /\ UNCHANGED current_motor_epoch
  BY DEF MainElse, Drain, Verified, MainAbort, reset_kill_switch, DirectCheck, DirectOutput,
         CheckKillSwitch, shutdown, Joined
<1>3. User \/ UNCHANGED vars => ThreadKept /\ UNCHANGED current_motor_epoch
  BY DEF User
<1> QED
  BY <1>1, <1>2, <1>3

LEMMA InputsStep == TypeOK /\ InputsLeft /\ [Next]_vars => InputsLeft'
<1> SUFFICES ASSUME TypeOK, InputsLeft, [Next]_vars PROVE InputsLeft'
  OBVIOUS
<1>t. left \in Nat /\ current_indent_level \in Nat /\ Text \in Nat \ {0} /\ cmd.kind \in Kinds
  BY TypeParts, EpochFacts, MotorAssumption DEF ThreadTypes
<1> USE DEF InputsLeft
<1>1. CASE ThreadKept
  BY <1>1 DEF ThreadKept
<1>2. CASE PopCopy \/ PopAdvance \/ MotorStops \/ LoopEpochCheck \/ TypeEnter \/ CharEpochCheck
           \/ FocusCheck
  BY <1>2 DEF PopCopy, PopAdvance, MotorStops, LoopEpochCheck, TypeEnter, CharEpochCheck, FocusCheck
<1>3. CASE LoopKillCheck
  <2>1. Inputs(cmd.kind) > 0
    BY <1>t DEF Inputs, LevelAfter, Kinds
  <2>2. tpc' = "pop" \/ left' = Inputs(cmd.kind)
    BY <1>3 DEF LoopKillCheck
  <2> QED
    BY <2>1, <2>2
<1>4. CASE EscCheck
  BY <1>t, <1>4 DEF EscCheck, NextLook
<1>5. CASE Send
  BY <1>t, <1>5 DEF Send, NextLook
<1>6. CASE \E t \in {"main", "motor"} : AbortSequence(t)
  BY <1>6 DEF AbortSequence
<1> QED
  BY <1>1, <1>2, <1>3, <1>4, <1>5, <1>6, NextSplit, KeepsThread DEF MotorElse

LEMMA LateStep == TypeOK /\ EpochsPast /\ LateTells /\ [Next]_vars => LateTells'
<1> SUFFICES ASSUME TypeOK, EpochsPast, LateTells, [Next]_vars PROVE LateTells'
  OBVIOUS
<1>t. /\ late \in Nat /\ current_motor_epoch \in Nat /\ cmd.epoch \in Nat
      /\ cmd.epoch <= current_motor_epoch
  BY TypeParts, EpochFacts DEF ThreadTypes, EpochsPast
<1> USE DEF LateTells
<1>1. CASE ThreadKept /\ UNCHANGED current_motor_epoch
  BY <1>1 DEF ThreadKept
<1>2. CASE \E t \in {"main", "motor"} : AbortSequence(t)
  <2>1. current_motor_epoch' = current_motor_epoch + 1 /\ UNCHANGED <<tpc, cmd, late>>
    BY <1>2 DEF AbortSequence
  <2> QED
    BY <1>t, <2>1
<1>3. CASE PopCopy
  BY <1>3 DEF PopCopy
<1>4. CASE PopAdvance \/ MotorStops \/ LoopEpochCheck
  BY <1>4 DEF PopAdvance, MotorStops, LoopEpochCheck
<1>5. CASE LoopKillCheck \/ TypeEnter
  BY <1>5 DEF LoopKillCheck, TypeEnter, CheckKillSwitch
<1>6. CASE CharEpochCheck
  BY <1>t, <1>6 DEF CharEpochCheck, Fresh
<1>7. CASE EscCheck \/ FocusCheck
  BY <1>7 DEF EscCheck, FocusCheck, CheckKillSwitch, NextLook
<1>8. CASE Send
  <2>1. /\ tpc = "send" /\ UNCHANGED <<cmd, current_motor_epoch>>
        /\ late' = IF Fresh THEN late ELSE late + 1
        /\ cmd.kind = "string" => tpc' \in {"pop", "epoch"}
    BY <1>8 DEF Send, NextLook
  <2>2. CASE Fresh
    BY <2>1, <2>2
  <2>3. CASE ~Fresh
    BY <1>t, <2>1, <2>3 DEF Fresh
  <2> QED
    BY <2>2, <2>3
<1> QED
  BY <1>1, <1>2, <1>3, <1>4, <1>5, <1>6, <1>7, <1>8, NextSplit, KeepsThread DEF MotorElse

LEMMA KillStep == TypeOK /\ KillTells /\ [Next]_vars => KillTells'
<1> SUFFICES ASSUME TypeOK, KillTells, [Next]_vars PROVE KillTells'
  OBVIOUS
<1>t. afterKill \in Nat
  BY TypeParts DEF ThreadTypes
<1> USE DEF KillTells
<1>1. CASE PushWrite \/ PushStore \/ PushDropped \/ NewCall
  BY <1>1 DEF PushWrite, PushStore, PushDropped, NewCall, Issue
<1>2. CASE Drain(TRUE) \/ Drain(FALSE) \/ Verified \/ MainAbort \/ reset_kill_switch
  BY <1>2 DEF Drain, Verified, MainAbort, reset_kill_switch
<1>3. CASE DirectCheck
  <2>1. afterKill' \in {0, afterKill} /\ tpc' = tpc
    BY <1>3, SwitchLooked DEF DirectCheck
  <2> QED
    BY <2>1
<1>4. CASE DirectOutput \/ shutdown \/ Joined
  BY <1>4 DEF DirectOutput, shutdown, Joined
<1>5. CASE \E t \in {"main", "motor"} : AbortSequence(t)
  BY <1>5 DEF AbortSequence
<1>6. CASE PopCopy \/ PopAdvance \/ MotorStops \/ LoopEpochCheck \/ CharEpochCheck
  BY <1>6 DEF PopCopy, PopAdvance, MotorStops, LoopEpochCheck, CharEpochCheck
<1>7. CASE LoopKillCheck
  <2>1. /\ afterKill' \in {0, afterKill} /\ (~KillSeen => afterKill' = 0)
    BY <1>7, SwitchLooked DEF LoopKillCheck
  <2>2. KillSeen => tpc' = "pop"
    BY <1>7 DEF LoopKillCheck
  <2> QED
    BY <2>1, <2>2
<1>8. CASE TypeEnter
  <2>1. afterKill' \in {0, afterKill} /\ tpc' \in {"pop", "epoch"}
    BY <1>8, SwitchLooked DEF TypeEnter
  <2> QED
    BY <2>1
<1>9. CASE EscCheck
  <2>1. afterKill' \in {0, afterKill} /\ (~KillSeen => afterKill' = 0)
    BY <1>9, SwitchLooked DEF EscCheck
  <2>2. KillSeen => tpc' \in {"pop", "epoch", "esc"}
    BY <1>9 DEF EscCheck, NextLook
  <2> QED
    BY <2>1, <2>2
<1>10. CASE FocusCheck
  BY <1>10 DEF FocusCheck
<1>11. CASE Send
  BY <1>t, <1>11 DEF Send, NextLook
<1>12. CASE User \/ UNCHANGED vars
  BY <1>12 DEF User
<1> QED
  BY <1>1, <1>2, <1>3, <1>4, <1>5, <1>6, <1>7, <1>8, <1>9, <1>10, <1>11, <1>12, NextSplit
     DEF MainElse, MotorElse

----------------------------------------------------------------------------
(***************************************************************************)
(* What runs of a procedure is a beginning of it                            *)
(***************************************************************************)
\* What is known of the command that waits for its checks.
LEMMA CommandFacts ==
    ASSUME TypeOK, RingHolds
    PROVE  /\ tpc \in {"stale", "kill"} => taken \in 1 .. Len(log) /\ cmd = log[taken]
           /\ Through \in 0 .. Len(log) \/ Through = -1
           /\ tpc \in {"stale", "kill"} => Through = taken - 1
           /\ tpc \notin {"stale", "kill"} => Through = taken
<1>1. /\ taken \in 0 .. Len(log) /\ Len(log) \in Nat
      /\ tpc \in {"stale", "kill"} => taken > 0 /\ cmd = log[taken]
  BY RingFacts, TypeParts DEF RingHolds, RingTypes
<1> QED
  BY <1>1 DEF Through

LEMMA OrderKept ==
    CallsInOrder /\ [Next]_vars /\ TypeOK /\ CallTells => CallsInOrder'
<1> SUFFICES ASSUME CallsInOrder, [Next]_vars, TypeOK, CallTells PROVE CallsInOrder'
  OBVIOUS
<1>t. log \in Seq(Commands) /\ Len(log) \in Nat /\ tail \in Slots /\ buffer \in [Slots -> Commands]
  BY TypeParts, LenProperties DEF RingTypes
<1>1. CASE UNCHANGED <<log, chained>>
  BY <1>1 DEF CallsInOrder
<1>2. CASE NewCall
  <2>1. log' = log /\ chained \subseteq chained'
    BY <1>2 DEF NewCall, Issue
  <2> QED
    BY <2>1 DEF CallsInOrder
<1>3. CASE PushStore
  <2>1. log' = Append(log, buffer[tail]) /\ chained' = chained /\ mpc = "store"
    BY <1>3 DEF PushStore
  <2>2. buffer[tail] \in Commands
    BY <1>t
  <2>3. /\ Len(log') = Len(log) + 1 /\ log'[Len(log) + 1] = buffer[tail]
        /\ \A i \in 1 .. Len(log) : log'[i] = log[i]
    BY <1>t, <2>1, <2>2, AppendProperties
  <2> SUFFICES ASSUME NEW i \in 1 .. Len(log'), log'[i].job \notin chained, log'[i].step > 1
               PROVE  /\ i > 1
                      /\ log'[i - 1].job = log'[i].job /\ log'[i - 1].step = log'[i].step - 1
                      /\ log'[i - 1].epoch = log'[i].epoch
    BY <2>1 DEF CallsInOrder
  <2>4. CASE i \in 1 .. Len(log)
    <3>1. i > 1 /\ log[i - 1].job = log[i].job /\ log[i - 1].step = log[i].step - 1
          /\ log[i - 1].epoch = log[i].epoch /\ log'[i] = log[i]
      BY <2>3, <2>4 DEF CallsInOrder
    <3>2. i - 1 \in 1 .. Len(log)
      BY <1>t, <2>4, <3>1
    <3> QED
      BY <2>3, <3>1, <3>2
  <2>5. CASE i = Len(log) + 1
    <3>1. log'[i] = buffer[tail] /\ buffer[tail].job = job /\ buffer[tail].step = at
      BY <2>1, <2>3, <2>5 DEF CallTells
    <3>2. /\ Len(log) > 0 /\ log[Len(log)].job = job /\ log[Len(log)].step = at - 1
          /\ log[Len(log)].epoch = call_epoch /\ buffer[tail].epoch = call_epoch
      BY <2>1, <3>1 DEF CallTells, Pushing
    <3>3. i - 1 = Len(log) /\ log'[Len(log)] = log[Len(log)] /\ i > 1
      BY <1>t, <2>3, <2>5, <3>2
    <3> QED
      BY <3>1, <3>2, <3>3
  <2> QED
    BY <1>t, <2>3, <2>4, <2>5
<1>4. PushWrite \/ PushDropped \/ PopCopy \/ PopAdvance => UNCHANGED <<log, chained>>
  BY DEF PushWrite, PushDropped, PopCopy, PopAdvance
<1>5. RingKept => UNCHANGED <<log, chained>>
  BY DEF RingKept
<1> QED
  BY <1>1, <1>2, <1>3, <1>4, <1>5, NextSplit, KeepsRing

\* Only the loop's own checks bring a command before the kill switch or through.
ChecksKept ==
    /\ UNCHANGED <<log, taken, cmd, begun, current_motor_epoch>>
    /\ owed'["motor"] = 0 => owed["motor"] = 0
    /\ chained \subseteq chained'
    /\ tpc' = tpc \/ {tpc, tpc'} \intersect {"stale", "kill"} = {}

LEMMA KeepsChecks ==
    TypeOK /\ (PushWrite \/ PushDropped \/ NewCall \/ MainElse \/ MotorElse \/ User \/ UNCHANGED vars)
        => ChecksKept \/ LoopEpochCheck \/ LoopKillCheck
<1> SUFFICES ASSUME TypeOK, \/ PushWrite \/ PushDropped \/ NewCall \/ MainElse \/ MotorElse
                            \/ User \/ UNCHANGED vars
             PROVE  ChecksKept \/ LoopEpochCheck \/ LoopKillCheck
  OBVIOUS
<1>t. owed \in [{"main", "motor"} -> 0 .. 2]
  BY TypeParts DEF ThreadTypes
<1> USE DEF ChecksKept
<1>1. CASE PushWrite \/ PushDropped \/ NewCall
  BY <1>1 DEF PushWrite, PushDropped, NewCall, Issue
<1>2. CASE Drain(TRUE) \/ Drain(FALSE) \/ Verified \/ reset_kill_switch
  BY <1>2 DEF Drain, Verified, reset_kill_switch
<1>3. CASE MainAbort
  BY <1>t, <1>3 DEF MainAbort
<1>4. CASE DirectCheck
  <2>1. owed'["motor"] = owed["motor"] /\ current_motor_epoch' = current_motor_epoch
    BY <1>4, SwitchLooked DEF DirectCheck
  <2> QED
    BY <1>4, <2>1 DEF DirectCheck
<1>5. CASE DirectOutput \/ shutdown \/ Joined
  BY <1>5 DEF DirectOutput, shutdown, Joined
<1>6. CASE MotorStops \/ CharEpochCheck \/ FocusCheck
  BY <1>6 DEF MotorStops, CharEpochCheck, FocusCheck
<1>7. CASE TypeEnter \/ EscCheck
  BY <1>7 DEF TypeEnter, EscCheck, CheckKillSwitch, NextLook
<1>8. CASE Send
  BY <1>8 DEF Send, NextLook
<1>9. CASE User \/ UNCHANGED vars
  BY <1>9 DEF User
<1> QED
  BY <1>1, <1>2, <1>3, <1>4, <1>5, <1>6, <1>7, <1>8, <1>9 DEF MainElse, MotorElse

LEMMA BeginStep ==
    TypeOK /\ RingHolds /\ EpochsPast /\ OrderInv /\ [Next]_vars
        => FreshBegan' /\ KillReady' /\ StepsRunInPrefix'
<1> SUFFICES ASSUME TypeOK, RingHolds, EpochsPast, OrderInv, [Next]_vars
             PROVE  FreshBegan' /\ KillReady' /\ StepsRunInPrefix'
  OBVIOUS
<1>t. /\ log \in Seq(Commands) /\ Len(log) \in Nat /\ taken \in 0 .. Len(log)
      /\ current_motor_epoch \in Nat /\ cmd.step \in Nat
      /\ \A i \in 1 .. Len(log) : log[i].epoch \in Nat
  BY EpochFacts
<1>c. /\ tpc \in {"stale", "kill"} => taken \in 1 .. Len(log) /\ cmd = log[taken]
      /\ tpc \in {"stale", "kill"} => Through = taken - 1
      /\ tpc \notin {"stale", "kill"} => Through = taken
  BY CommandFacts
<1>o. CallsInOrder /\ FreshBegan /\ KillReady /\ StepsRunInPrefix
  BY DEF OrderInv
<1>1. CASE ChecksKept
  <2>1. Through' = Through
    BY <1>1 DEF ChecksKept, Through
  <2>2. FreshBegan'
    BY <1>1, <1>o, <2>1 DEF ChecksKept, FreshBegan
  <2>3. KillReady' /\ StepsRunInPrefix'
    BY <1>1, <1>o DEF ChecksKept, KillReady, StepsRunInPrefix
  <2> QED
    BY <2>2, <2>3
<1>2. CASE PushStore
  <2>1. /\ log' = Append(log, buffer[tail])
        /\ UNCHANGED <<taken, cmd, begun, chained, current_motor_epoch, owed, tpc>>
    BY <1>2 DEF PushStore
  <2>2. buffer[tail] \in Commands
    BY RingFacts
  <2>3. \A i \in 1 .. Len(log) : log'[i] = log[i]
    BY <1>t, <2>1, <2>2, AppendProperties
  <2>4. Through' = Through /\ \A i \in 1 .. Through : i \in 1 .. Len(log)
    BY <1>t, <1>c, <2>1 DEF Through
  <2>5. FreshBegan'
    BY <1>o, <2>1, <2>3, <2>4 DEF FreshBegan
  <2> QED
    BY <1>o, <2>1, <2>5 DEF KillReady, StepsRunInPrefix
<1>3. CASE \E t \in {"main", "motor"} : AbortSequence(t)
  <2>1. /\ current_motor_epoch' = current_motor_epoch + 1
        /\ UNCHANGED <<log, taken, cmd, begun, chained, tpc>>
    BY <1>3 DEF AbortSequence
  <2>2. Through' = Through /\ \A i \in 1 .. Through : i \in 1 .. Len(log)
    BY <1>t, <1>c, <2>1 DEF Through
  <2>3. \A i \in 1 .. Len(log) : log[i].epoch # current_motor_epoch'
    BY <1>t, <2>1 DEF EpochsPast
  <2>4. FreshBegan'
    BY <2>1, <2>2, <2>3 DEF FreshBegan
  <2> QED
    BY <1>o, <2>1, <2>4 DEF KillReady, StepsRunInPrefix
<1>4. CASE PopCopy \/ PopAdvance
  <2>1. /\ UNCHANGED <<log, begun, chained, current_motor_epoch, owed>>
        /\ tpc \notin {"stale", "kill"} /\ tpc' # "kill"
        /\ \/ tpc' = "stale" /\ taken' = taken + 1
           \/ tpc' # "stale" /\ taken' = taken
    BY <1>4 DEF PopCopy, PopAdvance
  <2>2. Through' = Through
    BY <1>t, <1>c, <2>1 DEF Through
  <2>3. FreshBegan'
    BY <1>o, <2>1, <2>2 DEF FreshBegan
  <2> QED
    BY <1>o, <2>1, <2>3 DEF KillReady, StepsRunInPrefix
<1>5. CASE LoopEpochCheck
  <2>1. /\ tpc = "stale" /\ owed["motor"] = 0 /\ tpc' = IF Fresh THEN "kill" ELSE "pop"
        /\ UNCHANGED <<log, taken, cmd, begun, chained, current_motor_epoch, owed>>
    BY <1>5 DEF LoopEpochCheck
  <2>2. taken \in 1 .. Len(log) /\ cmd = log[taken] /\ Through = taken - 1
    BY <1>c, <2>1
  <2>3. \A i \in 1 .. taken - 1 :
            log[i].epoch = current_motor_epoch => <<log[i].job, log[i].step>> \in begun
    BY <1>o, <2>1, <2>2 DEF FreshBegan
  <2>4. CASE Fresh
    <3>1. tpc' = "kill" /\ Through' = taken - 1
      BY <2>1, <2>4 DEF Through
    <3>2. FreshBegan'
      BY <2>1, <2>3, <3>1 DEF FreshBegan
    <3>3. ASSUME cmd.job \notin chained, cmd.step > 1
          PROVE  <<cmd.job, cmd.step - 1>> \in begun
      <4>1. /\ taken > 1 /\ log[taken - 1].job = cmd.job /\ log[taken - 1].step = cmd.step - 1
            /\ log[taken - 1].epoch = cmd.epoch
        BY <1>o, <2>2, <3>3 DEF CallsInOrder
      <4>2. taken - 1 \in 1 .. taken - 1 /\ cmd.epoch = current_motor_epoch
        BY <1>t, <2>4, <4>1 DEF Fresh
      <4> QED
        BY <2>3, <4>1, <4>2
    <3> QED
      BY <1>o, <2>1, <3>2, <3>3 DEF KillReady, StepsRunInPrefix
  <2>5. CASE ~Fresh
    <3>1. tpc' = "pop" /\ Through' = taken
      BY <2>1, <2>5 DEF Through
    <3>2. \A i \in 1 .. taken :
            log[i].epoch = current_motor_epoch => <<log[i].job, log[i].step>> \in begun
      <4> SUFFICES ASSUME NEW i \in 1 .. taken, log[i].epoch = current_motor_epoch
                   PROVE  <<log[i].job, log[i].step>> \in begun
        OBVIOUS
      <4>1. i # taken
        BY <2>2, <2>5 DEF Fresh
      <4>2. i \in 1 .. taken - 1
        BY <1>t, <4>1
      <4> QED
        BY <2>3, <4>2
    <3> QED
      BY <1>o, <2>1, <3>1, <3>2 DEF FreshBegan, KillReady, StepsRunInPrefix
  <2> QED
    BY <2>4, <2>5
<1>6. CASE LoopKillCheck
  <2>1. /\ tpc = "kill" /\ owed["motor"] = 0 /\ CheckKillSwitch("motor", 1)
        /\ UNCHANGED <<log, taken, cmd, chained>>
    BY <1>6 DEF LoopKillCheck
  <2>2. current_motor_epoch' = current_motor_epoch /\ (KillSeen => owed'["motor"] > 0)
    BY <2>1, SwitchLooked
  <2>3. taken \in 1 .. Len(log) /\ cmd = log[taken] /\ Through = taken - 1
    BY <1>c, <2>1
  <2>4. CASE KillSeen
    <3>1. tpc' = "pop" /\ begun' = begun
      BY <1>6, <2>4 DEF LoopKillCheck
    <3>2. owed'["motor"] # 0
      <4>1. owed' \in [{"main", "motor"} -> 0 .. 2]
        BY <2>1, SwitchLooked
      <4> QED
        BY <2>2, <2>4, <4>1
    <3> QED
      BY <1>o, <2>1, <3>1, <3>2 DEF FreshBegan, KillReady, StepsRunInPrefix
  <2>5. CASE ~KillSeen
    <3>1. tpc' \notin {"stale", "kill"} /\ begun' = begun \union {<<cmd.job, cmd.step>>}
      BY <1>6, <2>5 DEF LoopKillCheck, FirstLook
    <3>2. Through' = taken
      BY <2>1, <3>1 DEF Through
    <3>3. \A i \in 1 .. taken :
            log[i].epoch = current_motor_epoch => <<log[i].job, log[i].step>> \in begun'
      <4> SUFFICES ASSUME NEW i \in 1 .. taken, log[i].epoch = current_motor_epoch
                   PROVE  <<log[i].job, log[i].step>> \in begun'
        OBVIOUS
      <4>1. CASE i = taken
        BY <2>3, <3>1, <4>1
      <4>2. CASE i # taken
        <5>1. i \in 1 .. Through
          BY <1>t, <2>3, <4>2
        <5> QED
          BY <1>o, <2>1, <3>1, <5>1 DEF FreshBegan
      <4> QED
        BY <4>1, <4>2
    <3>4. StepsRunInPrefix'
      <4> SUFFICES ASSUME NEW pair \in begun', pair[1] \notin chained, pair[2] > 1
                   PROVE  <<pair[1], pair[2] - 1>> \in begun'
        BY <2>1 DEF StepsRunInPrefix
      <4>1. CASE pair \in begun
        BY <1>o, <3>1, <4>1 DEF StepsRunInPrefix
      <4>2. CASE pair = <<cmd.job, cmd.step>>
        BY <1>o, <2>1, <3>1, <4>2 DEF KillReady
      <4> QED
        BY <3>1, <4>1, <4>2
    <3> QED
      BY <2>1, <2>2, <3>1, <3>2, <3>3, <3>4 DEF FreshBegan, KillReady
  <2> QED
    BY <2>4, <2>5
<1> QED
  BY <1>1, <1>2, <1>3, <1>4, <1>5, <1>6, NextSplit, KeepsChecks

----------------------------------------------------------------------------
(***************************************************************************)
(* The theorems                                                             *)
(***************************************************************************)
LEMMA InitInv == Init => MotorInv
<1> SUFFICES ASSUME Init PROVE MotorInv
  OBVIOUS
<1> USE DEF Init
<1>c. NoCmd \in Commands /\ NoCmd.epoch = 0 /\ NoCmd.kind = "key" /\ NoCmd.job = 0 /\ NoCmd.step = 0
  BY DEF NoCmd, Commands, Kinds
<1>s. <<>> \in Seq(Commands) /\ <<>> \in Seq(Kinds) /\ Len(<<>>) = 0
  BY EmptySeq
<1> HIDE DEF NoCmd
<1>1. RingTypes
  BY <1>c, <1>s, SizeType DEF RingTypes
<1>2. CallTypes
  BY <1>s DEF CallTypes
<1>3. ThreadTypes
  BY MotorAssumption DEF ThreadTypes
<1>4. FlagTypes
  BY DEF FlagTypes
<1>5. TypeOK
  BY <1>1, <1>2, <1>3, <1>4, TypeParts, Zenon
<1>6. RingHolds
  BY <1>s, SizeType DEF RingHolds, Queued, Plus
<1>7. CallTells /\ EpochsPast
  BY <1>c, <1>s DEF CallTells, Pushing, EpochsPast
<1>8. InputsLeft /\ LateTells /\ KillTells
  BY DEF InputsLeft, LateTells, KillTells
<1>9. OrderInv
  BY <1>s DEF OrderInv, CallsInOrder, FreshBegan, Through, KillReady, StepsRunInPrefix
<1> QED
  BY <1>5, <1>6, <1>7, <1>8, <1>9 DEF MotorInv

THEOREM MotorInvariant == Spec => []MotorInv
<1>1. MotorInv /\ [Next]_vars => MotorInv'
  <2> SUFFICES ASSUME MotorInv, [Next]_vars PROVE MotorInv'
    OBVIOUS
  <2>1. /\ TypeOK /\ RingHolds /\ CallTells /\ EpochsPast
        /\ InputsLeft /\ LateTells /\ KillTells /\ OrderInv /\ CallsInOrder
    BY DEF MotorInv, OrderInv
  <2>2. TypeOK' /\ RingHolds' /\ CallTells' /\ EpochsPast'
    BY <2>1, TypeStep, RingStep, CallStep, EpochsStep, Zenon
  <2>3. InputsLeft' /\ LateTells' /\ KillTells'
    BY <2>1, InputsStep, LateStep, KillStep, Zenon
  <2>4. CallsInOrder' /\ FreshBegan' /\ KillReady' /\ StepsRunInPrefix'
    BY <2>1, OrderKept, BeginStep, Zenon
  <2> QED
    BY <2>2, <2>3, <2>4 DEF MotorInv, OrderInv
<1> QED
  BY <1>1, InitInv, PTL DEF Spec

\* Every variable of the two threads keeps its type.
THEOREM TypeCorrect == Spec => []TypeOK
<1>1. MotorInv => TypeOK
  BY DEF MotorInv
<1> QED
  BY <1>1, MotorInvariant, PTL

\* The motor thread gets every command once, whole and in the order of the pushes,
\* and the slot being written is never the one being copied: CommandsArriveWhole.
THEOREM CommandsWhole == Spec => []CommandsArriveWhole
<1>1. MotorInv => CommandsArriveWhole
  <2> SUFFICES ASSUME TypeOK, RingHolds PROVE CommandsArriveWhole
    BY DEF MotorInv
  <2>1. head \in Slots /\ Queued \in 0 .. QueueSize - 1 /\ tail = Plus(head, Queued)
    BY RingFacts DEF RingHolds
  <2>2. (tail - head) % QueueSize = Queued
    BY <2>1, Distance
  <2>3. tpc = "advance" => tail # head
    <3>1. Plus(head, 0) = head
      BY <2>1, SizeType DEF Plus
    <3>2. tpc = "advance" => Queued # 0
      BY <2>1 DEF RingHolds
    <3>3. 0 \in 0 .. QueueSize - 1
      BY SizeType
    <3> QED
      BY <2>1, <3>1, <3>2, <3>3, PlusApart
  <2> QED
    BY <2>2, <2>3 DEF RingHolds, CommandsArriveWhole, Queued
<1> QED
  BY <1>1, MotorInvariant, PTL

\* An aborted string, and a thrown kill switch, let at most the one input through
\* that was already decided on, whatever the text's length: StopsInTime.
THEOREM BothStopsInTime == Spec => []StopsInTime
<1>1. MotorInv => StopsInTime
  BY DEF MotorInv, LateTells, KillTells, StopsInTime, TypingStopsOnAbort, KillHalts
<1> QED
  BY <1>1, MotorInvariant, PTL

\* What runs of a procedure is a beginning of it, wherever aborts and the kill
\* switch strike between its pushes and its pops: StepsRunInPrefix.
THEOREM PrefixRuns == Spec => []StepsRunInPrefix
<1>1. MotorInv => StepsRunInPrefix
  BY DEF MotorInv, OrderInv
<1> QED
  BY <1>1, MotorInvariant, PTL
=============================================================================

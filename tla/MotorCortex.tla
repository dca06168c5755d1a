----------------------------- MODULE MotorCortex -----------------------------
(***************************************************************************)
(* The motor cortex of core/fpsan_motor.h: the main loop pushes motor       *)
(* commands on a single-producer single-consumer ring, the motor thread     *)
(* pops them and sends the keyboard input they stand for. An abort makes    *)
(* every command issued before it stale by incrementing an epoch; the ESC   *)
(* key is a kill switch both threads look at.                               *)
(*                                                                          *)
(* Kinds of command: "key" is every primitive that checks the kill switch   *)
(* once and then sends (key, chord, launch, focus, click, HTTP), "string"   *)
(* is typed text, "start" and "end" are the code-block commands.            *)
(***************************************************************************)
EXTENDS Integers, Sequences

CONSTANTS QueueSize,   \* MOTOR_QUEUE_SIZE: slots of the ring, one of them unused
          Procedures,  \* step sequences bootstrap_procedures() registered, and
                       \* what queue_string() and queue_key() cut their text into
          Chains,      \* motor chains the goal pursuit finds in the graph
          Text,        \* characters in a "string" command
          MaxJobs,     \* bound: calls that queue commands, fallbacks not counted
          MaxPresses,  \* bound: ESC pressed
          MaxAborts,   \* bound: aborts by the main loop
          MaxResets    \* bound: resets of the kill switch

Kinds == {"key", "string", "start", "end"}

\* A procedure has steps: one without queues nothing.
ASSUME MotorAssumption ==
    /\ QueueSize \in Nat /\ QueueSize > 1
    /\ \A p \in Procedures \union Chains : p \in Seq(Kinds) /\ p # <<>>
    /\ Text \in Nat \ {0}
    /\ MaxJobs \in Nat /\ MaxPresses \in Nat /\ MaxAborts \in Nat /\ MaxResets \in Nat

VARIABLES
    buffer, head, tail,       \* the ring
    current_motor_epoch, killed, current_indent_level, thread_running,
    g_motor_focus_aborts,
    mpc, job, mode, steps, at, call_epoch, drained,  \* the main loop's call
    tpc, cmd, left,                                  \* the motor thread
    owed,     \* abort_sequence() calls each thread has decided on and not made
    esc,                      \* is ESC held?
    on_target,                \* is the window focused that had the focus when the
                              \* string being typed began? (else TRUE)
    log, taken,               \* history: commands pushed; how many were popped
    begun,                    \* history: <<job, step>> pairs that began
    chained,                  \* history: jobs that are chains of the goal pursuit
    late, afterKill,          \* history: see TypingStopsOnAbort, KillHalts
    presses, aborts, resets   \* counters for the bounds

ring == <<buffer, head, tail>>
main == <<mpc, job, mode, steps, at, call_epoch, drained>>
motor == <<tpc, cmd, left, current_indent_level, g_motor_focus_aborts>>
switch == <<current_motor_epoch, killed, owed>>
world == <<esc, on_target, presses>>
bounds == <<aborts, resets>>
history == <<log, taken, begun, chained, late, afterKill>>
vars == <<ring, main, motor, switch, thread_running, world, history, bounds>>

Slots == 0 .. QueueSize - 1
After(i) == (i + 1) % QueueSize
NoCmd == [job |-> 0, step |-> 0, kind |-> "key", epoch |-> 0]

----------------------------------------------------------------------------
Init ==
    /\ buffer = [i \in Slots |-> NoCmd] /\ head = 0 /\ tail = 0
    /\ current_motor_epoch = 1 /\ killed = FALSE
    /\ owed = [t \in {"main", "motor"} |-> 0]
    /\ current_indent_level = 0 /\ thread_running = TRUE
    /\ g_motor_focus_aborts = 0
    /\ mpc = "idle" /\ job = 0 /\ mode = "procedure" /\ steps = <<>> /\ at = 1
    /\ call_epoch = 0 /\ drained = FALSE
    /\ tpc = "pop" /\ cmd = NoCmd /\ left = 0
    /\ esc = FALSE /\ on_target = TRUE
    /\ log = <<>> /\ taken = 0 /\ begun = {} /\ chained = {} /\ late = 0 /\ afterKill = 0
    /\ presses = 0 /\ aborts = 0 /\ resets = 0

\* abort_sequence(): the epoch moves on.
AbortSequence(t) ==
    /\ owed[t] > 0
    /\ owed' = [owed EXCEPT ![t] = @ - 1]
    /\ current_motor_epoch' = current_motor_epoch + 1
    /\ UNCHANGED <<ring, main, motor, killed, thread_running, world, history, bounds>>

\* check_kill_switch(): with ESC held and the switch not yet thrown, throw it
\* and abort; extra is what the caller aborts on top when it returns true.
KillSeen == esc \/ killed
CheckKillSwitch(t, extra) ==
    /\ killed' = KillSeen
    /\ owed' = [owed EXCEPT ![t] = (IF esc /\ ~killed THEN 1 ELSE 0)
                                 + (IF KillSeen THEN extra ELSE 0)]
    /\ afterKill' = IF killed THEN afterKill ELSE 0
    /\ UNCHANGED current_motor_epoch

----------------------------------------------------------------------------
(***************************************************************************)
(* The main loop's calls                                                    *)
(***************************************************************************)
MainAt(label) == mpc = label /\ owed["main"] = 0

\* A call that queues commands. Each but the goal pursuit's takes the epoch
\* once; "primary" is execute_procedure_with_fallback().
Issue(m, p) ==
    /\ job' = job + 1
    /\ mode' = m
    /\ steps' = p
    /\ at' = 1
    /\ call_epoch' = current_motor_epoch
    /\ mpc' = "push"
    /\ chained' = IF m = "chain" THEN chained \union {job + 1} ELSE chained
    /\ UNCHANGED <<drained, log, taken, begun, late, afterKill>>

Submit(m, p) ==
    /\ MainAt("idle")
    /\ job < MaxJobs
    /\ Issue(m, p)
    /\ UNCHANGED <<ring, motor, switch, thread_running, world, bounds>>

\* The goal pursuit queues a chain only when is_idle(); queue_action() takes
\* the epoch anew for every command.
is_idle == head = tail
Pursue(p) == is_idle /\ Submit("chain", p)

\* Slips (operators named ...Slip, here and below): one change to the definition
\* each of them precedes that a property must not survive. Spec uses none.
FullSlip == Len(log) - taken = QueueSize            \* uses the last slot too

\* MotorQueue::push up to the store of tail.
Full == After(tail) = head
PushWriteSlip ==                                    \* the epoch anew for each step
    /\ MainAt("push")
    /\ ~Full
    /\ buffer' = [buffer EXCEPT ![tail] =
           [job |-> job, step |-> at, kind |-> steps[at],
            epoch |-> current_motor_epoch]]
    /\ mpc' = "store"
    /\ UNCHANGED <<head, tail, job, mode, steps, at, call_epoch, drained, motor, switch,
                   thread_running, world, history, bounds>>

PushWrite ==
    /\ MainAt("push")
    /\ ~Full
    /\ buffer' = [buffer EXCEPT ![tail] =
           [job |-> job, step |-> at, kind |-> steps[at],
            epoch |-> IF mode = "chain" THEN current_motor_epoch ELSE call_epoch]]
    /\ mpc' = "store"
    /\ UNCHANGED <<head, tail, job, mode, steps, at, call_epoch, drained, motor, switch,
                   thread_running, world, history, bounds>>

\* The step is done with: the next one, or the end of the loop.
StepOver ==
    /\ at' = at + 1
    /\ mpc' = IF at < Len(steps) THEN "push"
              ELSE IF mode = "primary" THEN "drain" ELSE "idle"
    /\ UNCHANGED <<job, mode, steps, call_epoch, drained>>

PushStore ==
    /\ MainAt("store")
    /\ tail' = After(tail)
    /\ log' = Append(log, buffer[tail])
    /\ StepOver
    /\ UNCHANGED <<buffer, head, motor, switch, thread_running, world,
                   taken, begun, chained, late, afterKill, bounds>>

\* queue_action() returns false, which nobody looks at. (The other calls sleep
\* and try again.)
PushDropped ==
    /\ MainAt("push")
    /\ mode = "chain"
    /\ Full
    /\ StepOver
    /\ UNCHANGED <<ring, motor, switch, thread_running, world, history, bounds>>

\* The wait for the queue to drain ends: it is idle, or the time is up.
Drain(idle) ==
    /\ MainAt("drain")
    /\ idle => is_idle
    /\ drained' = idle
    /\ mpc' = "verify"
    /\ UNCHANGED <<ring, job, mode, steps, at, call_epoch, motor, switch, thread_running,
                   world, history, bounds>>

\* The target window is in the foreground, or it is not and the fallback
\* procedure is queued under an epoch of its own.
Verified ==
    /\ MainAt("verify")
    /\ mpc' = "idle"
    /\ UNCHANGED <<ring, job, mode, steps, at, call_epoch, drained, motor, switch,
                   thread_running, world, history, bounds>>

FallBack(p) ==
    /\ MainAt("verify")
    /\ Issue("procedure", p)
    /\ UNCHANGED <<ring, motor, switch, thread_running, world, bounds>>

\* The main loop aborts: the target window was lost or never appeared.
MainAbort ==
    /\ MainAt("idle")
    /\ aborts < MaxAborts
    /\ aborts' = aborts + 1
    /\ owed' = [owed EXCEPT !["main"] = 1]
    /\ UNCHANGED <<ring, main, motor, current_motor_epoch, killed, thread_running,
                   world, history, resets>>

reset_kill_switch ==
    /\ MainAt("idle")
    /\ killed
    /\ resets < MaxResets
    /\ resets' = resets + 1
    /\ killed' = FALSE
    /\ afterKill' = 0
    /\ UNCHANGED <<ring, main, motor, current_motor_epoch, owed, thread_running,
                   world, log, taken, begun, chained, late, aborts>>

\* The main loop calls launch_app() or focus_window() itself: the check, then
\* the call, which moves the focus.
DirectCheck ==
    /\ MainAt("idle")
    /\ CheckKillSwitch("main", 0)
    /\ mpc' = IF KillSeen THEN "idle" ELSE "output"
    /\ UNCHANGED <<ring, job, mode, steps, at, call_epoch, drained, motor, thread_running,
                   world, log, taken, begun, chained, late, bounds>>

Typing == tpc \in {"epoch", "esc", "focus", "send"} /\ cmd.kind = "string"
MoveFocus == on_target' \in (IF Typing THEN BOOLEAN ELSE {TRUE})

DirectOutput ==
    /\ MainAt("output")
    /\ MoveFocus
    /\ mpc' = "idle"
    /\ UNCHANGED <<ring, job, mode, steps, at, call_epoch, drained, motor, switch,
                   thread_running, esc, presses, history, bounds>>

\* shutdown(): thread_running = false; then the main loop waits in join().
shutdown ==
    /\ MainAt("idle")
    /\ thread_running' = FALSE
    /\ mpc' = "join"
    /\ UNCHANGED <<ring, job, mode, steps, at, call_epoch, drained, motor, switch, world,
                   history, bounds>>

Joined ==
    /\ MainAt("join")
    /\ tpc = "stopped"
    /\ mpc' = "stopped"
    /\ UNCHANGED <<ring, job, mode, steps, at, call_epoch, drained, motor, switch,
                   thread_running, world, history, bounds>>

----------------------------------------------------------------------------
(***************************************************************************)
(* The motor thread                                                         *)
(***************************************************************************)
MotorAt(label) == tpc = label /\ owed["motor"] = 0
MotorGoto(label) == tpc' = label

\* MotorQueue::pop: the copy, then the store of head.
PopCopy ==
    /\ MotorAt("pop")
    /\ thread_running
    /\ ~is_idle
    /\ cmd' = buffer[head]
    /\ late' = 0
    /\ MotorGoto("advance")
    /\ UNCHANGED <<ring, main, left, current_indent_level,
                   g_motor_focus_aborts, switch, thread_running, world,
                   log, taken, begun, chained, afterKill, bounds>>

PopAdvance ==
    /\ MotorAt("advance")
    /\ head' = After(head)
    /\ taken' = taken + 1
    /\ MotorGoto("stale")
    /\ UNCHANGED <<buffer, tail, main, cmd, left, current_indent_level,
                   g_motor_focus_aborts, switch, thread_running, world,
                   log, begun, chained, late, afterKill, bounds>>

\* The loop condition, when shutdown() was called.
MotorStops ==
    /\ MotorAt("pop")
    /\ ~thread_running
    /\ MotorGoto("stopped")
    /\ UNCHANGED <<ring, main, cmd, left, current_indent_level,
                   g_motor_focus_aborts, switch, thread_running, world, history, bounds>>

\* The epoch check: a stale command is discarded.
Fresh == cmd.epoch = current_motor_epoch
LoopEpochCheck ==
    /\ MotorAt("stale")
    /\ MotorGoto(IF Fresh THEN "kill" ELSE "pop")
    /\ UNCHANGED <<ring, main, cmd, left, current_indent_level,
                   g_motor_focus_aborts, switch, thread_running, world, history, bounds>>

LevelAfterSlip(kind) ==                             \* no floor under the level
    CASE kind = "start" -> current_indent_level + 1
      [] kind = "end"   -> current_indent_level - 1
      [] OTHER -> current_indent_level

\* How many inputs a command sends (a block's tabs: one for each level), and
\* the indentation after it.
LevelAfter(kind) ==
    CASE kind = "start" -> current_indent_level + 1
      [] kind = "end"   -> IF current_indent_level > 0 THEN current_indent_level - 1
                                                       ELSE 0
      [] OTHER -> current_indent_level
Inputs(kind) ==
    CASE kind = "string" -> Text
      [] kind = "key"    -> 1
      [] kind = "start"  -> 2 + LevelAfter("start")
      [] kind = "end"    -> 2

\* Where a command looks first: a string at the kill switch and the window, a
\* block start nowhere before its colon, all others at the kill switch.
FirstLook(kind) ==
    CASE kind = "string" -> "window" [] kind = "start" -> "send" [] OTHER -> "esc"

\* The kill-switch check of the loop: thrown, abort and discard; else execute.
LoopKillCheck ==
    /\ MotorAt("kill")
    /\ CheckKillSwitch("motor", 1)
    /\ IF KillSeen
       THEN /\ MotorGoto("pop")
            /\ UNCHANGED <<left, current_indent_level, begun>>
       ELSE /\ MotorGoto(FirstLook(cmd.kind))
            /\ left' = Inputs(cmd.kind)
            /\ current_indent_level' = LevelAfter(cmd.kind)
            /\ begun' = begun \union {<<cmd.job, cmd.step>>}
    /\ UNCHANGED <<ring, main, cmd, g_motor_focus_aborts, thread_running,
                   world, log, taken, chained, late, bounds>>

\* type_string() checks the switch and remembers the focused window.
TypeEnter ==
    /\ MotorAt("window")
    /\ CheckKillSwitch("motor", 0)
    /\ on_target' = TRUE
    /\ MotorGoto(IF KillSeen THEN "pop" ELSE "epoch")
    /\ UNCHANGED <<ring, main, cmd, left, current_indent_level, g_motor_focus_aborts,
                   thread_running, esc, presses, log, taken, begun, chained, late, bounds>>

\* Before every character: the epoch, the kill switch, the focused window.
CharEpochCheck ==
    /\ MotorAt("epoch")
    /\ MotorGoto(IF Fresh THEN "esc" ELSE "pop")
    /\ UNCHANGED <<ring, main, cmd, left, current_indent_level,
                   g_motor_focus_aborts, switch, thread_running, world, history, bounds>>

NextLookSlip == IF left <= 1 THEN "pop" ELSE "send" \* looks once per command

\* Where the thread goes after an input it sent, or in a block left out.
NextLook ==
    IF left <= 1 THEN "pop" ELSE IF cmd.kind = "string" THEN "epoch" ELSE "esc"

EscCheckSlip ==                                     \* waits for the reset
    /\ MotorAt("esc")
    /\ CheckKillSwitch("motor", 0)
    /\ MotorGoto(IF KillSeen THEN "esc" ELSE IF cmd.kind = "string" THEN "focus" ELSE "send")
    /\ UNCHANGED <<ring, main, cmd, left, current_indent_level,
                   g_motor_focus_aborts, thread_running, world, log, taken, begun,
                   chained, late, bounds>>

\* The kill-switch check before an input. In a block, a key that is refused is
\* left out and the next one tried: nobody looks at what send_key() returns.
EscCheck ==
    /\ MotorAt("esc")
    /\ CheckKillSwitch("motor", 0)
    /\ IF KillSeen
       THEN /\ left' = left - 1
            /\ MotorGoto(IF cmd.kind = "string" THEN "pop" ELSE NextLook)
       ELSE /\ MotorGoto(IF cmd.kind = "string" THEN "focus" ELSE "send")
            /\ UNCHANGED left
    /\ UNCHANGED <<ring, main, cmd, current_indent_level, g_motor_focus_aborts,
                   thread_running, world, log, taken, begun, chained, late, bounds>>

FocusCheck ==
    /\ MotorAt("focus")
    /\ IF on_target
       THEN MotorGoto("send") /\ UNCHANGED g_motor_focus_aborts
       ELSE MotorGoto("pop") /\ g_motor_focus_aborts' = g_motor_focus_aborts + 1
    /\ UNCHANGED <<ring, main, cmd, left, current_indent_level, switch,
                   thread_running, world, history, bounds>>

\* SendInput.
Send ==
    /\ MotorAt("send")
    /\ left' = left - 1
    /\ MotorGoto(NextLook)
    /\ late' = IF Fresh THEN late ELSE late + 1
    /\ afterKill' = IF killed THEN afterKill + 1 ELSE afterKill
    /\ UNCHANGED <<ring, main, cmd, current_indent_level, g_motor_focus_aborts,
                   switch, thread_running, world, log, taken, begun, chained, bounds>>

----------------------------------------------------------------------------
\* The user presses and releases ESC and moves the focus.
User ==
    /\ \/ /\ ~esc /\ presses < MaxPresses
          /\ esc' = TRUE /\ presses' = presses + 1 /\ UNCHANGED on_target
       \/ esc /\ esc' = FALSE /\ UNCHANGED <<presses, on_target>>
       \/ Typing /\ on_target' = ~on_target /\ UNCHANGED <<esc, presses>>
    /\ UNCHANGED <<ring, main, motor, switch, thread_running, history, bounds>>

MainStep ==
    \/ AbortSequence("main")
    \/ PushWrite \/ PushStore \/ PushDropped
    \/ Drain(TRUE) \/ Drain(FALSE) \/ Verified
    \/ \E p \in Procedures : FallBack(p)

MainCall ==
    \/ \E p \in Procedures : Submit("procedure", p) \/ Submit("primary", p)
    \/ \E p \in Chains : Pursue(p)
    \/ MainAbort \/ reset_kill_switch \/ DirectCheck \/ DirectOutput
    \/ shutdown \/ Joined

MotorStep ==
    \/ AbortSequence("motor")
    \/ PopCopy \/ PopAdvance \/ MotorStops \/ LoopEpochCheck \/ LoopKillCheck
    \/ TypeEnter \/ CharEpochCheck \/ EscCheck \/ FocusCheck \/ Send

\* Both threads have ended.
Stopped == mpc = "stopped" /\ UNCHANGED vars

Next == MainStep \/ MainCall \/ MotorStep \/ User \/ Stopped

Spec == Init /\ [][Next]_vars

\* Both threads run whenever they can: the waits are sleeps of 1 to 10 ms.
FairSpec == Spec /\ WF_vars(MainStep) /\ WF_vars(MotorStep)

----------------------------------------------------------------------------
(***************************************************************************)
(* Properties                                                               *)
(***************************************************************************)
Commands == [job : Nat, step : Nat, kind : Kinds, epoch : Nat]

TypeOK ==
    /\ buffer \in [Slots -> Commands] /\ head \in Slots /\ tail \in Slots
    /\ current_motor_epoch \in Nat /\ killed \in BOOLEAN
    /\ owed \in [{"main", "motor"} -> 0 .. 2]
    /\ current_indent_level \in Nat /\ thread_running \in BOOLEAN
    /\ g_motor_focus_aborts \in Nat
    /\ mpc \in {"idle", "push", "store", "drain", "verify", "output", "join", "stopped"}
    /\ job \in Nat /\ mode \in {"procedure", "primary", "chain"}
    /\ steps \in Seq(Kinds) /\ at \in 1 .. Len(steps) + 1
    /\ call_epoch \in Nat /\ drained \in BOOLEAN
    /\ tpc \in {"pop", "advance", "stale", "kill", "window", "epoch", "esc", "focus",
                "send", "stopped"}
    /\ cmd \in Commands /\ left \in Nat
    /\ esc \in BOOLEAN /\ on_target \in BOOLEAN
    /\ log \in Seq(Commands) /\ taken \in 0 .. Len(log)
    /\ begun \subseteq Nat \X Nat /\ late \in Nat /\ afterKill \in Nat
    /\ presses \in 0 .. MaxPresses /\ aborts \in 0 .. MaxAborts
    /\ resets \in 0 .. MaxResets

\* The ring of plain structs: the slot being written is never the slot being
\* copied, and the thread gets every pushed command once, whole and in order.
CommandsArriveWhole ==
    /\ mpc = "store" /\ tpc = "advance" => tail # head
    /\ tpc = "advance" => cmd = log[taken + 1]
    /\ tpc \notin {"pop", "advance", "stopped"} => cmd = log[taken]
    /\ (tail - head) % QueueSize = Len(log) - taken

\* An abort stops text that is being typed: at most the one character whose
\* checks were already made still goes out. (A block command has no such check.)
TypingStopsOnAbort == cmd.kind = "string" => late <= 1

\* Once the kill switch is thrown, by either thread, the motor thread sends at
\* most the one input it had already decided on until the switch is reset, in
\* the middle of a block too.
KillHalts == afterKill <= 1

\* Both stops take effect within one input, in every kind of command they look at.
StopsInTime == TypingStopsOnAbort /\ KillHalts

\* What runs of a procedure is always a beginning of it: no step begins when an
\* earlier one was flushed or killed. Each call takes the epoch once, so an
\* abort between two of its pushes flushes the later steps too. The chains of
\* the goal pursuit, which take the epoch per command, do not have this.
StepsRunInPrefix ==
    \A pair \in begun : pair[1] \notin chained /\ pair[2] > 1
                          => <<pair[1], pair[2] - 1>> \in begun

\* The main loop, which sleeps and tries again while the ring is full, gets its
\* commands queued whatever is typed, flushed or killed meanwhile.
BackpressureEnds == (mpc \in {"push", "store"}) ~> (mpc \notin {"push", "store"})

\* "Wait for queue to drain (all primary steps executed)": when the wait ended
\* because the queue was idle, no step of the primary procedure is under way. (One may
\* be: see the README.)
DrainedMeansExecuted ==
    mpc = "verify" /\ drained => tpc \in {"pop", "stopped"} \/ cmd.job # job
=============================================================================

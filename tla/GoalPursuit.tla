----------------------------- MODULE GoalPursuit -----------------------------
(***************************************************************************)
(* The goal planner (core/fpsan_drives.h) and its pursuit by the main loop  *)
(* of fpsan_live_core.cpp: one iteration looks at the keyboard, at the      *)
(* confirmation's deadline, at the foreground window every VisualEvery      *)
(* ticks, and then at the goal. The user's lines teach rules, set goals and *)
(* change the target window; the windows change by themselves; the motor    *)
(* thread works off what was queued (MotorCortex has its detail).           *)
(*                                                                          *)
(* Of the tick counter the phase of the visual check and the ticks since    *)
(* the last goal step are kept.                                             *)
(***************************************************************************)
EXTENDS MotorPlan

CONSTANTS Windows,      \* titles of windows
          NoWindow,     \* "" as a target; no window in the foreground
          VisualEvery,  \* ticks from one visual check to the next (100)
          StepGap,      \* ticks a goal step is kept waiting for (200)
          WindowWait,   \* ticks after which a window counts as missing (5000)
          MaxLines,     \* bound: lines the user begins
          MaxLapses     \* bound: confirmations that run out of time

ASSUME PursuitAssumption ==
    /\ NoWindow \notin Windows
    /\ VisualEvery \in Nat \ {0}
    /\ StepGap \in Nat /\ WindowWait \in Nat /\ StepGap < WindowWait
    /\ MaxLines \in Nat /\ MaxLapses \in Nat

VARIABLES
    pc,
    typing,               \* g_input_pos > 0
    phase, since,         \* g_tick % VisualEvery; g_tick - last_goal_tick, at
                          \* most WindowWait + 1
    current,              \* the planner's goal
    target, verified,     \* g_target_window, g_target_window_verified
    motor,                \* whose commands are queued: the number of a goal, or User
    foreground,           \* the window in the foreground
    fate,                 \* history: what became of the goals set
    ran,                  \* history: the goals carried out
    seen, inherited,      \* history: see VerifiedMeansSeen
    lines, lapses         \* counters for the bounds

loop == <<pc, typing, phase, since>>
eyes == <<target, verified, seen, inherited>>
goals == <<current, fate, ran>>
bounds == <<lines, lapses>>
vars == <<plan, loop, eyes, goals, motor, foreground, bounds>>

User == 0
NoGoal == [number |-> 0, concept |-> CHOOSE c \in Concepts : TRUE,
           step |-> 0, step_count |-> 0, active |-> FALSE]

Init ==
    /\ PlanInit
    /\ pc = "input" /\ typing = FALSE /\ phase = 0 /\ since = 0
    /\ current = NoGoal
    /\ target = NoWindow /\ verified = FALSE
    /\ motor = <<>>
    /\ foreground \in Windows \union {NoWindow}
    /\ fate = <<>> /\ ran = <<>> /\ seen = FALSE /\ inherited = FALSE
    /\ lines = 0 /\ lapses = 0

----------------------------------------------------------------------------
(***************************************************************************)
(* The goal planner                                                         *)
(***************************************************************************)
Ended(how) ==
    IF current.number > 0 /\ fate[current.number] = "open"
    THEN [fate EXCEPT ![current.number] = how] ELSE fate

\* set_goal() with a goal whose first known verb, or else first bound word, is c:
\* a single step. Without a binding it fails, and has already dropped the steps
\* of the goal that was being pursued, which stays "active".
SetGoalSlip(c) ==                                   \* the old steps are not dropped
    LET bound == implemented_by[c] # <<>>
    IN  /\ current' = IF bound
                      THEN [number |-> Len(fate) + 1, concept |-> c, step |-> 0,
                            step_count |-> 1, active |-> TRUE]
                      ELSE [current EXCEPT !.number = Len(fate) + 1, !.concept = c]
        /\ fate' = Append(Ended("lost"), IF bound THEN "open" ELSE "unknown")
        /\ UNCHANGED ran

SetGoal(c) ==
    LET bound == implemented_by[c] # <<>>
    IN  /\ current' = [number |-> Len(fate) + 1, concept |-> c, step |-> 0,
                       step_count |-> IF bound THEN 1 ELSE 0,
                       active |-> bound \/ current.active]
        /\ fate' = Append(Ended("lost"), IF bound THEN "open" ELSE "unknown")
        /\ UNCHANGED ran

cancel ==
    /\ current' = [current EXCEPT !.active = FALSE]
    /\ fate' = Ended("cancelled")
    /\ UNCHANGED ran

StepLeft == current.step < current.step_count

complete_step ==
    current' = [current EXCEPT !.step = @ + 1,
                               !.active = @ /\ current.step + 1 < current.step_count]

----------------------------------------------------------------------------
(***************************************************************************)
(* The user's lines                                                         *)
(***************************************************************************)
\* A key other than Enter: it begins a line, goes on with it or clears it.
Key ==
    /\ pc = "input"
    /\ IF typing THEN UNCHANGED lines ELSE lines < MaxLines /\ lines' = lines + 1
    /\ typing' = ~typing
    /\ UNCHANGED <<plan, pc, phase, since, eyes, goals, motor, foreground, lapses>>

\* Enter: dispatch() gets the line.
Enter(next) ==
    /\ pc = "input"
    /\ typing /\ typing' = FALSE
    /\ pc' = next
    /\ UNCHANGED <<phase, since, bounds>>

\* A sentence: a motor rule for c, or something else that is ingested.
Teach ==
    /\ Enter("input")
    /\ \E c \in Concepts :
           \/ \E rule \in Rules : ingest_motor_rule(c, rule)
           \/ EdgeEvicted(c)
    /\ UNCHANGED <<eyes, goals, motor, foreground>>

\* !goal. (A text that the disk policy blocks changes nothing.)
Goal ==
    /\ Enter("input")
    /\ \E c \in Concepts : SetGoal(c)
    /\ UNCHANGED <<plan, eyes, motor, foreground>>

\* A line that names a window makes it the target; whether the last target was
\* verified stays.
SetTarget(w) ==
    /\ target' = w
    /\ seen' = (seen /\ w = target)
    /\ inherited' = (verified /\ ~seen')
    /\ UNCHANGED verified

\* focus_window(): brings the window to the front if there is one.
Focus(w) == foreground' \in {foreground, w}

\* !focus
FocusLine ==
    /\ Enter("input")
    /\ \E w \in Windows : SetTarget(w) /\ Focus(w)
    /\ UNCHANGED <<plan, goals, motor>>

\* !open: a procedure is queued, or the program is launched from here, or not.
OpenLine ==
    /\ \E w \in Windows : SetTarget(w)
    /\ \/ Enter("wait") /\ motor' = Append(motor, User)
       \/ Enter("wait") /\ UNCHANGED motor
       \/ Enter("input") /\ UNCHANGED motor
    /\ UNCHANGED <<plan, goals, foreground>>

\* !type, !speak, up to the readiness gate. (!speak with an unknown word changes
\* nothing.)
TypeLine ==
    /\ IF target = NoWindow THEN Enter("type") /\ UNCHANGED foreground
       ELSE Enter("wait_and_type") /\ Focus(target)
    /\ UNCHANGED <<plan, eyes, goals, motor>>

\* queue_string() of what there is to type, even when the gate failed; !speak may
\* have nothing to say. !run queues a procedure in the same way.
TypeText ==
    /\ pc = "type" /\ pc' = "input"
    /\ motor' \in {motor, Append(motor, User)}
    /\ UNCHANGED <<plan, typing, phase, since, eyes, goals, foreground, bounds>>

\* wait_for_foreground_window(): polls until the target is in front, or gives up.
AfterWait == IF pc = "wait" THEN "input" ELSE "type"
Sighted ==
    /\ verified' = TRUE
    /\ seen' = TRUE /\ inherited' = FALSE
    /\ UNCHANGED target
WaitPoll ==
    /\ pc \in {"wait", "wait_and_type"}
    /\ IF foreground = target THEN Sighted ELSE UNCHANGED eyes
    /\ pc' = AfterWait
    /\ UNCHANGED <<plan, typing, phase, since, goals, motor, foreground, bounds>>

----------------------------------------------------------------------------
(***************************************************************************)
(* The rest of an iteration                                                 *)
(***************************************************************************)
\* No key is waiting.
NoKey ==
    /\ pc = "input" /\ pc' = "confirm"
    /\ UNCHANGED <<plan, typing, phase, since, eyes, goals, motor, foreground, bounds>>

\* A confirmation nobody gave in time (see Dialogue) cancels the goal.
Confirm ==
    /\ pc = "confirm" /\ pc' = "tick"
    /\ \/ UNCHANGED <<goals, lapses>>
       \/ lapses < MaxLapses /\ lapses' = lapses + 1 /\ cancel
    /\ UNCHANGED <<plan, typing, phase, since, eyes, motor, foreground, lines>>

NoTarget ==
    /\ target' = NoWindow /\ verified' = FALSE
    /\ seen' = FALSE /\ inherited' = FALSE

\* The two visual errors: flush the motor queue, give up goal and target.
VisualError ==
    /\ cancel
    /\ NoTarget
    /\ motor' = <<>>

\* verify_target() of the visual check.
Look ==
    \/ /\ foreground = target
       /\ Sighted
       /\ UNCHANGED <<goals, motor>>
    \/ foreground # target /\ verified /\ VisualError
    \/ foreground # target /\ ~verified /\ UNCHANGED <<eyes, goals, motor>>

Tick ==
    /\ pc = "tick" /\ pc' = "pursue"
    /\ phase' = (phase + 1) % VisualEvery
    /\ since' = IF since > WindowWait THEN since ELSE since + 1
    /\ IF phase' = 0 /\ current.active /\ target # NoWindow
       THEN Look ELSE UNCHANGED <<eyes, goals, motor>>
    /\ UNCHANGED <<plan, typing, foreground, bounds>>

\* 5D: a goal's turn comes when no line is being typed, nothing is queued for the
\* motor and the last step is a while ago.
is_idle == motor = <<>>
Turn ==
    /\ pc = "pursue" /\ pc' = "input"
    /\ current.active /\ ~typing /\ is_idle /\ since > StepGap
    /\ UNCHANGED <<plan, typing, phase, foreground, bounds>>

NoTurn ==
    /\ pc = "pursue" /\ pc' = "input"
    /\ ~(current.active /\ ~typing /\ is_idle /\ since > StepGap)
    /\ UNCHANGED <<plan, typing, phase, since, eyes, goals, motor, foreground, bounds>>

Unconfirmed == target # NoWindow /\ ~verified

AwaitWindow ==
    /\ Turn
    /\ Unconfirmed /\ since <= WindowWait
    /\ UNCHANGED <<since, eyes, goals, motor>>

NeverAppearedSlip ==                                \* no such deadline
    FALSE

NeverAppeared ==
    /\ Turn
    /\ Unconfirmed /\ since > WindowWait
    /\ VisualError
    /\ UNCHANGED since

\* next_action() finds no step: the goal is over, without a word.
NoStepLeft ==
    /\ Turn
    /\ ~Unconfirmed /\ ~StepLeft
    /\ current' = [current EXCEPT !.active = FALSE]
    /\ UNCHANGED <<since, eyes, fate, ran, motor>>

\* The plan is screened. is_safe() looks whether the nodes its motor nodes
\* require are active at this moment; an empty chain is not screened.
Vetoed(c, unmet) ==
    LET chain == ScreenedChain(c)
    IN  chain # <<>> /\ (motor_chain_policy_blocks_disk_ops(chain) \/ unmet)

Veto ==
    /\ Turn
    /\ ~Unconfirmed /\ StepLeft
    /\ \E unmet \in BOOLEAN : Vetoed(current.concept, unmet)
    /\ cancel
    /\ UNCHANGED <<since, eyes, motor>>

\* The plan is queued; a concept without a binding left only fails. Either way the
\* step is complete.
Execute ==
    /\ Turn
    /\ ~Unconfirmed /\ StepLeft
    /\ ~Vetoed(current.concept, FALSE)
    /\ LET chain == QueuedChain(current.concept)
       IN  /\ fate' = Ended("run")
           /\ ran' = Append(ran, [goal |-> current.number, chain |-> chain,
                                  sighted |-> target \in {NoWindow, foreground} \/ seen])
           /\ motor' = IF chain = <<>> THEN motor ELSE <<current.number>>
    /\ complete_step
    /\ since' = 0
    /\ UNCHANGED eyes

----------------------------------------------------------------------------
\* The motor thread: works off what is queued, or drops it (focus lost, ESC).
MotorDone ==
    /\ motor # <<>>
    /\ motor' = Tail(motor)
    /\ UNCHANGED <<plan, loop, eyes, goals, foreground, bounds>>

\* Somebody, or what the motor does, brings another window to the front.
WindowSwitch ==
    /\ foreground' \in (Windows \union {NoWindow}) \ {foreground}
    /\ UNCHANGED <<plan, loop, eyes, goals, motor, bounds>>

Line == Teach \/ Goal \/ FocusLine \/ OpenLine \/ TypeLine
LoopStep == WaitPoll \/ TypeText \/ NoKey \/ Confirm \/ Tick
PursueStep == NoTurn \/ AwaitWindow \/ NeverAppeared \/ NoStepLeft \/ Veto \/ Execute

Next == Key \/ Line \/ LoopStep \/ PursueStep \/ MotorDone \/ WindowSwitch

Spec == Init /\ [][Next]_vars

\* The loop runs on and the motor thread works; the user and the windows do as
\* they like.
FairSpec == Spec /\ WF_vars(LoopStep \/ PursueStep) /\ WF_vars(MotorDone)

----------------------------------------------------------------------------
(***************************************************************************)
(* Properties                                                               *)
(***************************************************************************)
TypeOK ==
    /\ motor_action \in Seq(Action) /\ Len(motor_action) <= MaxNodes
    /\ sequence_edge \in Seq(0 .. Len(motor_action))
    /\ Len(sequence_edge) = Len(motor_action)
    /\ implemented_by \in [Concepts -> Seq(1 .. Len(motor_action))]
    /\ pc \in {"input", "wait", "wait_and_type", "type", "confirm", "tick", "pursue"}
    /\ typing \in BOOLEAN /\ phase \in 0 .. VisualEvery - 1 /\ since \in 0 .. WindowWait + 1
    /\ current \in [number : 0 .. Len(fate), concept : Concepts, step : 0 .. 1,
                    step_count : 0 .. 1, active : BOOLEAN]
    /\ target \in Windows \union {NoWindow} /\ verified \in BOOLEAN
    /\ motor \in Seq(0 .. Len(fate)) /\ foreground \in Windows \union {NoWindow}
    /\ fate \in Seq({"open", "run", "lost", "unknown", "cancelled"})
    /\ seen \in BOOLEAN /\ inherited \in BOOLEAN
    /\ lines \in 0 .. MaxLines /\ lapses \in 0 .. MaxLapses

\* The planner's flags and counters tell what became of the goals: one that is
\* neither carried out, cancelled nor lost is the current one, active and with a
\* step left; none of the others can be carried out any more, in whatever order
\* lines, visual errors, vetoes and lapses come.
GoalsAccounted ==
    {n \in DOMAIN fate : fate[n] = "open"}
        = IF current.active /\ StepLeft THEN {current.number} ELSE {}

\* No goal is carried out twice, and none after it was cancelled.
RunsOnce ==
    /\ \A i, j \in DOMAIN ran : ran[i].goal = ran[j].goal => i = j
    /\ \A i \in DOMAIN ran : fate[ran[i].goal] = "run"

\* Each goal comes to exactly one end: carried out once, cancelled or lost, and until
\* then it is the one the planner holds.
GoalsEndOnce == GoalsAccounted /\ RunsOnce

\* The window counts as confirmed only if it was seen in front since it became the
\* target, or the line that changed the target found the last one verified; and
\* never without a target.
VerifiedMeansSeen == verified => target # NoWindow /\ (seen \/ inherited)

\* "Wait until window is visually confirmed before executing next step": no goal
\* is carried out towards a window that is not in front and was not seen there
\* since it became the target. (One is: see the README.)
StepsWaitForWindow == \A i \in DOMAIN ran : ran[i].sighted

\* What the policy blocks is not carried out, whatever rules were taught and in
\* which order, as long as the whole plan is within the nodes and texts that are
\* screened.
BlockedPlansNeverRun ==
    \A i \in DOMAIN ran :
        LET chain == ran[i].chain
        IN  Len(chain) <= MaxChain /\ Cardinality(Texts(chain)) <= MaxTexts
                => ~disk_ops_policy_blocks_lower(MarkersOf(chain))

\* A goal does not wait for ever, whatever the windows do: if the user does not
\* keep a line half-typed, an active goal is carried out or given up.
GoalResolved == <>[]~typing => [](current.active => <>~current.active)

\* "It WAS verified, but now it's lost! (e.g. user closed it mid-typing)": the
\* visual check that finds the target gone flushes the plan that is being typed.
LossStopsTyping ==
    [][Tick /\ phase' = 0 /\ target # NoWindow /\ verified /\ foreground # target
            /\ (\E n \in Range(motor) : n # User)
           => motor' = <<>>]_vars
=============================================================================

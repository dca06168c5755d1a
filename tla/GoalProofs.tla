----------------------------- MODULE GoalProofs -----------------------------
(***************************************************************************)
(* Proofs about GoalPursuit, for every set of concepts, rules and windows    *)
(* and every number of nodes, texts and ticks: what becomes of goals, what   *)
(* the verified flag tells, and which plans are carried out. For the last    *)
(* the recursive functions of MotorPlan are shown to have a value, and the   *)
(* plan that is screened to be the beginning of the plan that is queued.     *)
(***************************************************************************)
EXTENDS GoalPursuit, FiniteSetTheorems, SequenceTheorems, WellFoundedInduction, TLAPS

LEMMA ConstantTypes == NoWindow \notin Windows
BY PursuitAssumption

Fates == {"open", "run", "lost", "unknown", "cancelled"}

CurrentType ==
    current \in [number : 0 .. Len(fate), concept : Concepts,
                 step : 0 .. 1, step_count : 0 .. 1, active : BOOLEAN]

\* Of the goals that were carried out only the numbers are typed.
Ran == {ran[i] : i \in DOMAIN ran}

GoalType ==
    /\ fate \in Seq(Fates) /\ CurrentType
    /\ ran \in Seq(Ran)
    /\ \A i \in DOMAIN ran : ran[i].goal \in DOMAIN fate

GoalInv == GoalType /\ GoalsAccounted /\ RunsOnce

\* The loop waits only for a window that is there to be waited for.
WaitsForTarget == pc \in {"wait", "wait_and_type"} => target # NoWindow

EyesInv == VerifiedMeansSeen /\ WaitsForTarget

----------------------------------------------------------------------------
(***************************************************************************)
(* What steps do to the goals                                               *)
(***************************************************************************)
Execution ==
    /\ current.active /\ StepLeft
    /\ fate' = Ended("run")
    /\ complete_step
    /\ \E e : e.goal = current.number /\ ran' = Append(ran, e)

GoalsNext ==
    \/ \E c \in Concepts : SetGoal(c)
    \/ cancel
    \/ ~StepLeft /\ current' = [current EXCEPT !.active = FALSE] /\ UNCHANGED <<fate, ran>>
    \/ Execution

\* What is known of the goals, unfolded.
LEMMA GoalFacts ==
    ASSUME GoalInv
    PROVE  /\ fate \in Seq(Fates) /\ Len(fate) \in Nat /\ DOMAIN fate = 1 .. Len(fate)
           /\ current.number \in 0 .. Len(fate)
           /\ current.step \in 0 .. 1 /\ current.step_count \in 0 .. 1
           /\ \A n \in DOMAIN fate :
                 fate[n] = "open" <=> current.active /\ StepLeft /\ n = current.number
           /\ current.active /\ StepLeft =>
                 current.number \in DOMAIN fate /\ fate[current.number] = "open"
BY DEF GoalInv, GoalType, CurrentType, GoalsAccounted

\* Ending the current goal: no other one is open.
LEMMA EndedFate ==
    ASSUME GoalInv, NEW how \in Fates \ {"open"}
    PROVE  /\ Ended(how) \in Seq(Fates) /\ Len(Ended(how)) = Len(fate)
           /\ \A n \in DOMAIN fate :
                 Ended(how)[n] = IF fate[n] = "open" THEN how ELSE fate[n]
<1>1. CASE current.number > 0 /\ fate[current.number] = "open"
  BY <1>1, GoalFacts DEF Ended
<1>2. CASE ~(current.number > 0 /\ fate[current.number] = "open")
  <2>1. Ended(how) = fate
    BY <1>2 DEF Ended
  <2>2. \A n \in DOMAIN fate : fate[n] # "open"
    BY <1>2, GoalFacts
  <2> QED
    BY <2>1, <2>2, GoalFacts
<1> QED
  BY <1>1, <1>2

LEMMA AppendedRan ==
    ASSUME GoalInv, NEW e, ran' = Append(ran, e)
    PROVE  /\ ran' \in Seq(Ran') /\ Len(ran) \in Nat /\ Len(ran') = Len(ran) + 1
           /\ DOMAIN ran = 1 .. Len(ran) /\ DOMAIN ran' = 1 .. Len(ran) + 1
           /\ \A i \in DOMAIN ran : ran'[i] = ran[i]
           /\ ran'[Len(ran) + 1] = e
<1>1. ran \in Seq(Ran)
  BY DEF GoalInv, GoalType
<1>2. ran \in Seq(Ran \union {e})
  BY <1>1
<1> HIDE DEF Ran
<1>3. /\ ran' \in Seq(Ran \union {e}) /\ Len(ran) \in Nat /\ Len(ran') = Len(ran) + 1
      /\ DOMAIN ran = 1 .. Len(ran) /\ DOMAIN ran' = 1 .. Len(ran) + 1
      /\ \A i \in DOMAIN ran : ran'[i] = ran[i]
      /\ ran'[Len(ran) + 1] = e
  BY <1>2
<1>4. Ran \union {e} = Ran'
  BY <1>3 DEF Ran
<1> QED
  BY <1>3, <1>4

LEMMA GoalStepInv == GoalInv /\ (GoalsNext \/ UNCHANGED goals) => GoalInv'
<1> SUFFICES ASSUME GoalInv, GoalsNext \/ UNCHANGED goals PROVE GoalInv'
  OBVIOUS
<1>t. /\ fate \in Seq(Fates) /\ Len(fate) \in Nat /\ DOMAIN fate = 1 .. Len(fate)
      /\ CurrentType /\ GoalsAccounted /\ RunsOnce
      /\ ran \in Seq(Ran) /\ \A i \in DOMAIN ran : ran[i].goal \in DOMAIN fate
  BY DEF GoalInv, GoalType
<1>1. CASE \E c \in Concepts : SetGoal(c)
  <2>1. PICK c \in Concepts : SetGoal(c)
    BY <1>1
  <2> DEFINE bound == implemented_by[c] # <<>>
             fresh == IF bound THEN "open" ELSE "unknown"
             s == Ended("lost")
  <2>2. /\ s \in Seq(Fates) /\ Len(s) = Len(fate)
        /\ \A n \in DOMAIN fate : s[n] = IF fate[n] = "open" THEN "lost" ELSE fate[n]
    BY EndedFate, "lost" \in Fates \ {"open"} DEF Fates
  <2>3. /\ fate' = Append(s, fresh) /\ ran' = ran
        /\ current' = [number |-> Len(fate) + 1, concept |-> c, step |-> 0,
                       step_count |-> IF bound THEN 1 ELSE 0,
                       active |-> bound \/ current.active]
    BY <2>1 DEF SetGoal
  <2>4. fresh \in Fates
    BY DEF Fates
  <2> HIDE DEF s, fresh
  <2>5. /\ fate' \in Seq(Fates) /\ Len(fate') = Len(fate) + 1
        /\ DOMAIN fate' = 1 .. Len(fate) + 1
        /\ \A n \in DOMAIN fate : fate'[n] = s[n]
        /\ fate'[Len(fate) + 1] = fresh
    BY <1>t, <2>2, <2>3, <2>4
  <2>6. (bound \/ current.active) \in BOOLEAN
    BY <1>t DEF CurrentType
  <2>7. CurrentType'
    BY <1>t, <2>3, <2>5, <2>6 DEF CurrentType
  <2>8. GoalType'
    BY <1>t, <2>3, <2>5, <2>7 DEF GoalType, Ran
  <2>9. GoalsAccounted'
    <3>1. \A n \in DOMAIN fate : fate'[n] # "open"
      BY <2>2, <2>5
    <3>2. CASE bound
      <4>1. current'.active /\ StepLeft' /\ current'.number = Len(fate) + 1
            /\ fate'[Len(fate) + 1] = "open"
        <5>1. (bound \/ current.active) = TRUE
          BY <3>2
        <5>2. current' = [number |-> Len(fate) + 1, concept |-> c, step |-> 0,
                          step_count |-> 1, active |-> TRUE]
          BY <2>3, <3>2, <5>1
        <5>3. fresh = "open"
          BY <3>2 DEF fresh
        <5> QED
          BY <2>5, <5>2, <5>3 DEF StepLeft
      <4> QED
        BY <1>t, <2>5, <3>1, <4>1 DEF GoalsAccounted
    <3>3. CASE ~bound
      <4>1. ~StepLeft' /\ fate'[Len(fate) + 1] # "open"
        BY <2>3, <2>5, <3>3 DEF StepLeft, fresh
      <4> QED
        BY <1>t, <2>5, <3>1, <4>1 DEF GoalsAccounted
    <3> QED
      BY <3>2, <3>3
  <2>10. RunsOnce'
    BY <1>t, <2>2, <2>3, <2>5 DEF RunsOnce
  <2> QED
    BY <2>8, <2>9, <2>10 DEF GoalInv
<1>2. CASE cancel
  <2>1. /\ Ended("cancelled") \in Seq(Fates) /\ Len(Ended("cancelled")) = Len(fate)
        /\ \A n \in DOMAIN fate :
              Ended("cancelled")[n] = IF fate[n] = "open" THEN "cancelled" ELSE fate[n]
    BY EndedFate, "cancelled" \in Fates \ {"open"} DEF Fates
  <2>2. /\ fate' = Ended("cancelled") /\ ran' = ran
        /\ current' = [current EXCEPT !.active = FALSE]
    BY <1>2 DEF cancel
  <2>3. CurrentType' /\ current'.active = FALSE
    BY <1>t, <2>1, <2>2 DEF CurrentType
  <2>4. GoalType'
    BY <1>t, <2>1, <2>2, <2>3 DEF GoalType, Ran
  <2>5. GoalsAccounted'
    BY <1>t, <2>1, <2>2, <2>3 DEF GoalsAccounted
  <2>6. RunsOnce'
    BY <1>t, <2>1, <2>2 DEF RunsOnce
  <2> QED
    BY <2>4, <2>5, <2>6 DEF GoalInv
<1>3. CASE ~StepLeft /\ current' = [current EXCEPT !.active = FALSE] /\ UNCHANGED <<fate, ran>>
  <2>1. CurrentType' /\ current'.active = FALSE
    BY <1>t, <1>3 DEF CurrentType
  <2>2. GoalType'
    BY <1>t, <1>3, <2>1 DEF GoalType, Ran
  <2> QED
    BY <1>t, <1>3, <2>1, <2>2 DEF GoalInv, GoalsAccounted, RunsOnce
<1>4. CASE Execution
  <2>1. /\ Ended("run") \in Seq(Fates) /\ Len(Ended("run")) = Len(fate)
        /\ \A n \in DOMAIN fate :
              Ended("run")[n] = IF fate[n] = "open" THEN "run" ELSE fate[n]
    BY EndedFate, "run" \in Fates \ {"open"} DEF Fates
  <2>2. PICK e : e.goal = current.number /\ ran' = Append(ran, e)
    BY <1>4 DEF Execution
  <2>3. /\ fate' = Ended("run") /\ current.active /\ StepLeft
        /\ complete_step
    BY <1>4 DEF Execution
  <2>4. current.number \in DOMAIN fate /\ fate[current.number] = "open"
    BY <2>3, GoalFacts
  <2>5. CurrentType' /\ ~StepLeft'
    <3>1. current.step = 0 /\ current.step_count = 1
      BY <2>3, GoalFacts DEF StepLeft
    <3>2. (current.active /\ current.step + 1 < current.step_count) = FALSE
      BY <3>1
    <3>3. current' = [current EXCEPT !.step = @ + 1, !.active = FALSE]
      BY <2>3, <3>2 DEF complete_step
    <3>4. /\ current'.step = 1 /\ current'.step_count = 1
          /\ Len(fate') = Len(fate)
      BY <1>t, <2>1, <2>3, <3>1, <3>3 DEF CurrentType
    <3>5. CurrentType'
      BY <1>t, <3>1, <3>3, <3>4 DEF CurrentType
    <3> QED
      BY <3>4, <3>5 DEF StepLeft
  <2>6. /\ ran' \in Seq(Ran') /\ Len(ran') = Len(ran) + 1
        /\ DOMAIN ran = 1 .. Len(ran) /\ DOMAIN ran' = 1 .. Len(ran) + 1
        /\ \A i \in DOMAIN ran : ran'[i] = ran[i]
        /\ ran'[Len(ran) + 1] = e
    BY <2>2, AppendedRan
  <2>8. GoalType'
    BY <1>t, <2>1, <2>2, <2>3, <2>4, <2>5, <2>6 DEF GoalType
  <2>9. GoalsAccounted'
    BY <1>t, <2>1, <2>3, <2>5 DEF GoalsAccounted
  <2>10. \A i \in DOMAIN ran : ran[i].goal # current.number
    BY <1>t, <2>4 DEF RunsOnce
  <2>11. RunsOnce'
    BY <1>t, <2>1, <2>2, <2>3, <2>4, <2>6, <2>10 DEF RunsOnce
  <2> QED
    BY <2>8, <2>9, <2>11 DEF GoalInv
<1>5. CASE UNCHANGED goals
  BY <1>5, <1>t DEF goals, GoalInv, GoalType, Ran, CurrentType, GoalsAccounted, RunsOnce,
                    StepLeft
<1> QED
  BY <1>1, <1>2, <1>3, <1>4, <1>5 DEF GoalsNext

\* Every step does to the goals what GoalStepInv is about.
LEMMA GoalSteps == [Next]_vars => GoalsNext \/ UNCHANGED goals
<1> SUFFICES ASSUME [Next]_vars PROVE GoalsNext \/ UNCHANGED goals
  OBVIOUS
<1> USE DEF GoalsNext
<1>1. CASE Key \/ Teach \/ FocusLine \/ OpenLine \/ TypeLine
  BY <1>1 DEF Key, Teach, FocusLine, OpenLine, TypeLine
<1>2. CASE Goal
  BY <1>2 DEF Goal
<1>3. CASE WaitPoll \/ TypeText \/ NoKey
  BY <1>3 DEF WaitPoll, TypeText, NoKey
<1>4. CASE Confirm
  BY <1>4 DEF Confirm
<1>5. CASE Tick
  BY <1>5 DEF Tick, Look, VisualError
<1>6. CASE NoTurn \/ AwaitWindow
  BY <1>6 DEF NoTurn, AwaitWindow
<1>7. CASE NeverAppeared
  BY <1>7 DEF NeverAppeared, VisualError
<1>8. CASE NoStepLeft
  BY <1>8 DEF NoStepLeft
<1>9. CASE Veto
  BY <1>9 DEF Veto
<1>10. CASE Execute
  <2>1. PICK chain : ran' = Append(ran, [goal |-> current.number, chain |-> chain,
                                         sighted |-> target \in {NoWindow, foreground} \/ seen])
    BY <1>10 DEF Execute
  <2>2. fate' = Ended("run") /\ complete_step /\ current.active /\ StepLeft
    BY <1>10 DEF Execute, Turn
  <2> QED
    BY <2>1, <2>2 DEF Execution
<1>11. CASE MotorDone \/ WindowSwitch
  BY <1>11 DEF MotorDone, WindowSwitch
<1>12. CASE UNCHANGED vars
  BY <1>12 DEF vars
<1> QED
  BY <1>1, <1>2, <1>3, <1>4, <1>5, <1>6, <1>7, <1>8, <1>9, <1>10, <1>11, <1>12
  DEF Next, Line, LoopStep, PursueStep

----------------------------------------------------------------------------
(***************************************************************************)
(* What steps do to the eyes                                                *)
(***************************************************************************)
EyesNext ==
    \/ \E w \in Windows : SetTarget(w)
    \/ target # NoWindow /\ Sighted
    \/ NoTarget
    \/ UNCHANGED eyes

LEMMA EyesStep ==
    ASSUME VerifiedMeansSeen, EyesNext,
           pc' \in {"wait", "wait_and_type"} => target' # NoWindow
    PROVE  EyesInv'
<1>1. VerifiedMeansSeen'
  <2>1. CASE \E w \in Windows : SetTarget(w)
    <3>1. PICK w \in Windows : /\ target' = w /\ verified' = verified
                               /\ inherited' = (verified /\ ~seen')
      BY <2>1 DEF SetTarget
    <3>2. target' # NoWindow
      BY ConstantTypes, <3>1
    <3>3. verified' => seen' \/ inherited'
      BY <3>1
    <3> QED
      BY <3>2, <3>3 DEF VerifiedMeansSeen
  <2>2. CASE target # NoWindow /\ Sighted
    BY <2>2 DEF Sighted, VerifiedMeansSeen
  <2>3. CASE NoTarget
    BY <2>3 DEF NoTarget, VerifiedMeansSeen
  <2>4. CASE UNCHANGED eyes
    BY <2>4 DEF eyes, VerifiedMeansSeen
  <2> QED
    BY <2>1, <2>2, <2>3, <2>4 DEF EyesNext
<1>2. WaitsForTarget'
  BY DEF WaitsForTarget
<1> QED
  BY <1>1, <1>2 DEF EyesInv

LEMMA EyesStepInv == EyesInv /\ [Next]_vars => EyesInv'
<1> SUFFICES ASSUME EyesInv, [Next]_vars PROVE EyesInv'
  OBVIOUS
<1>t. VerifiedMeansSeen /\ WaitsForTarget
  BY DEF EyesInv
<1> USE DEF EyesNext, goals, WaitsForTarget
<1>1. CASE Key \/ Teach \/ Goal \/ TypeText \/ NoKey \/ Confirm
  <2>1. UNCHANGED eyes
    BY <1>1 DEF Key, Teach, Goal, TypeText, NoKey, Confirm, SetGoal, cancel
  <2>2. pc' \notin {"wait", "wait_and_type"}
    BY <1>1 DEF Key, Teach, Goal, TypeText, NoKey, Confirm, Enter
  <2> QED
    BY <1>t, <2>1, <2>2, EyesStep
<1>2. CASE FocusLine \/ OpenLine
  <2>1. (\E w \in Windows : SetTarget(w))
    BY <1>2 DEF FocusLine, OpenLine
  <2>2. target' # NoWindow
    BY ConstantTypes, <2>1 DEF SetTarget
  <2> QED
    BY <1>t, <2>1, <2>2, EyesStep
<1>3. CASE TypeLine
  <2>1. UNCHANGED eyes
    BY <1>3 DEF TypeLine
  <2>2. pc' \in {"wait", "wait_and_type"} => target # NoWindow
    BY <1>3 DEF TypeLine, Enter
  <2> QED
    BY <1>t, <2>1, <2>2, EyesStep DEF eyes
<1>4. CASE WaitPoll
  <2>1. pc' \in {"input", "type"} /\ pc \in {"wait", "wait_and_type"}
    BY <1>4 DEF WaitPoll, AfterWait
  <2>2. EyesNext
    BY <1>4, <1>t, <2>1 DEF WaitPoll
  <2> QED
    BY <1>t, <2>1, <2>2, EyesStep
<1>5. CASE Tick
  <2>1. EyesNext
    BY <1>5 DEF Tick, Look, VisualError, cancel
  <2>2. pc' = "pursue"
    BY <1>5 DEF Tick
  <2> QED
    BY <1>t, <2>1, <2>2, EyesStep
<1>6. CASE NoTurn \/ AwaitWindow \/ NoStepLeft \/ Veto
  <2>1. UNCHANGED eyes /\ pc' = "input"
    BY <1>6 DEF NoTurn, AwaitWindow, NoStepLeft, Veto, cancel, Turn
  <2> QED
    BY <1>t, <2>1, EyesStep
<1>7. CASE NeverAppeared
  <2>1. NoTarget /\ pc' = "input"
    BY <1>7 DEF NeverAppeared, VisualError, cancel, Turn
  <2> QED
    BY <1>t, <2>1, EyesStep
<1>8. CASE Execute
  <2>1. UNCHANGED eyes /\ pc' = "input"
    BY <1>8 DEF Execute, Turn
  <2> QED
    BY <1>t, <2>1, EyesStep
<1>9. CASE MotorDone \/ WindowSwitch \/ UNCHANGED vars
  <2>1. UNCHANGED eyes /\ pc' = pc
    BY <1>9 DEF MotorDone, WindowSwitch, vars, loop
  <2> QED
    BY <1>t, <2>1, EyesStep DEF eyes
<1> QED
  BY <1>1, <1>2, <1>3, <1>4, <1>5, <1>6, <1>7, <1>8, <1>9
  DEF Next, Line, LoopStep, PursueStep

----------------------------------------------------------------------------
LEMMA InitInv == Init => GoalInv /\ EyesInv
<1> SUFFICES ASSUME Init PROVE GoalInv /\ EyesInv
  OBVIOUS
<1>1. /\ fate \in Seq(Fates) /\ Len(fate) = 0 /\ ran \in Seq(Ran) /\ Len(ran) = 0
  BY DEF Init
<1>2. /\ current = NoGoal /\ current.active = FALSE
  BY DEF Init, NoGoal
<1>3. CurrentType
  BY <1>1, <1>2, PlanAssumption DEF CurrentType, NoGoal
<1>4. GoalInv
  BY <1>1, <1>2, <1>3 DEF GoalInv, GoalType, GoalsAccounted, RunsOnce
<1>5. EyesInv
  BY <1>1 DEF Init, EyesInv, VerifiedMeansSeen, WaitsForTarget
<1> QED
  BY <1>4, <1>5

LEMMA Invariance == Spec => [](GoalInv /\ EyesInv)
<1>1. GoalInv /\ EyesInv /\ [Next]_vars => (GoalInv /\ EyesInv)'
  BY GoalSteps, GoalStepInv, EyesStepInv
<1> QED
  BY InitInv, <1>1, PTL DEF Spec

----------------------------------------------------------------------------
\* The planner's flags and counters tell which goal is open, in whatever order lines,
\* visual errors, vetoes and lapses come.
THEOREM GoalsAreAccounted == Spec => []GoalsAccounted
<1>1. GoalInv => GoalsAccounted
  BY DEF GoalInv
<1> QED
  BY Invariance, <1>1, PTL

\* No goal is carried out twice, and none after it was cancelled.
THEOREM GoalsRunOnce == Spec => []RunsOnce
<1>1. GoalInv => RunsOnce
  BY DEF GoalInv
<1> QED
  BY Invariance, <1>1, PTL

\* Each goal comes to exactly one end, and until then it is the one that is held.
THEOREM EveryGoalEndsOnce == Spec => []GoalsEndOnce
<1>1. GoalsAccounted /\ RunsOnce => GoalsEndOnce
  BY DEF GoalsEndOnce
<1> QED
  BY GoalsAreAccounted, GoalsRunOnce, <1>1, PTL

\* The flag says that the window was seen, or was inherited from another one.
THEOREM VerifiedIsSeen == Spec => []VerifiedMeansSeen
<1>1. EyesInv => VerifiedMeansSeen
  BY DEF EyesInv
<1> QED
  BY Invariance, <1>1, PTL

----------------------------------------------------------------------------
(***************************************************************************)
(* Naturals and sequences                                                   *)
(***************************************************************************)
\* The order of the naturals as a relation.
Less == {ss \in Nat \X Nat : ss[1] < ss[2]}

LEMMA LessWellFounded == IsWellFoundedOn(Less, Nat)
BY NatLessThanWellFounded DEF OpToRel, Less

LEMMA LeastNatural ==
    ASSUME NEW T \in SUBSET Nat, T # {}
    PROVE  \E x \in T : \A y \in T : x <= y
<1>1. PICK x \in T : \A y \in T : <<y, x>> \notin Less
  BY LessWellFounded, WFMin
<1>2. ASSUME NEW y \in T
      PROVE  x <= y
  <2>1. <<y, x>> \in Nat \X Nat
    OBVIOUS
  <2>2. ~(y < x)
    BY <1>1, <2>1 DEF Less
  <2> QED
    BY <2>2
<1> QED
  BY <1>2

\* Induction over the naturals up to a bound, for sets.
LEMMA UpTo ==
    ASSUME NEW lo \in Nat, NEW hi \in Nat, lo <= hi, NEW T,
           lo \in T, \A k \in lo .. hi - 1 : k \in T => k + 1 \in T
    PROVE  \A k \in lo .. hi : k \in T
<1> DEFINE Bad == {k \in lo .. hi : k \notin T}
<1> SUFFICES ASSUME Bad # {} PROVE FALSE
  OBVIOUS
<1>0. Bad \in SUBSET Nat
  OBVIOUS
<1>1. PICK x \in Bad : \A y \in Bad : x <= y
  <2> HIDE DEF Bad
  <2> QED
    BY <1>0, LeastNatural
<1>2. x # lo /\ x - 1 \in lo .. hi - 1
  BY <1>1
<1>3. x - 1 \in T
  BY <1>1, <1>2
<1> QED
  BY <1>1, <1>2, <1>3

\* Two sequences, one after the other.
LEMMA Joined ==
    ASSUME NEW S, NEW s \in Seq(S), NEW t \in Seq(S)
    PROVE  /\ s \o t \in Seq(S) /\ Len(s \o t) = Len(s) + Len(t)
           /\ \A i \in 1 .. Len(s) : (s \o t)[i] = s[i]
           /\ \A i \in 1 .. Len(t) : (s \o t)[Len(s) + i] = t[i]
OBVIOUS

\* What FlattenSeq computes, from left to right.
Flattens(ss, F) ==
    F = [i \in 1 .. Len(ss) |-> IF i = 1 THEN ss[i] ELSE F[i - 1] \o ss[i]]

LEMMA FlattenExists ==
    ASSUME NEW S, NEW ss \in Seq(Seq(S)), Len(ss) > 0
    PROVE  \E F \in [1 .. Len(ss) -> Seq(S)] : Flattens(ss, F)
<1> DEFINE L == Len(ss)
           Upto(k, F) == /\ F \in [1 .. k -> Seq(S)]
                         /\ \A i \in 1 .. k : F[i] = IF i = 1 THEN ss[i] ELSE F[i - 1] \o ss[i]
           T == {k \in 1 .. L : \E F : Upto(k, F)}
<1>1. L \in Nat /\ 1 <= L /\ \A i \in 1 .. L : ss[i] \in Seq(S)
  OBVIOUS
<1>2. 1 \in T
  <2> DEFINE F == [i \in 1 .. 1 |-> ss[i]]
  <2>1. Upto(1, F)
    BY <1>1
  <2> HIDE DEF F, Upto
  <2> QED
    BY <1>1, <2>1
<1>3. ASSUME NEW k \in 1 .. L - 1, k \in T
      PROVE  k + 1 \in T
  <2>1. PICK F : Upto(k, F)
    BY <1>3
  <2> DEFINE G == [i \in 1 .. k + 1 |-> IF i = k + 1 THEN F[k] \o ss[i] ELSE F[i]]
  <2>2. k + 1 \in 1 .. L /\ F[k] \in Seq(S) /\ ss[k + 1] \in Seq(S)
    BY <1>1, <2>1
  <2>3. F[k] \o ss[k + 1] \in Seq(S)
    BY <2>2, Joined
  <2>4. G \in [1 .. k + 1 -> Seq(S)]
    BY <2>1, <2>3
  <2>5. ASSUME NEW i \in 1 .. k + 1
        PROVE  G[i] = IF i = 1 THEN ss[i] ELSE G[i - 1] \o ss[i]
    <3>1. CASE i = k + 1
      <4>1. i # 1 /\ i - 1 = k /\ k \in 1 .. k + 1 /\ k # k + 1
        BY <3>1
      <4>2. G[i] = F[k] \o ss[i] /\ G[i - 1] = F[k]
        BY <3>1, <4>1
      <4> QED
        BY <4>1, <4>2
    <3>2. CASE i # k + 1
      <4>1. i \in 1 .. k /\ (i # 1 => i - 1 \in 1 .. k /\ i - 1 # k + 1)
        BY <3>2
      <4>2. G[i] = F[i] /\ (i # 1 => G[i - 1] = F[i - 1])
        BY <4>1
      <4> QED
        BY <2>1, <4>1, <4>2
    <3> QED
      BY <3>1, <3>2
  <2>6. Upto(k + 1, G)
    BY <2>4, <2>5
  <2> QED
    BY <2>2, <2>6
<1>4. L \in T
  <2> HIDE DEF T
  <2>1. \A k \in 1 .. L : k \in T
    BY <1>1, <1>2, <1>3, UpTo
  <2> QED
    BY <1>1, <2>1
<1>5. PICK F : Upto(L, F)
  BY <1>4
<1> QED
  BY <1>5 DEF Flattens

LEMMA FlattenIs ==
    ASSUME NEW S, NEW ss \in Seq(Seq(S)), Len(ss) > 0
    PROVE  \E F \in [1 .. Len(ss) -> Seq(S)] : Flattens(ss, F) /\ FlattenSeq(ss) = F[Len(ss)]
<1> DEFINE F == CHOOSE F : Flattens(ss, F)
<1>1. Flattens(ss, F)
  BY FlattenExists
<1>2. FlattenSeq(ss) = F[Len(ss)]
  BY DEF FlattenSeq, Flattens
<1>3. \A i \in 1 .. Len(ss) : F[i] \in Seq(S)
  <2> DEFINE T == {i \in 1 .. Len(ss) : F[i] \in Seq(S)}
  <2> HIDE DEF F
  <2>0. Len(ss) \in Nat /\ 1 <= Len(ss) /\ \A i \in 1 .. Len(ss) : ss[i] \in Seq(S)
    OBVIOUS
  <2>1. \A i \in 1 .. Len(ss) : F[i] = IF i = 1 THEN ss[i] ELSE F[i - 1] \o ss[i]
    BY <1>1, Zenon DEF Flattens
  <2>2. 1 \in T
    BY <2>0, <2>1
  <2>3. \A k \in 1 .. Len(ss) - 1 : k \in T => k + 1 \in T
    <3> SUFFICES ASSUME NEW k \in 1 .. Len(ss) - 1, k \in T PROVE k + 1 \in T
      OBVIOUS
    <3>1. k + 1 \in 1 .. Len(ss) /\ k + 1 # 1 /\ (k + 1) - 1 = k
      BY <2>0
    <3>2. F[k + 1] = F[k] \o ss[k + 1]
      BY <2>1, <3>1
    <3>3. F[k] \in Seq(S) /\ ss[k + 1] \in Seq(S)
      BY <2>0, <3>1
    <3>4. F[k] \o ss[k + 1] \in Seq(S)
      BY <3>3, Joined
    <3> QED
      BY <3>1, <3>2, <3>4
  <2> HIDE DEF T
  <2>4. \A k \in 1 .. Len(ss) : k \in T
    BY <2>0, <2>2, <2>3, UpTo
  <2> QED
    BY <2>4 DEF T
<1>4. F \in [1 .. Len(ss) -> Seq(S)]
  <2> HIDE DEF F
  <2> QED
    BY <1>1, <1>3 DEF Flattens
<1> QED
  BY <1>1, <1>2, <1>4

\* The beginning of a sequence.
LEMMA BeginningIs ==
    ASSUME NEW S, NEW s \in Seq(S), NEW n \in Nat
    PROVE  /\ Beginning(s, n) \in Seq(S)
           /\ Len(Beginning(s, n)) = IF n < Len(s) THEN n ELSE Len(s)
           /\ \A i \in 1 .. Len(Beginning(s, n)) : Beginning(s, n)[i] = s[i]
           /\ Len(s) <= n => Beginning(s, n) = s
<1> DEFINE m == IF n < Len(s) THEN n ELSE Len(s)
<1>1. m \in 0 .. Len(s) /\ \A i \in 1 .. m : s[i] \in S
  OBVIOUS
<1>2. Beginning(s, n) = SubSeq(s, 1, m)
  BY DEF Beginning
<1> HIDE DEF m
<1>3. /\ SubSeq(s, 1, m) \in Seq(S) /\ Len(SubSeq(s, 1, m)) = m
      /\ \A i \in 1 .. m : SubSeq(s, 1, m)[i] = s[i]
  BY <1>1
<1>4. Len(s) <= n => Beginning(s, n) = s
  BY <1>2, SubSeqFull DEF m
<1> QED
  BY <1>2, <1>3, <1>4 DEF m

LEMMA BeginningNone ==
    ASSUME NEW S, NEW s \in Seq(S), NEW n \in Nat
    PROVE  /\ Beginning(s, 0) = <<>>
           /\ Beginning(<<>>, n) = <<>>
<1>1. Beginning(s, 0) = <<>>
  BY BeginningIs, EmptySeq
<1>2. Beginning(<<>>, n) = <<>>
  BY BeginningIs, EmptySeq
<1> QED
  BY <1>1, <1>2

\* Where a sequence that is cut ends, its two parts can be cut one after the other.
LEMMA BeginningJoined ==
    ASSUME NEW S, NEW s \in Seq(S), NEW t \in Seq(S), NEW n \in Nat
    PROVE  /\ n - Len(Beginning(s, n)) \in 0 .. n
           /\ Beginning(s \o t, n) = Beginning(s, n) \o Beginning(t, n - Len(Beginning(s, n)))
<1> DEFINE a == Beginning(s, n)
           m == n - Len(a)
           b == Beginning(t, m)
           c == Beginning(s \o t, n)
<1>1. /\ a \in Seq(S) /\ Len(a) = IF n < Len(s) THEN n ELSE Len(s)
      /\ \A i \in 1 .. Len(a) : a[i] = s[i]
  BY BeginningIs
<1>2. m \in 0 .. n /\ m = n - Len(a) /\ Len(s) \in Nat /\ Len(t) \in Nat
  BY <1>1
<1> HIDE DEF a, m
<1>3. /\ b \in Seq(S) /\ Len(b) = IF m < Len(t) THEN m ELSE Len(t)
      /\ \A i \in 1 .. Len(b) : b[i] = t[i]
  BY <1>2, BeginningIs
<1>4. /\ s \o t \in Seq(S) /\ Len(s \o t) = Len(s) + Len(t)
      /\ \A i \in 1 .. Len(s) : (s \o t)[i] = s[i]
      /\ \A i \in 1 .. Len(t) : (s \o t)[Len(s) + i] = t[i]
  BY Joined
<1>5. /\ c \in Seq(S) /\ Len(c) = IF n < Len(s) + Len(t) THEN n ELSE Len(s) + Len(t)
      /\ \A i \in 1 .. Len(c) : c[i] = (s \o t)[i]
  BY <1>4, BeginningIs
<1> HIDE DEF b, c
<1>6. a \in Seq(S) /\ b \in Seq(S)
  BY <1>1, <1>3
<1>7. /\ a \o b \in Seq(S) /\ Len(a \o b) = Len(a) + Len(b)
      /\ \A i \in 1 .. Len(a) : (a \o b)[i] = a[i]
      /\ \A i \in 1 .. Len(b) : (a \o b)[Len(a) + i] = b[i]
  BY <1>6, Joined
<1>8. Len(c) = Len(a) + Len(b)
  <2>1. CASE n < Len(s)
    <3>1. Len(a) = n /\ m = 0
      BY <1>1, <1>2, <2>1
    <3>2. Len(b) = 0
      BY <1>2, <1>3, <3>1
    <3> QED
      BY <1>2, <1>5, <2>1, <3>1, <3>2
  <2>2. CASE ~(n < Len(s))
    <3>1. Len(a) = Len(s) /\ m = n - Len(s)
      BY <1>1, <1>2, <2>2
    <3> QED
      BY <1>2, <1>3, <1>5, <2>2, <3>1
  <2> QED
    BY <2>1, <2>2
<1>9. ASSUME NEW i \in 1 .. Len(c)
      PROVE  (a \o b)[i] = c[i]
  <2>1. CASE i <= Len(a)
    <3>1. i \in 1 .. Len(a) /\ i \in 1 .. Len(s)
      BY <1>1, <1>2, <1>5, <2>1
    <3>2. (a \o b)[i] = s[i]
      BY <1>1, <1>7, <3>1
    <3>3. c[i] = s[i]
      BY <1>4, <1>5, <3>1
    <3> QED
      BY <3>2, <3>3
  <2>2. CASE i > Len(a)
    <3>1. Len(a) = Len(s) /\ i - Len(s) \in 1 .. Len(b) /\ Len(b) <= Len(t)
      BY <1>1, <1>2, <1>3, <1>5, <1>8, <2>2
    <3>2. (a \o b)[Len(a) + (i - Len(s))] = t[i - Len(s)]
      BY <1>3, <1>7, <3>1
    <3>3. (s \o t)[Len(s) + (i - Len(s))] = t[i - Len(s)]
      BY <1>2, <1>4, <3>1
    <3>4. Len(a) + (i - Len(s)) = i /\ Len(s) + (i - Len(s)) = i
      BY <1>2, <1>5, <3>1
    <3> QED
      BY <1>5, <3>2, <3>3, <3>4
  <2>3. i <= Len(a) \/ i > Len(a)
    BY <1>1, <1>2
  <2> QED
    BY <2>1, <2>2, <2>3
<1>10. c = a \o b
  <2>1. \A i \in 1 .. Len(c) : c[i] = (a \o b)[i]
    BY <1>9
  <2> QED
    BY <1>5, <1>7, <1>8, <2>1, SeqEqual
<1> QED
  BY <1>2, <1>10 DEF a, b, c, m

\* The first element comes before the beginning of the rest.
LEMMA BeginningCons ==
    ASSUME NEW S, NEW x \in S, NEW s \in Seq(S), NEW n \in Nat \ {0}
    PROVE  Beginning(<<x>> \o s, n) = <<x>> \o Beginning(s, n - 1)
<1> DEFINE y == <<x>>
<1>1. y \in Seq(S) /\ n \in Nat
  OBVIOUS
<1>2. Len(y) = 1 /\ Len(y) <= n
  OBVIOUS
<1> HIDE DEF y
<1>3. Beginning(y, n) = y
  BY <1>1, <1>2, BeginningIs
<1>4. \A a, b \in Seq(S) :
        Beginning(a \o b, n) = Beginning(a, n) \o Beginning(b, n - Len(Beginning(a, n)))
  BY <1>1, BeginningJoined, Zenon
<1>5. Beginning(y \o s, n) = y \o Beginning(s, n - 1)
  <2>1. Beginning(y \o s, n) = Beginning(y, n) \o Beginning(s, n - Len(Beginning(y, n)))
    BY <1>1, <1>4, Zenon
  <2> QED
    BY <1>2, <1>3, <2>1, Zenon
<1> QED
  BY <1>5 DEF y

----------------------------------------------------------------------------
(***************************************************************************)
(* The chains of the graph                                                  *)
(***************************************************************************)
\* The part of TypeOK that is about the graph.
PlanType ==
    /\ motor_action \in Seq(Action)
    /\ sequence_edge \in Seq(0 .. Len(motor_action))
    /\ Len(sequence_edge) = Len(motor_action)
    /\ implemented_by \in [Concepts -> Seq(1 .. Len(motor_action))]

\* A motor node's chain goes on with the node that was spawned next.
Linked ==
    \A n \in 1 .. Len(motor_action) :
        sequence_edge[n] # 0 => sequence_edge[n] = n + 1

MotorNodes == 1 .. Len(motor_action)

\* What is known of the chains, unfolded.
LEMMA PlanFacts ==
    ASSUME PlanType, Linked
    PROVE  /\ Len(motor_action) \in Nat
           /\ \A n \in MotorNodes : sequence_edge[n] \in 0 .. Len(motor_action)
           /\ \A n \in MotorNodes : sequence_edge[n] # 0 =>
                 sequence_edge[n] = n + 1 /\ n + 1 \in MotorNodes
BY DEF PlanType, Linked, MotorNodes

\* The equation that Follow is the solution of; it has one, and Follow is typed.
Follows(f) ==
    f = [n \in 0 .. Len(motor_action) |-> IF n = 0 THEN <<>> ELSE <<n>> \o f[sequence_edge[n]]]

\* From the newest node back to the first one: each one's chain is itself and the chain
\* of the next one, or nothing.
LEMMA FollowExists ==
    ASSUME PlanType, Linked
    PROVE  \E f : f \in [0 .. Len(motor_action) -> Seq(MotorNodes)] /\ Follows(f)
<1> DEFINE L == Len(motor_action)
           e(n) == sequence_edge[n]
           Newest(j, F) ==
               /\ F \in [L - j + 1 .. L -> Seq(MotorNodes)]
               /\ \A n \in L - j + 1 .. L :
                     F[n] = IF e(n) = 0 THEN <<n>> ELSE <<n>> \o F[n + 1]
           T == {j \in 0 .. L : \E F : Newest(j, F)}
<1>1. /\ L \in Nat /\ MotorNodes = 1 .. L
      /\ \A n \in 1 .. L : e(n) \in 0 .. L /\ (e(n) # 0 => e(n) = n + 1 /\ n + 1 \in 1 .. L)
  BY PlanFacts DEF MotorNodes
<1> HIDE DEF L, e
<1>2. 0 \in T
  <2> DEFINE F == [n \in L - 0 + 1 .. L |-> <<n>>]
  <2>1. Newest(0, F)
    BY <1>1
  <2> HIDE DEF F, Newest
  <2> QED
    BY <1>1, <2>1
<1>3. ASSUME NEW j \in 0 .. L - 1, j \in T
      PROVE  j + 1 \in T
  <2>1. PICK F : Newest(j, F)
    BY <1>3
  <2> DEFINE m == L - j
             chain == IF e(m) = 0 THEN <<m>> ELSE <<m>> \o F[m + 1]
             G == [n \in m .. L |-> IF n = m THEN chain ELSE F[n]]
  <2>2. m \in 1 .. L /\ L - j + 1 = m + 1 /\ L - (j + 1) + 1 = m
    BY <1>1
  <2>3. chain \in Seq(MotorNodes)
    <3>1. <<m>> \in Seq(MotorNodes)
      BY <1>1, <2>2
    <3>2. CASE e(m) # 0
      <4>1. F[m + 1] \in Seq(MotorNodes)
        BY <1>1, <2>1, <2>2, <3>2
      <4> QED
        BY <3>1, <3>2, <4>1, Joined
    <3> QED
      BY <3>1, <3>2
  <2>4. G \in [m .. L -> Seq(MotorNodes)]
    <3> HIDE DEF chain
    <3>1. ASSUME NEW n \in m .. L, n # m PROVE F[n] \in Seq(MotorNodes)
      BY <1>1, <2>1, <2>2, <3>1
    <3> QED
      BY <2>3, <3>1
  <2>5. ASSUME NEW n \in m .. L
        PROVE  G[n] = IF e(n) = 0 THEN <<n>> ELSE <<n>> \o G[n + 1]
    <3>1. CASE n = m
      <4>1. e(m) # 0 => m + 1 \in m .. L /\ m + 1 # m
        BY <1>1, <2>2
      <4>2. e(m) # 0 => G[m + 1] = F[m + 1]
        BY <4>1
      <4> QED
        BY <3>1, <4>2
    <3>2. CASE n # m
      <4>1. n \in L - j + 1 .. L /\ n + 1 # m /\ G[n] = F[n]
        BY <1>1, <2>2, <3>2
      <4>2. e(n) # 0 => G[n + 1] = F[n + 1]
        BY <1>1, <2>2, <4>1
      <4> QED
        BY <2>1, <4>1, <4>2
    <3> QED
      BY <3>1, <3>2
  <2>6. Newest(j + 1, G)
    <3> HIDE DEF m, G
    <3>1. L - (j + 1) + 1 = m
      BY <2>2
    <3>2. Newest(j + 1, G) <=> /\ G \in [m .. L -> Seq(MotorNodes)]
                               /\ \A n \in m .. L :
                                     G[n] = IF e(n) = 0 THEN <<n>> ELSE <<n>> \o G[n + 1]
      BY <3>1
    <3> QED
      BY <2>4, <2>5, <3>2
  <2> HIDE DEF G, Newest
  <2>7. j + 1 \in 0 .. L
    BY <1>1
  <2> QED
    BY <2>6, <2>7
<1>4. PICK F : Newest(L, F)
  <2> HIDE DEF T
  <2>0. 0 \in Nat /\ L \in Nat /\ 0 <= L
    BY <1>1
  <2>1. \A j \in 0 .. L : j \in T
    BY <2>0, <1>2, <1>3, UpTo
  <2>2. L \in T
    BY <1>1, <2>1
  <2> QED
    BY <2>2 DEF T
<1> DEFINE f == [n \in 0 .. L |-> IF n = 0 THEN <<>> ELSE F[n]]
<1>5. L - L + 1 = 1
  BY <1>1
<1>6. /\ F \in [1 .. L -> Seq(MotorNodes)]
      /\ \A n \in 1 .. L : F[n] = IF e(n) = 0 THEN <<n>> ELSE <<n>> \o F[n + 1]
  BY <1>4, <1>5
<1>7. f \in [0 .. L -> Seq(MotorNodes)]
  <2>1. \A n \in 0 .. L : n # 0 => n \in 1 .. L
    BY <1>1
  <2>2. <<>> \in Seq(MotorNodes)
    OBVIOUS
  <2> QED
    BY <1>6, <2>1, <2>2
<1>8. f[0] = <<>> /\ \A n \in 1 .. L : f[n] = F[n]
  BY <1>1
<1> HIDE DEF f
<1>9. ASSUME NEW n \in 1 .. L
      PROVE  f[n] = <<n>> \o f[e(n)]
  <2>1. CASE e(n) = 0
    <3>1. f[e(n)] = <<>> /\ f[n] = <<n>>
      BY <1>6, <1>8, <2>1
    <3>2. <<n>> \o <<>> = <<n>>
      BY <1>1
    <3> QED
      BY <3>1, <3>2
  <2>2. CASE e(n) # 0
    <3>1. e(n) = n + 1 /\ n + 1 \in 1 .. L
      BY <1>1, <2>2
    <3>2. f[e(n)] = F[n + 1]
      BY <1>8, <3>1
    <3> QED
      BY <1>6, <1>8, <2>2, <3>2
  <2> QED
    BY <2>1, <2>2
<1>10. f = [n \in 0 .. L |-> IF n = 0 THEN <<>> ELSE <<n>> \o f[e(n)]]
  <2>1. \A n \in 0 .. L : n # 0 => n \in 1 .. L
    BY <1>1
  <2>2. \A n \in 0 .. L : f[n] = IF n = 0 THEN <<>> ELSE <<n>> \o f[e(n)]
    BY <1>8, <1>9, <2>1
  <2> QED
    BY <1>7, <2>2
<1> QED
  BY <1>7, <1>10 DEF Follows, L, e

LEMMA FollowEquation ==
    ASSUME PlanType, Linked
    PROVE  Follows(Follow)
<1>1. \E f : Follows(f)
  BY FollowExists
<1>2. Follow = CHOOSE f : Follows(f)
  BY DEF Follow, Follows
<1> QED
  BY <1>1, <1>2

LEMMA FollowIs ==
    ASSUME PlanType, Linked
    PROVE  /\ Follow \in [0 .. Len(motor_action) -> Seq(MotorNodes)]
           /\ Follow[0] = <<>>
           /\ \A n \in MotorNodes : Follow[n] = <<n>> \o Follow[sequence_edge[n]]
<1> DEFINE L == Len(motor_action)
           f == Follow
           e(n) == sequence_edge[n]
           T == {j \in 0 .. L : \A n \in L - j + 1 .. L : f[n] \in Seq(MotorNodes)}
<1>1. /\ L \in Nat /\ MotorNodes = 1 .. L
      /\ \A n \in 1 .. L : e(n) \in 0 .. L /\ (e(n) # 0 => e(n) = n + 1 /\ n + 1 \in 1 .. L)
  BY PlanFacts DEF MotorNodes
<1>2. f = [n \in 0 .. L |-> IF n = 0 THEN <<>> ELSE <<n>> \o f[e(n)]]
  BY FollowEquation, Zenon DEF Follows
<1> HIDE DEF L, f, e
<1>3. f[0] = <<>> /\ \A n \in 1 .. L : f[n] = <<n>> \o f[e(n)]
  <2>1. \A n \in 0 .. L : f[n] = IF n = 0 THEN <<>> ELSE <<n>> \o f[e(n)]
    BY <1>2, Zenon
  <2>2. 0 \in 0 .. L /\ \A n \in 1 .. L : n \in 0 .. L /\ n # 0
    BY <1>1
  <2>3. f[0] = <<>>
    BY <2>1, <2>2, Zenon
  <2>4. \A n \in 1 .. L : f[n] = <<n>> \o f[e(n)]
    BY <2>1, <2>2, Zenon
  <2> QED
    BY <2>3, <2>4
<1>4. 0 \in T
  BY <1>1
<1>5. ASSUME NEW j \in 0 .. L - 1, j \in T
      PROVE  j + 1 \in T
  <2> SUFFICES ASSUME NEW n \in L - (j + 1) + 1 .. L PROVE f[n] \in Seq(MotorNodes)
    BY <1>1
  <2>1. n \in 1 .. L /\ <<n>> \in Seq(MotorNodes)
    BY <1>1
  <2>2. f[e(n)] \in Seq(MotorNodes)
    <3>1. CASE e(n) = 0
      <4>1. f[e(n)] = <<>> /\ <<>> \in Seq(MotorNodes)
        BY <1>3, <3>1
      <4> QED
        BY <4>1
    <3>2. CASE e(n) # 0
      <4>1. e(n) \in L - j + 1 .. L
        BY <1>1, <2>1, <3>2
      <4> QED
        BY <1>5, <4>1
    <3> QED
      BY <3>1, <3>2
  <2>3. <<n>> \o f[e(n)] \in Seq(MotorNodes)
    BY <2>1, <2>2, Joined
  <2> QED
    BY <1>3, <2>1, <2>3
<1>6. \A n \in 1 .. L : f[n] \in Seq(MotorNodes)
  <2> HIDE DEF T
  <2>1. 0 \in Nat /\ L \in Nat /\ 0 <= L
    BY <1>1
  <2>2. \A j \in 0 .. L : j \in T
    BY <2>1, <1>4, <1>5, UpTo
  <2>3. L \in T
    BY <2>1, <2>2
  <2> QED
    BY <1>1, <2>3 DEF T
<1>7. f \in [0 .. L -> Seq(MotorNodes)]
  <2>0. \A n \in 0 .. L : n = 0 \/ n \in 1 .. L
    BY <1>1
  <2>1. \A n \in 0 .. L : f[n] \in Seq(MotorNodes)
    <3>1. f[0] \in Seq(MotorNodes)
      BY <1>3, EmptySeq
    <3> QED
      BY <1>6, <2>0, <3>1
  <2>2. \E g : f = [n \in 0 .. L |-> g[n]]
    <3>1. \E g : g = [n \in 0 .. L |-> IF n = 0 THEN <<>> ELSE <<n>> \o f[e(n)]]
      OBVIOUS
    <3> QED
      BY <1>2
  <2> QED
    BY <2>1, <2>2
<1> QED
  BY <1>1, <1>3, <1>7, Zenon DEF L, f, e

\* The same for Walk.
Walks(w) ==
    w = [room \in 0 .. MaxChain |->
            [n \in 0 .. Len(motor_action) |->
                IF n = 0 \/ room = 0 THEN <<>> ELSE <<n>> \o w[room - 1][sequence_edge[n]]]]

\* A walk that stops when there is no room left is the beginning of the one that does not.
LEMMA WalkIs ==
    ASSUME PlanType, Linked
    PROVE  \A room \in 0 .. MaxChain, n \in 0 .. Len(motor_action) :
               Walk[room][n] = Beginning(Follow[n], room)
<1> DEFINE L == Len(motor_action)
           M == MaxChain
           f == Follow
           e(n) == sequence_edge[n]
           W == [room \in 0 .. M |-> [n \in 0 .. L |-> Beginning(f[n], room)]]
<1>1. /\ L \in Nat /\ M \in Nat /\ MotorNodes = 1 .. L
      /\ \A n \in 1 .. L : e(n) \in 0 .. L
  BY PlanFacts, PlanAssumption DEF MotorNodes
<1>2. /\ f \in [0 .. L -> Seq(MotorNodes)] /\ f[0] = <<>>
      /\ \A n \in 1 .. L : f[n] = <<n>> \o f[e(n)]
  BY FollowIs DEF MotorNodes
<1> HIDE DEF L, M, f, e
<1>3. ASSUME NEW room \in 0 .. M, NEW n \in 0 .. L
      PROVE  Beginning(f[n], room) =
                 IF n = 0 \/ room = 0 THEN <<>> ELSE <<n>> \o Beginning(f[e(n)], room - 1)
  <2>0. f[n] \in Seq(MotorNodes) /\ room \in Nat
    BY <1>1, <1>2
  <2>1. CASE n = 0
    BY <1>2, <2>0, <2>1, BeginningNone
  <2>2. CASE room = 0
    BY <2>0, <2>2, BeginningNone
  <2>3. CASE n # 0 /\ room # 0
    <3>1. n \in 1 .. L /\ n \in MotorNodes /\ room \in Nat \ {0}
      BY <1>1, <2>3
    <3>2. f[e(n)] \in Seq(MotorNodes) /\ f[n] = <<n>> \o f[e(n)]
      BY <1>1, <1>2, <3>1
    <3>3. Beginning(<<n>> \o f[e(n)], room) = <<n>> \o Beginning(f[e(n)], room - 1)
      BY <3>1, <3>2, BeginningCons
    <3> QED
      BY <2>3, <3>2, <3>3
  <2> QED
    BY <2>1, <2>2, <2>3
<1>4. W = [room \in 0 .. M |->
              [n \in 0 .. L |->
                  IF n = 0 \/ room = 0 THEN <<>> ELSE <<n>> \o W[room - 1][e(n)]]]
  <2>1. ASSUME NEW room \in 0 .. M, NEW n \in 0 .. L
        PROVE  W[room][n] = IF n = 0 \/ room = 0 THEN <<>> ELSE <<n>> \o W[room - 1][e(n)]
    <3>1. W[room][n] = Beginning(f[n], room)
      OBVIOUS
    <3>2. CASE n # 0 /\ room # 0
      <4>1. room - 1 \in 0 .. M /\ e(n) \in 0 .. L
        BY <1>1, <3>2
      <4>2. W[room - 1][e(n)] = Beginning(f[e(n)], room - 1)
        BY <4>1
      <4> QED
        BY <1>3, <3>1, <3>2, <4>2
    <3>3. CASE n = 0 \/ room = 0
      BY <1>3, <3>1, <3>3
    <3> QED
      BY <3>2, <3>3
  <2>2. \A room \in 0 .. M :
            W[room] = [n \in 0 .. L |->
                  IF n = 0 \/ room = 0 THEN <<>> ELSE <<n>> \o W[room - 1][e(n)]]
    <3> SUFFICES ASSUME NEW room \in 0 .. M
                 PROVE  W[room] = [n \in 0 .. L |->
                            IF n = 0 \/ room = 0 THEN <<>> ELSE <<n>> \o W[room - 1][e(n)]]
      OBVIOUS
    <3>1. W[room] = [n \in 0 .. L |-> Beginning(f[n], room)]
      OBVIOUS
    <3>2. \A n \in 0 .. L : Beginning(f[n], room) =
              IF n = 0 \/ room = 0 THEN <<>> ELSE <<n>> \o W[room - 1][e(n)]
      BY <2>1, <3>1
    <3> HIDE DEF W
    <3> QED
      BY <3>1, <3>2
  <2>3. W = [room \in 0 .. M |-> W[room]]
    OBVIOUS
  <2> HIDE DEF W
  <2> QED
    BY <2>2, <2>3
<1>5. Walks(Walk)
  <2>1. \E w : Walks(w)
    <3> HIDE DEF W
    <3> QED
      BY <1>4, Zenon DEF Walks, L, M, e
  <2>2. Walk = CHOOSE w : Walks(w)
    BY Zenon DEF Walk, Walks
  <2> QED
    BY <2>1, <2>2
<1> HIDE DEF W
<1> DEFINE w == Walk
           T == {room \in 0 .. M : \A n \in 0 .. L : w[room][n] = Beginning(f[n], room)}
<1>6. w = [room \in 0 .. M |->
              [n \in 0 .. L |->
                  IF n = 0 \/ room = 0 THEN <<>> ELSE <<n>> \o w[room - 1][e(n)]]]
  BY <1>5, Zenon DEF Walks, L, M, e
<1> HIDE DEF w
<1>7. \A room \in 0 .. M : \A n \in 0 .. L :
          w[room][n] = IF n = 0 \/ room = 0 THEN <<>> ELSE <<n>> \o w[room - 1][e(n)]
  <2>1. \A room \in 0 .. M :
            w[room] = [n \in 0 .. L |->
                  IF n = 0 \/ room = 0 THEN <<>> ELSE <<n>> \o w[room - 1][e(n)]]
    BY <1>6, Zenon
  <2> QED
    BY <2>1, Zenon
<1>8. 0 \in T
  <2>1. 0 \in 0 .. M
    BY <1>1
  <2>2. \A n \in 0 .. L : w[0][n] = <<>> /\ Beginning(f[n], 0) = <<>>
    BY <1>3, <1>7, <2>1
  <2> QED
    BY <2>1, <2>2
<1>9. ASSUME NEW r \in 0 .. M - 1, r \in T
      PROVE  r + 1 \in T
  <2>1. r + 1 \in 0 .. M /\ (r + 1) - 1 = r /\ r + 1 # 0
    BY <1>1
  <2>2. ASSUME NEW n \in 0 .. L
        PROVE  w[r + 1][n] = Beginning(f[n], r + 1)
    <3>1. CASE n = 0
      BY <1>3, <1>7, <2>1, <3>1
    <3>2. CASE n # 0
      <4>1. e(n) \in 0 .. L
        BY <1>1, <3>2
      <4>2. w[r][e(n)] = Beginning(f[e(n)], r)
        BY <1>9, <4>1
      <4>3. w[r + 1][n] = <<n>> \o w[r][e(n)]
        BY <1>7, <2>1, <3>2
      <4>4. Beginning(f[n], r + 1) = <<n>> \o Beginning(f[e(n)], r)
        BY <1>3, <2>1, <3>2
      <4> QED
        BY <4>2, <4>3, <4>4
    <3> QED
      BY <3>1, <3>2
  <2> QED
    BY <2>1, <2>2
<1>10. \A r \in 0 .. M : r \in T
  <2> HIDE DEF T
  <2>1. 0 \in Nat /\ M \in Nat /\ 0 <= M
    BY <1>1
  <2> QED
    BY <2>1, <1>8, <1>9, UpTo
<1> QED
  BY <1>10, Zenon DEF L, M, f, w

\* The chains behind a concept.
Chains(heads) == [k \in DOMAIN heads |-> Follow[heads[k]]]

LEMMA ChainsType ==
    ASSUME PlanType, Linked, NEW heads \in Seq(MotorNodes)
    PROVE  Chains(heads) \in Seq(Seq(MotorNodes)) /\ Len(Chains(heads)) = Len(heads)
<1>1. /\ Len(heads) \in Nat /\ DOMAIN heads = 1 .. Len(heads)
      /\ \A k \in 1 .. Len(heads) : heads[k] \in MotorNodes
  OBVIOUS
<1>2. \A k \in 1 .. Len(heads) : Follow[heads[k]] \in Seq(MotorNodes)
  BY <1>1, FollowIs, PlanFacts DEF MotorNodes
<1>3. Chains(heads) = [k \in 1 .. Len(heads) |-> Follow[heads[k]]]
  BY <1>1 DEF Chains
<1> QED
  BY <1>1, <1>2, <1>3

\* The equation of the collection of ScreenedChain.
Collects(heads, f) ==
    f = [k \in 0 .. Len(heads) |->
            IF k = 0 THEN <<>>
            ELSE f[k - 1] \o Walk[MaxChain - Len(f[k - 1])][heads[k]]]

\* The plan that is screened is the beginning of the plan that is queued.
LEMMA ScreenedIs ==
    ASSUME PlanType, Linked, NEW c \in Concepts
    PROVE  /\ QueuedChain(c) \in Seq(MotorNodes)
           /\ ScreenedChain(c) = Beginning(QueuedChain(c), MaxChain)
<1> DEFINE heads == implemented_by[c]
           L == Len(heads)
           M == MaxChain
           ss == Chains(heads)
           g == CHOOSE h : Collects(heads, h)
<1>1. /\ heads \in Seq(MotorNodes) /\ L \in Nat /\ DOMAIN heads = 1 .. L
      /\ \A k \in 1 .. L : heads[k] \in MotorNodes
      /\ MotorNodes \subseteq 0 .. Len(motor_action) /\ M \in Nat
  BY PlanFacts, PlanAssumption DEF PlanType, MotorNodes
<1>2. QueuedChain(c) = FlattenSeq(ss)
  BY DEF QueuedChain, Chains
<1>3. ScreenedChain(c) = g[L]
  BY Zenon DEF ScreenedChain, Collects
<1>4. ss \in Seq(Seq(MotorNodes)) /\ Len(ss) = L
  BY <1>1, ChainsType
<1>5. CASE L = 0
  <2>1. g[0] = <<>>
    <3>1. \E h : Collects(heads, h)
      <4> DEFINE h == [k \in 0 .. L |-> <<>>]
      <4>1. h = [k \in 0 .. L |-> IF k = 0 THEN <<>>
                                  ELSE h[k - 1] \o Walk[M - Len(h[k - 1])][heads[k]]]
        BY <1>1, <1>5
      <4> HIDE DEF h
      <4> QED
        BY <4>1, Zenon DEF Collects
    <3>2. Collects(heads, g)
      BY <3>1, Zenon
    <3> HIDE DEF g
    <3>3. \A k \in 0 .. L : g[k] = IF k = 0 THEN <<>>
                                   ELSE g[k - 1] \o Walk[M - Len(g[k - 1])][heads[k]]
      BY <3>2, Zenon DEF Collects
    <3> QED
      BY <1>1, <3>3
  <2>2. FlattenSeq(ss) = <<>>
    <3>1. ss = <<>>
      BY <1>4, <1>5, EmptySeq
    <3> QED
      BY <3>1 DEF FlattenSeq
  <2>3. <<>> \in Seq(MotorNodes) /\ Beginning(<<>>, M) = <<>>
    BY <1>1, BeginningNone, EmptySeq
  <2> QED
    BY <1>2, <1>3, <1>5, <2>1, <2>2, <2>3
<1>6. CASE L > 0
  <2>1. PICK F \in [1 .. L -> Seq(MotorNodes)] : Flattens(ss, F) /\ FlattenSeq(ss) = F[L]
    BY <1>4, <1>6, FlattenIs
  <2> HIDE DEF heads, L, M, ss, g
  <2>2. \A k \in 1 .. L : F[k] = IF k = 1 THEN ss[k] ELSE F[k - 1] \o ss[k]
    BY <1>4, <2>1, Zenon DEF Flattens
  <2> DEFINE Q(k) == IF k = 0 THEN <<>> ELSE F[k]
             B(k) == Beginning(Q(k), M)
  <2>3. \A k \in 0 .. L : Q(k) \in Seq(MotorNodes)
    BY <1>1, <2>1, EmptySeq
  <2>4. Q(0) = <<>> /\ \A k \in 1 .. L : Q(k) = F[k]
    BY <1>1
  <2> HIDE DEF Q
  <2>13. ASSUME NEW k \in 1 .. L
        PROVE  ss[k] \in Seq(MotorNodes) /\ Q(k) = Q(k - 1) \o ss[k]
    <3>1. ss[k] \in Seq(MotorNodes)
      BY <1>1, <1>4, ElementOfSeq
    <3>2. CASE k = 1
      <4>1. <<>> \o ss[k] = ss[k]
        BY <3>1, ConcatEmptySeq
      <4>2. Q(k) = ss[k]
        BY <2>2, <2>4, <3>2, Zenon
      <4>3. k - 1 = 0
        BY <3>2
      <4> QED
        BY <2>4, <3>1, <4>1, <4>2, <4>3
    <3>3. CASE k # 1
      <4>1. k - 1 \in 1 .. L
        BY <1>1, <3>3
      <4> QED
        BY <2>2, <2>4, <3>1, <3>3, <4>1
    <3> QED
      BY <3>2, <3>3
  <2>5. B(0) = <<>>
    BY <1>1, <2>4, BeginningNone, EmptySeq
  <2>6. ASSUME NEW k \in 1 .. L
        PROVE  B(k) = B(k - 1) \o Walk[M - Len(B(k - 1))][heads[k]]
    <3>0. k - 1 \in 0 .. L /\ heads[k] \in MotorNodes
      BY <1>1
    <3>1. k - 1 \in 0 .. L /\ heads[k] \in 0 .. Len(motor_action)
      BY <1>1, <3>0, Zenon
    <3>2. /\ M - Len(B(k - 1)) \in 0 .. M
          /\ B(k) = B(k - 1) \o Beginning(ss[k], M - Len(B(k - 1)))
      <4>1. Q(k - 1) \in Seq(MotorNodes) /\ ss[k] \in Seq(MotorNodes) /\ M \in Nat
        BY <1>1, <2>3, <2>13, <3>1
      <4>2. Q(k) = Q(k - 1) \o ss[k]
        BY <2>13
      <4> DEFINE q == Q(k - 1)
                 t == ss[k]
      <4>3. q \in Seq(MotorNodes) /\ t \in Seq(MotorNodes) /\ M \in Nat
        BY <4>1
      <4> HIDE DEF q, t
      <4>4. /\ M - Len(Beginning(q, M)) \in 0 .. M
            /\ Beginning(q \o t, M) = Beginning(q, M) \o Beginning(t, M - Len(Beginning(q, M)))
        BY <4>3, BeginningJoined
      <4> QED
        BY <4>2, <4>4, Zenon DEF q, t
    <3>3. ss[k] = Follow[heads[k]]
      BY <1>1 DEF ss, Chains
    <3>4. Walk[M - Len(B(k - 1))][heads[k]] = Beginning(Follow[heads[k]], M - Len(B(k - 1)))
      BY <3>1, <3>2, WalkIs DEF M
    <3> QED
      BY <3>2, <3>3, <3>4
  <2>7. Collects(heads, g)
    <3> DEFINE h == [k \in 0 .. L |-> B(k)]
    <3> HIDE DEF B
    <3>1. ASSUME NEW k \in 0 .. L
          PROVE  B(k) = IF k = 0 THEN <<>>
                        ELSE h[k - 1] \o Walk[M - Len(h[k - 1])][heads[k]]
      <4>1. CASE k = 0
        BY <2>5, <4>1
      <4>2. CASE k # 0
        <5>1. k \in 1 .. L /\ k - 1 \in 0 .. L
          BY <1>1, <4>2
        <5>2. h[k - 1] = B(k - 1)
          BY <5>1
        <5> QED
          BY <2>6, <4>2, <5>1, <5>2
      <4> QED
        BY <4>1, <4>2
    <3>2. h = [k \in 0 .. L |-> IF k = 0 THEN <<>>
                                ELSE h[k - 1] \o Walk[M - Len(h[k - 1])][heads[k]]]
      <4>1. h = [k \in 0 .. L |-> B(k)]
        OBVIOUS
      <4> HIDE DEF h
      <4> QED
        BY <3>1, <4>1
    <3> HIDE DEF h
    <3>3. \E x : Collects(heads, x)
      BY <3>2, Zenon DEF Collects, L, M
    <3> QED
      BY <3>3, Zenon DEF g
  <2>8. \A k \in 0 .. L : g[k] = IF k = 0 THEN <<>>
                                 ELSE g[k - 1] \o Walk[M - Len(g[k - 1])][heads[k]]
    BY <2>7, Zenon DEF Collects, L, M
  <2> DEFINE T == {k \in 0 .. L : g[k] = B(k)}
  <2> HIDE DEF B
  <2>9. 0 \in T
    BY <1>1, <2>5, <2>8
  <2>10. ASSUME NEW k \in 0 .. L - 1, k \in T
         PROVE  k + 1 \in T
    <3>1. k + 1 \in 1 .. L /\ (k + 1) - 1 = k /\ k + 1 # 0 /\ k + 1 \in 0 .. L
      BY <1>1
    <3>2. g[k + 1] = g[k] \o Walk[M - Len(g[k])][heads[k + 1]]
      BY <2>8, <3>1
    <3>3. B(k + 1) = B(k) \o Walk[M - Len(B(k))][heads[k + 1]]
      BY <2>6, <3>1
    <3>4. g[k] = B(k)
      BY <2>10
    <3> QED
      BY <3>1, <3>2, <3>3, <3>4
  <2>11. g[L] = B(L)
    <3> HIDE DEF T
    <3>1. 0 \in Nat /\ L \in Nat /\ 0 <= L
      BY <1>1
    <3>2. \A k \in 0 .. L : k \in T
      BY <3>1, <2>9, <2>10, UpTo
    <3>3. L \in T
      BY <3>1, <3>2
    <3> QED
      BY <3>3 DEF T
  <2>12. Q(L) = FlattenSeq(ss) /\ Q(L) \in Seq(MotorNodes)
    BY <1>1, <1>6, <2>1, <2>4
  <2> QED
    BY <1>2, <1>3, <2>11, <2>12 DEF B, L, M, ss, heads
<1> QED
  BY <1>1, <1>5, <1>6

----------------------------------------------------------------------------
(***************************************************************************)
(* Plans that are carried out                                               *)
(***************************************************************************)
\* Only what is launched or typed has a text.
Silent == {a \in Action : a.type \notin {"launch", "type"} => a.text = {}}
Wordless == \A n \in MotorNodes : motor_action[n] \in Silent

\* The condition and the conclusion of BlockedPlansNeverRun for one plan.
Screenable(chain) == Len(chain) <= MaxChain /\ Cardinality(Texts(chain)) <= MaxTexts
Harmless(chain) == Screenable(chain) => ~disk_ops_policy_blocks_lower(MarkersOf(chain))
Plans == {ran[i].chain : i \in DOMAIN ran}
PlansHarmless == \A chain \in Plans : chain \in Seq(MotorNodes) /\ Harmless(chain)

PlanInv ==
    /\ PlanType /\ Len(motor_action) <= MaxNodes
    /\ Linked /\ Wordless

\* If its texts are few enough, all of a chain is looked at.
LEMMA WholeBlob ==
    ASSUME PlanInv, NEW chain \in Seq(MotorNodes), Cardinality(Texts(chain)) <= MaxTexts
    PROVE  Blob(chain) = MarkersOf(chain)
<1>1. /\ Len(chain) \in Nat /\ DOMAIN chain = 1 .. Len(chain) /\ MaxTexts \in Nat
      /\ \A k \in 1 .. Len(chain) : chain[k] \in MotorNodes
  BY PlanAssumption
<1>2. \A n \in MotorNodes : ~HasText(n) => motor_action[n].text = {}
  BY DEF PlanInv, Wordless, Silent, HasText
<1>3. IsFiniteSet(Texts(chain))
  <2>1. IsFiniteSet(1 .. Len(chain)) /\ Texts(chain) \subseteq 1 .. Len(chain)
    BY <1>1, FS_Interval DEF Texts
  <2> QED
    BY <2>1, FS_Subset
<1>4. ASSUME NEW k \in Texts(chain)
      PROVE  Cardinality(Texts(chain) \intersect 1 .. k) <= MaxTexts
  <2>1. Texts(chain) \intersect 1 .. k \subseteq Texts(chain)
    OBVIOUS
  <2>2. /\ Cardinality(Texts(chain) \intersect 1 .. k) <= Cardinality(Texts(chain))
        /\ Cardinality(Texts(chain) \intersect 1 .. k) \in Nat
        /\ Cardinality(Texts(chain)) \in Nat
    BY <1>3, <2>1, FS_Subset, FS_CardinalityType
  <2> QED
    BY <1>1, <2>2
<1>5. Blob(chain) = UNION {motor_action[chain[k]].text : k \in Texts(chain)}
  <2>1. {i \in Texts(chain) : Cardinality(Texts(chain) \intersect 1 .. i) <= MaxTexts}
            = Texts(chain)
    BY <1>4
  <2> QED
    BY <2>1, Zenon DEF Blob
<1>6. MarkersOf(chain) = UNION {motor_action[chain[k]].text : k \in 1 .. Len(chain)}
  <2>1. Range(chain) = {chain[k] : k \in 1 .. Len(chain)}
    BY <1>1 DEF Range
  <2> QED
    BY <2>1 DEF MarkersOf
<1>7. \A k \in 1 .. Len(chain) : k \in Texts(chain) \/ motor_action[chain[k]].text = {}
  BY <1>1, <1>2 DEF Texts
<1>8. Texts(chain) \subseteq 1 .. Len(chain)
  BY <1>1 DEF Texts
<1>9. \A m : (\E k \in Texts(chain) : m \in motor_action[chain[k]].text)
              <=> (\E k \in 1 .. Len(chain) : m \in motor_action[chain[k]].text)
  BY <1>7, <1>8, Zenon
<1> QED
  BY <1>5, <1>6, <1>9

\* The plan that passes the screening and is short enough is harmless.
LEMMA ScreenedPlan ==
    ASSUME PlanInv, NEW c \in Concepts, ~Vetoed(c, FALSE)
    PROVE  QueuedChain(c) \in Seq(MotorNodes) /\ Harmless(QueuedChain(c))
<1> DEFINE chain == QueuedChain(c)
<1>1. chain \in Seq(MotorNodes) /\ ScreenedChain(c) = Beginning(chain, MaxChain)
  BY ScreenedIs DEF PlanInv
<1> SUFFICES ASSUME Screenable(chain)
             PROVE  ~disk_ops_policy_blocks_lower(MarkersOf(chain))
  BY <1>1 DEF Harmless
<1> HIDE DEF chain
<1>2. ScreenedChain(c) = chain
  BY <1>1, BeginningIs, PlanAssumption DEF Screenable
<1>3. CASE chain = <<>>
  <2>1. MarkersOf(chain) = {}
    BY <1>3 DEF MarkersOf, Range
  <2> QED
    BY <2>1 DEF disk_ops_policy_blocks_lower
<1>4. CASE chain # <<>>
  <2>1. ~disk_ops_policy_blocks_lower(Blob(chain))
    BY <1>2, <1>4 DEF Vetoed, motor_chain_policy_blocks_disk_ops
  <2>2. Blob(chain) = MarkersOf(chain)
    BY <1>1, WholeBlob DEF Screenable
  <2> QED
    BY <2>1, <2>2
<1> QED
  BY <1>3, <1>4

\* What a word of a rule asks for.
LEMMA NodesType ==
    ASSUME NEW w \in [word : {"press", "open", "type"}, text : SUBSET Markers]
    PROVE  Nodes(w) \in Seq(Silent)
<1> DEFINE key == [type |-> "key", text |-> {}]
           launch == [type |-> "launch", text |-> w.text]
           sleep == [type |-> "sleep", text |-> {}]
           typed == [type |-> "type", text |-> w.text]
<1>1. w.word \in {"press", "open", "type"} /\ w.text \in SUBSET Markers
  OBVIOUS
<1>2. key \in Silent /\ launch \in Silent /\ sleep \in Silent /\ typed \in Silent
  BY <1>1 DEF Silent, Action
<1>3. \/ Nodes(w) = <<key>>
      \/ Nodes(w) = <<launch, sleep>>
      \/ Nodes(w) = <<typed>>
  BY <1>1, Zenon DEF Nodes
<1> HIDE DEF key, launch, sleep, typed
<1>4. <<key>> \in Seq(Silent) /\ <<launch, sleep>> \in Seq(Silent) /\ <<typed>> \in Seq(Silent)
  BY <1>2
<1> QED
  BY <1>3, <1>4, Zenon

\* A rule spawns what there is room for.
LEMMA SpawnedType ==
    ASSUME PlanInv, NEW rule \in Rules
    PROVE  Spawned(rule) \in Seq(Silent) /\ Len(motor_action) + Len(Spawned(rule)) <= MaxNodes
<1> DEFINE ss == [i \in DOMAIN rule |-> Nodes(rule[i])]
<1>1. rule \in Seq([word : {"press", "open", "type"}, text : SUBSET Markers])
  BY PlanAssumption
<1>2. /\ Len(rule) \in Nat /\ DOMAIN rule = 1 .. Len(rule)
      /\ \A i \in 1 .. Len(rule) : Nodes(rule[i]) \in Seq(Silent)
  <2>1. \A i \in 1 .. Len(rule) :
            rule[i] \in [word : {"press", "open", "type"}, text : SUBSET Markers]
    BY <1>1, ElementOfSeq
  <2>2. Len(rule) \in Nat /\ DOMAIN rule = 1 .. Len(rule)
    BY <1>1, LenProperties
  <2> QED
    BY <2>1, <2>2, NodesType
<1>3. ss \in Seq(Seq(Silent)) /\ Len(ss) = Len(rule)
  <2>1. ss = [i \in 1 .. Len(rule) |-> Nodes(rule[i])]
    BY <1>2
  <2> QED
    BY <1>2, <2>1
<1> HIDE DEF ss
<1>4. FlattenSeq(ss) \in Seq(Silent)
  <2>1. CASE Len(ss) = 0
    <3>1. FlattenSeq(ss) = ss /\ ss = <<>>
      BY <1>3, <2>1, EmptySeq DEF FlattenSeq
    <3> QED
      BY <3>1, EmptySeq
  <2>2. CASE Len(ss) > 0
    <3>1. PICK F \in [1 .. Len(ss) -> Seq(Silent)] : FlattenSeq(ss) = F[Len(ss)]
      BY <1>3, <2>2, FlattenIs
    <3>2. Len(ss) \in 1 .. Len(ss)
      BY <1>2, <1>3, <2>2
    <3> QED
      BY <3>1, <3>2
  <2> QED
    BY <1>2, <1>3, <2>1, <2>2
<1>5. Room \in Nat /\ Room = MaxNodes - Len(motor_action) /\ Len(motor_action) \in Nat
  BY PlanAssumption DEF PlanInv, PlanType, Room
<1>6. Spawned(rule) = Beginning(FlattenSeq(ss), Room)
  BY Zenon DEF Spawned, ss
<1>7. Spawned(rule) \in Seq(Silent) /\ Len(Spawned(rule)) <= Room
  BY <1>4, <1>5, <1>6, BeginningIs
<1> QED
  BY <1>5, <1>7, PlanAssumption

\* A rule that is learned adds to the motor nodes, and what was there stays.
LEMMA NewNodes ==
    ASSUME PlanInv, NEW c \in Concepts, NEW rule \in Rules, ingest_motor_rule(c, rule)
    PROVE  /\ PlanInv'
           /\ Len(motor_action') >= Len(motor_action)
           /\ \A n \in MotorNodes : motor_action'[n] = motor_action[n]
<1> DEFINE L == Len(motor_action)
           new == Spawned(rule)
           N == Len(new)
           edges == [i \in DOMAIN new |-> IF i < Len(new) THEN L + 1 + i ELSE 0]
<1>1. /\ new \in Seq(Silent) /\ new # <<>> /\ N \in Nat /\ N > 0 /\ DOMAIN new = 1 .. N
      /\ L + N <= MaxNodes
  <2>1. new \in Seq(Silent) /\ L + N <= MaxNodes /\ new # <<>>
    BY SpawnedType DEF ingest_motor_rule
  <2> HIDE DEF new
  <2>2. N \in Nat /\ N > 0 /\ DOMAIN new = 1 .. N
    BY <2>1, EmptySeq, LenProperties
  <2> QED
    BY <2>1, <2>2
<1>2. /\ motor_action' = motor_action \o new
      /\ sequence_edge' = sequence_edge \o edges
      /\ \/ implemented_by' = [implemented_by EXCEPT ![c] = Append(@, L + 1)]
         \/ UNCHANGED implemented_by
  BY Zenon DEF ingest_motor_rule
<1> HIDE DEF new
<1>3. /\ motor_action \in Seq(Silent) /\ L \in Nat /\ MotorNodes = 1 .. L
      /\ sequence_edge \in Seq(0 .. L) /\ Len(sequence_edge) = L
      /\ implemented_by \in [Concepts -> Seq(1 .. L)]
      /\ \A n \in 1 .. L : sequence_edge[n] # 0 => sequence_edge[n] = n + 1
  <2>1. /\ motor_action \in Seq(Action) /\ \A n \in 1 .. L : motor_action[n] \in Silent
    BY DEF PlanInv, PlanType, Wordless, MotorNodes
  <2>2. motor_action \in Seq(Silent) /\ L \in Nat
    BY <2>1
  <2> QED
    BY <2>2 DEF PlanInv, PlanType, Linked, MotorNodes
<1> HIDE DEF L, N
<1>4. /\ motor_action' \in Seq(Silent) /\ Len(motor_action') = L + N
      /\ \A n \in 1 .. L : motor_action'[n] = motor_action[n]
  BY <1>1, <1>2, <1>3, Joined DEF L, N
<1>5. /\ edges \in Seq(0 .. L + N) /\ Len(edges) = N
      /\ \A i \in 1 .. N : edges[i] = IF i < N THEN L + 1 + i ELSE 0
  <2>1. edges = [i \in 1 .. N |-> IF i < N THEN L + 1 + i ELSE 0]
    BY <1>1 DEF N
  <2>2. \A i \in 1 .. N : (IF i < N THEN L + 1 + i ELSE 0) \in 0 .. L + N
    BY <1>1, <1>3
  <2> QED
    BY <1>1, <2>1, <2>2
<1> HIDE DEF edges
<1>6. sequence_edge \in Seq(0 .. L + N)
  <2>1. 0 .. L \subseteq 0 .. L + N
    BY <1>1, <1>3
  <2> QED
    BY <1>3, <2>1, SeqMonotonic
<1>7. /\ sequence_edge' \in Seq(0 .. L + N) /\ Len(sequence_edge') = L + N
      /\ \A n \in 1 .. L : sequence_edge'[n] = sequence_edge[n]
      /\ \A i \in 1 .. N : sequence_edge'[L + i] = edges[i]
  <2> DEFINE both == sequence_edge \o edges
             S == 0 .. L + N
  <2>1. edges \in Seq(S) /\ sequence_edge \in Seq(S) /\ Len(edges) = N /\ Len(sequence_edge) = L
    BY <1>3, <1>5, <1>6
  <2> HIDE DEF S
  <2>4. /\ both \in Seq(S) /\ Len(both) = Len(sequence_edge) + Len(edges)
        /\ \A n \in 1 .. Len(sequence_edge) : both[n] = sequence_edge[n]
        /\ \A i \in 1 .. Len(edges) : both[Len(sequence_edge) + i] = edges[i]
    <3>1. edges \in Seq(S) /\ sequence_edge \in Seq(S)
      BY <2>1
    <3> QED
      BY <3>1, Joined
  <2>2. /\ both \in Seq(S) /\ Len(both) = L + N
        /\ \A n \in 1 .. L : both[n] = sequence_edge[n]
        /\ \A i \in 1 .. N : both[L + i] = edges[i]
    <3> HIDE DEF both
    <3> QED
      BY <2>1, <2>4
  <2>3. sequence_edge' = both
    BY <1>2
  <2> HIDE DEF both
  <2> QED
    BY <2>2, <2>3 DEF S
<1>8. implemented_by' \in [Concepts -> Seq(1 .. L + N)]
  <2>1. 1 .. L \subseteq 1 .. L + N /\ L + 1 \in 1 .. L + N
    BY <1>1, <1>3
  <2>2. ASSUME NEW d \in Concepts
        PROVE  implemented_by[d] \in Seq(1 .. L + N)
    <3>1. implemented_by[d] \in Seq(1 .. L)
      BY <1>3
    <3> QED
      BY <2>1, <3>1, SeqMonotonic
  <2>3. implemented_by \in [Concepts -> Seq(1 .. L + N)]
    BY <1>3, <2>2
  <2>4. Append(implemented_by[c], L + 1) \in Seq(1 .. L + N)
    BY <2>1, <2>2
  <2> QED
    BY <1>2, <2>3, <2>4
<1>9. \A n \in 1 .. L + N : sequence_edge'[n] # 0 => sequence_edge'[n] = n + 1
  <2> SUFFICES ASSUME NEW n \in 1 .. L + N, sequence_edge'[n] # 0
               PROVE  sequence_edge'[n] = n + 1
    OBVIOUS
  <2>1. CASE n \in 1 .. L
    BY <1>3, <1>7, <2>1
  <2>2. CASE n \notin 1 .. L
    <3>1. n - L \in 1 .. N /\ L + (n - L) = n /\ L + 1 + (n - L) = n + 1
      BY <1>1, <1>3, <2>2
    <3>2. sequence_edge'[n] = edges[n - L]
      BY <1>7, <3>1
    <3> QED
      BY <1>5, <3>1, <3>2
  <2> QED
    BY <2>1, <2>2
<1>10. motor_action' \in Seq(Action)
  <2>1. Silent \subseteq Action
    BY DEF Silent
  <2> QED
    BY <1>4, <2>1, SeqMonotonic
<1>11. \A n \in 1 .. L + N : motor_action'[n] \in Silent
  BY <1>4, ElementOfSeq
<1>12. PlanInv'
  BY <1>1, <1>4, <1>7, <1>8, <1>9, <1>10, <1>11
  DEF PlanInv, PlanType, Linked, Wordless, MotorNodes
<1> QED
  BY <1>1, <1>3, <1>4, <1>12 DEF L

\* What was screened stays harmless when nodes are added.
LEMMA StillHarmless ==
    ASSUME PlanInv, PlanInv', Len(motor_action') >= Len(motor_action),
           \A n \in MotorNodes : motor_action'[n] = motor_action[n],
           NEW chain \in Seq(MotorNodes), Harmless(chain)
    PROVE  chain \in Seq(MotorNodes') /\ Harmless(chain)'
<1>1. MotorNodes \subseteq MotorNodes'
  BY DEF MotorNodes, PlanInv, PlanType
<1>2. chain \in Seq(MotorNodes')
  BY <1>1, SeqMonotonic
<1>3. /\ DOMAIN chain = 1 .. Len(chain) /\ \A k \in 1 .. Len(chain) : chain[k] \in MotorNodes
  BY LenProperties, ElementOfSeq
<1>4. \A k \in 1 .. Len(chain) : motor_action'[chain[k]] = motor_action[chain[k]]
  BY <1>3
<1>5. Texts(chain)' = Texts(chain)
  BY <1>3, <1>4 DEF Texts, HasText
<1>6. \A n \in Range(chain) : motor_action'[n] = motor_action[n]
  BY <1>3 DEF Range
<1>7. MarkersOf(chain)' = MarkersOf(chain)
  BY <1>6 DEF MarkersOf
<1> QED
  BY <1>2, <1>5, <1>7 DEF Harmless, Screenable

PlanNext ==
    \E c \in Concepts : (\E rule \in Rules : ingest_motor_rule(c, rule)) \/ EdgeEvicted(c)

LEMMA PlanStepInv ==
    ASSUME PlanInv, PlanNext \/ UNCHANGED plan
    PROVE  /\ PlanInv'
           /\ Len(motor_action') >= Len(motor_action)
           /\ \A n \in MotorNodes : motor_action'[n] = motor_action[n]
<1>1. CASE \E c \in Concepts, rule \in Rules : ingest_motor_rule(c, rule)
  BY <1>1, NewNodes
<1>2. CASE \E c \in Concepts : EdgeEvicted(c)
  <2>1. PICK c \in Concepts : EdgeEvicted(c)
    BY <1>2
  <2>2. /\ implemented_by[c] \in Seq(1 .. Len(motor_action)) /\ implemented_by[c] # <<>>
        /\ implemented_by' = [implemented_by EXCEPT ![c] = Front(@)]
        /\ UNCHANGED <<motor_action, sequence_edge>>
    BY <2>1 DEF EdgeEvicted, PlanInv, PlanType
  <2>3. Front(implemented_by[c]) \in Seq(1 .. Len(motor_action))
    BY <2>2 DEF Front
  <2>4. PlanType'
    BY <2>2, <2>3 DEF PlanInv, PlanType
  <2>5. Linked' /\ Wordless' /\ Len(motor_action') <= MaxNodes
    BY <2>2 DEF PlanInv, Linked, Wordless, MotorNodes
  <2>6. Len(motor_action) \in Nat
    BY DEF PlanInv, PlanType
  <2> QED
    BY <2>2, <2>4, <2>5, <2>6 DEF PlanInv
<1>3. CASE UNCHANGED plan
  <2>1. Len(motor_action) \in Nat
    BY DEF PlanInv, PlanType
  <2> QED
    BY <1>3, <2>1 DEF plan, PlanInv, PlanType, Linked, Wordless, MotorNodes
<1> QED
  BY <1>1, <1>2, <1>3 DEF PlanNext

\* Every step does to the plans what PlanStepInv is about.
LEMMA PlanSteps == [Next]_vars => PlanNext \/ UNCHANGED plan
<1> SUFFICES ASSUME [Next]_vars PROVE PlanNext \/ UNCHANGED plan
  OBVIOUS
<1>1. CASE Key \/ Goal \/ FocusLine \/ OpenLine \/ TypeLine
  BY <1>1 DEF Key, Goal, FocusLine, OpenLine, TypeLine
<1>2. CASE Teach
  BY <1>2 DEF Teach, PlanNext
<1>3. CASE LoopStep
  BY <1>3 DEF LoopStep, WaitPoll, TypeText, NoKey, Confirm, Tick
<1>4. CASE PursueStep
  BY <1>4 DEF PursueStep, NoTurn, AwaitWindow, NeverAppeared, NoStepLeft, Veto, Execute, Turn
<1>5. CASE MotorDone \/ WindowSwitch \/ UNCHANGED vars
  BY <1>5 DEF MotorDone, WindowSwitch, vars
<1> QED
  BY <1>1, <1>2, <1>3, <1>4, <1>5 DEF Next, Line

\* Only the execution of a goal adds to what was carried out.
LEMMA RanSteps == [Next]_vars => Execute \/ UNCHANGED ran
<1> SUFFICES ASSUME [Next]_vars PROVE Execute \/ UNCHANGED ran
  OBVIOUS
<1> USE DEF goals, cancel
<1>1. CASE Key \/ Line
  BY <1>1 DEF Line, Key, Teach, Goal, FocusLine, OpenLine, TypeLine, SetGoal
<1>2. CASE LoopStep
  BY <1>2 DEF LoopStep, WaitPoll, TypeText, NoKey, Confirm, Tick, Look, VisualError
<1>3. CASE PursueStep
  BY <1>3 DEF PursueStep, NoTurn, AwaitWindow, NeverAppeared, NoStepLeft, Veto, VisualError
<1>4. CASE MotorDone \/ WindowSwitch \/ UNCHANGED vars
  BY <1>4 DEF MotorDone, WindowSwitch, vars
<1> QED
  BY <1>1, <1>2, <1>3, <1>4 DEF Next

\* The plans that were carried out stay harmless, and so is one that is carried out now.
LEMMA HarmlessStep ==
    ASSUME GoalInv, PlanInv, PlansHarmless, [Next]_vars
    PROVE  PlanInv' /\ PlansHarmless'
<1>1. /\ PlanInv' /\ Len(motor_action') >= Len(motor_action)
      /\ \A n \in MotorNodes : motor_action'[n] = motor_action[n]
  BY PlanSteps, PlanStepInv
<1>2. ASSUME NEW chain, chain \in Seq(MotorNodes), Harmless(chain)
      PROVE  chain \in Seq(MotorNodes') /\ Harmless(chain)'
  BY <1>1, <1>2, StillHarmless
<1>3. CASE UNCHANGED ran
  <2>1. Plans' = Plans
    BY <1>3 DEF Plans
  <2> QED
    BY <1>1, <1>2, <2>1 DEF PlansHarmless
<1>4. CASE Execute
  <2> DEFINE c == current.concept
             chain == QueuedChain(c)
             e == [goal |-> current.number, chain |-> chain,
                   sighted |-> target \in {NoWindow, foreground} \/ seen]
  <2>1. ran' = Append(ran, e) /\ ~Vetoed(c, FALSE)
    BY <1>4 DEF Execute
  <2>2. c \in Concepts
    BY DEF GoalInv, GoalType, CurrentType
  <2>3. chain \in Seq(MotorNodes) /\ Harmless(chain)
    BY <2>1, <2>2, ScreenedPlan
  <2>4. e.chain = chain
    OBVIOUS
  <2> HIDE DEF c, chain, e
  <2>5. /\ Len(ran) \in Nat /\ DOMAIN ran = 1 .. Len(ran) /\ DOMAIN ran' = 1 .. Len(ran) + 1
        /\ \A i \in DOMAIN ran : ran'[i] = ran[i]
        /\ ran'[Len(ran) + 1] = e
    BY <2>1, AppendedRan
  <2>6. Plans' = Plans \union {chain}
    <3>1. DOMAIN ran' = DOMAIN ran \union {Len(ran) + 1}
      BY <2>5
    <3>2. ran'[Len(ran) + 1].chain = chain
      BY <2>4, <2>5
    <3> QED
      BY <2>5, <3>1, <3>2 DEF Plans
  <2>7. ASSUME NEW x \in Plans'
        PROVE  x \in Seq(MotorNodes) /\ Harmless(x)
    BY <2>3, <2>6 DEF PlansHarmless
  <2>8. ASSUME NEW x \in Plans'
        PROVE  x \in Seq(MotorNodes') /\ Harmless(x)'
    BY <1>2, <2>7
  <2> QED
    BY <1>1, <2>8 DEF PlansHarmless
<1> QED
  BY <1>1, <1>3, <1>4, RanSteps

----------------------------------------------------------------------------
(***************************************************************************)
(* The loop and the motor                                                   *)
(***************************************************************************)
LoopType ==
    /\ pc \in {"input", "wait", "wait_and_type", "type", "confirm", "tick", "pursue"}
    /\ typing \in BOOLEAN /\ phase \in 0 .. VisualEvery - 1 /\ since \in 0 .. WindowWait + 1
    /\ target \in Windows \union {NoWindow} /\ verified \in BOOLEAN
    /\ foreground \in Windows \union {NoWindow}
    /\ seen \in BOOLEAN /\ inherited \in BOOLEAN
    /\ lines \in 0 .. MaxLines /\ lapses \in 0 .. MaxLapses

MotorType == motor \in Seq(0 .. Len(fate))

PursuitInv == PlanInv /\ PlansHarmless /\ LoopType /\ MotorType

\* Goals are only added.
LEMMA FateGrows ==
    ASSUME GoalInv, [Next]_vars
    PROVE  /\ Len(fate) \in Nat /\ Len(fate') \in Nat /\ Len(fate) <= Len(fate')
           /\ 0 .. Len(fate) \subseteq 0 .. Len(fate')
<1>1. Len(fate) \in Nat
  BY GoalFacts
<1>2. \A how \in Fates \ {"open"} : Ended(how) \in Seq(Fates) /\ Len(Ended(how)) = Len(fate)
  BY EndedFate
<1>3. {"lost", "cancelled", "run"} \subseteq Fates \ {"open"} /\ {"open", "unknown"} \subseteq Fates
  BY DEF Fates
<1>4. Len(fate') = Len(fate) \/ Len(fate') = Len(fate) + 1
  <2>1. CASE \E c \in Concepts : SetGoal(c)
    <3>1. PICK x \in Fates : fate' = Append(Ended("lost"), x)
      BY <1>3, <2>1 DEF SetGoal
    <3>2. Ended("lost") \in Seq(Fates) /\ Len(Ended("lost")) = Len(fate)
      BY <1>2, <1>3
    <3> QED
      BY <3>1, <3>2
  <2>2. CASE cancel
    BY <1>2, <1>3, <2>2 DEF cancel
  <2>3. CASE Execution
    BY <1>2, <1>3, <2>3 DEF Execution
  <2>4. CASE UNCHANGED fate
    BY <2>4
  <2> QED
    BY GoalSteps, <2>1, <2>2, <2>3, <2>4 DEF GoalsNext, goals
<1> QED
  BY <1>1, <1>4

\* What is queued for the motor is the user's or a goal's.
LEMMA MotorStep ==
    ASSUME GoalInv, MotorType, [Next]_vars
    PROVE  MotorType'
<1> DEFINE S == 0 .. Len(fate')
<1>1. motor \in Seq(S) /\ User \in S /\ current.number \in S
  <2>1. 0 .. Len(fate) \subseteq S /\ User \in 0 .. Len(fate) /\ current.number \in 0 .. Len(fate)
    BY FateGrows, GoalFacts DEF User
  <2> QED
    BY <2>1, SeqMonotonic DEF MotorType
<1>2. \/ motor' = motor \/ motor' = Append(motor, User) \/ motor' = <<>>
      \/ motor' = <<current.number>> \/ (motor # <<>> /\ motor' = Tail(motor))
  <2>1. CASE Key \/ Line
    BY <2>1 DEF Line, Key, Teach, Goal, FocusLine, OpenLine, TypeLine
  <2>2. CASE LoopStep
    BY <2>2 DEF LoopStep, WaitPoll, TypeText, NoKey, Confirm, Tick, Look, VisualError
  <2>3. CASE PursueStep
    BY <2>3 DEF PursueStep, NoTurn, AwaitWindow, NeverAppeared, NoStepLeft, Veto, VisualError,
                Execute
  <2>4. CASE MotorDone \/ WindowSwitch \/ UNCHANGED vars
    BY <2>4 DEF MotorDone, WindowSwitch, vars
  <2> QED
    BY <2>1, <2>2, <2>3, <2>4 DEF Next
<1> HIDE DEF S
<1>3. motor' \in Seq(S)
  <2>1. motor # <<>> => Tail(motor) \in Seq(S)
    BY <1>1, HeadTailProperties
  <2>2. Append(motor, User) \in Seq(S) /\ <<>> \in Seq(S) /\ <<current.number>> \in Seq(S)
    BY <1>1
  <2> QED
    BY <1>1, <1>2, <2>1, <2>2, Zenon
<1> QED
  BY <1>3 DEF MotorType, S

\* The counters and flags of the loop: the tick counter's two parts stay within bounds.
LEMMA LoopStepType ==
    ASSUME LoopType, [Next]_vars
    PROVE  LoopType'
<1>1. /\ VisualEvery \in Nat \ {0} /\ StepGap \in Nat /\ WindowWait \in Nat
      /\ MaxLines \in Nat /\ MaxLapses \in Nat
  BY PursuitAssumption
<1> USE DEF LoopType, eyes
<1>2. CASE Key
  BY <1>1, <1>2 DEF Key
<1>3. CASE Teach \/ Goal
  BY <1>3 DEF Teach, Goal, Enter, bounds
<1>4. CASE FocusLine
  <2>1. PICK w \in Windows : SetTarget(w) /\ Focus(w)
    BY <1>4 DEF FocusLine
  <2> QED
    BY <1>4, <2>1 DEF FocusLine, Enter, SetTarget, Focus, bounds
<1>5. CASE OpenLine
  <2>1. PICK w \in Windows : SetTarget(w)
    BY <1>5 DEF OpenLine
  <2>2. Enter("wait") \/ Enter("input")
    BY <1>5 DEF OpenLine
  <2> QED
    BY <1>5, <2>1, <2>2 DEF OpenLine, Enter, SetTarget, bounds
<1>6. CASE TypeLine
  <2>1. (Enter("type") /\ UNCHANGED foreground) \/ (Enter("wait_and_type") /\ Focus(target))
    BY <1>6 DEF TypeLine
  <2> QED
    BY <1>6, <2>1 DEF TypeLine, Enter, Focus, bounds
<1>7. CASE WaitPoll
  <2>1. Sighted \/ UNCHANGED eyes
    BY <1>7 DEF WaitPoll
  <2> QED
    BY <1>7, <2>1 DEF WaitPoll, Sighted, AfterWait, bounds
<1>8. CASE TypeText \/ NoKey
  BY <1>8 DEF TypeText, NoKey, bounds
<1>9. CASE Confirm
  <2>1. lapses' \in 0 .. MaxLapses
    BY <1>1, <1>9 DEF Confirm
  <2> QED
    BY <1>9, <2>1 DEF Confirm
<1>10. CASE Tick
  <2>1. phase' \in 0 .. VisualEvery - 1
    <3>1. \A a \in Nat : a % VisualEvery \in 0 .. VisualEvery - 1
      BY <1>1
    <3> QED
      BY <1>1, <1>10, <3>1 DEF Tick
  <2>2. since' \in 0 .. WindowWait + 1
    BY <1>1, <1>10 DEF Tick
  <2>3. Sighted \/ NoTarget \/ UNCHANGED eyes
    BY <1>10 DEF Tick, Look, VisualError
  <2>4. target' \in Windows \union {NoWindow} /\ verified' \in BOOLEAN /\ seen' \in BOOLEAN
        /\ inherited' \in BOOLEAN
    BY <2>3 DEF Sighted, NoTarget
  <2> QED
    BY <1>10, <2>1, <2>2, <2>4 DEF Tick, bounds
<1>11. CASE PursueStep
  <2>1. NoTarget \/ UNCHANGED eyes
    BY <1>11 DEF PursueStep, NoTurn, AwaitWindow, NeverAppeared, NoStepLeft, Veto, Execute,
                 VisualError
  <2>2. target' \in Windows \union {NoWindow} /\ verified' \in BOOLEAN /\ seen' \in BOOLEAN
        /\ inherited' \in BOOLEAN
    BY <2>1 DEF NoTarget
  <2>3. since' = since \/ since' = 0
    BY <1>11 DEF PursueStep, NoTurn, AwaitWindow, NeverAppeared, NoStepLeft, Veto, Execute
  <2>4. pc' = "input" /\ UNCHANGED <<typing, phase, foreground, lines, lapses>>
    BY <1>11 DEF PursueStep, NoTurn, AwaitWindow, NeverAppeared, NoStepLeft, Veto, Execute,
                 Turn, bounds
  <2>5. since' \in 0 .. WindowWait + 1
    BY <1>1, <2>3
  <2> QED
    BY <2>2, <2>4, <2>5
<1>12. CASE MotorDone
  BY <1>12 DEF MotorDone, loop, bounds
<1>13. CASE WindowSwitch
  BY <1>13 DEF WindowSwitch, loop, bounds
<1>14. CASE UNCHANGED vars
  BY <1>14 DEF vars, loop, bounds
<1> QED
  BY <1>2, <1>3, <1>4, <1>5, <1>6, <1>7, <1>8, <1>9, <1>10, <1>11, <1>12, <1>13, <1>14
  DEF Next, Line, LoopStep

----------------------------------------------------------------------------
LEMMA InitPursuit == Init => PursuitInv
<1> SUFFICES ASSUME Init PROVE PursuitInv
  OBVIOUS
<1>1. /\ motor_action = <<>> /\ sequence_edge = <<>>
      /\ implemented_by = [c \in Concepts |-> <<>>] /\ ran = <<>> /\ motor = <<>>
  BY DEF Init, PlanInit
<1>2. PlanType /\ Len(motor_action) = 0 /\ MotorNodes = {}
  BY <1>1 DEF PlanType, MotorNodes
<1>3. PlanInv
  BY <1>2, PlanAssumption DEF PlanInv, Linked, Wordless, MotorNodes
<1>4. PlansHarmless
  BY <1>1 DEF PlansHarmless, Plans
<1>5. LoopType
  <2>1. 0 \in 0 .. VisualEvery - 1 /\ 0 \in 0 .. WindowWait + 1 /\ 0 \in 0 .. MaxLines
        /\ 0 \in 0 .. MaxLapses
    BY PursuitAssumption
  <2>2. /\ pc = "input" /\ typing = FALSE /\ phase = 0 /\ since = 0 /\ target = NoWindow
        /\ verified = FALSE /\ foreground \in Windows \union {NoWindow}
        /\ seen = FALSE /\ inherited = FALSE /\ lines = 0 /\ lapses = 0
    BY DEF Init
  <2> QED
    BY <2>1, <2>2 DEF LoopType
<1>6. MotorType
  BY <1>1 DEF MotorType
<1> QED
  BY <1>3, <1>4, <1>5, <1>6 DEF PursuitInv

LEMMA PursuitInvariance == Spec => [](GoalInv /\ PursuitInv)
<1>1. GoalInv /\ PursuitInv /\ [Next]_vars => PursuitInv'
  BY HarmlessStep, LoopStepType, MotorStep DEF PursuitInv
<1>2. Init => GoalInv
  BY InitInv
<1>3. GoalInv /\ [Next]_vars => GoalInv'
  BY GoalSteps, GoalStepInv
<1> QED
  BY InitPursuit, <1>1, <1>2, <1>3, PTL DEF Spec

\* Every variable keeps its type: the graph of motor nodes, the goals, the loop.
THEOREM TypeCorrect == Spec => []TypeOK
<1>1. GoalInv /\ PursuitInv => TypeOK
  <2> SUFFICES ASSUME GoalInv, PursuitInv PROVE TypeOK
    OBVIOUS
  <2>1. fate \in Seq(Fates) /\ CurrentType
    BY DEF GoalInv, GoalType
  <2>2. PlanType /\ Len(motor_action) <= MaxNodes /\ LoopType /\ MotorType
    BY DEF PursuitInv, PlanInv
  <2> QED
    BY <2>1, <2>2, Zenon DEF TypeOK, PlanType, LoopType, MotorType, CurrentType, Fates
<1> QED
  BY PursuitInvariance, <1>1, PTL

\* What the policy blocks is not carried out, as long as the whole plan is within the nodes
\* and texts that are screened: what is screened is the beginning of what is queued, and
\* nodes that are added later change no text of it.
THEOREM BlockedPlansStay == Spec => []BlockedPlansNeverRun
<1>1. PursuitInv => BlockedPlansNeverRun
  <2> SUFFICES ASSUME PursuitInv, NEW i \in DOMAIN ran, Screenable(ran[i].chain)
               PROVE  ~disk_ops_policy_blocks_lower(MarkersOf(ran[i].chain))
    BY Zenon DEF BlockedPlansNeverRun, Screenable
  <2>1. ran[i].chain \in Plans
    BY DEF Plans
  <2> QED
    BY <2>1 DEF PursuitInv, PlansHarmless, Harmless
<1> QED
  BY PursuitInvariance, <1>1, PTL
=============================================================================

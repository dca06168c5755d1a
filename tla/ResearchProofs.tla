--------------------------- MODULE ResearchProofs ---------------------------
(***************************************************************************)
(* Proofs about ResearchCortex, for plans of every length and any number of  *)
(* plans, facts and typed lines. Until the daemon's own research overlooks a *)
(* request, the two threads do not change the task list or a result while    *)
(* the other is at it, every plan is worked off in its order, and every      *)
(* result reaches the user.                                                  *)
(***************************************************************************)
EXTENDS ResearchCortex, SequenceTheorems, TLAPS

(***************************************************************************)
(* The inductive invariant. The threads share no lock: what keeps them       *)
(* apart is what each may conclude from the three flags, and where the other *)
(* one then is.                                                              *)
(***************************************************************************)
\* Where the research thread is, as the flags show it.
FlagsTell ==
    /\ thread_running <=> mpc \notin {"join", "ended"}
    /\ rpc = "ended" => ~thread_running
    /\ research_busy <=> rpc \notin {"wait", "taken", "ended"}
    /\ research_pending => rpc \in {"wait", "ended"}
    /\ research_pending \/ rpc = "taken" => tasks # <<>>
    /\ live /\ research_complete => rpc \in {"clear_busy", "wait", "ended"} /\ ~research_pending

\* What the main loop relies on while it is at the task list or at a result.
MainAlone ==
    /\ mpc \in {"planned", "run", "request"} =>
          rpc = "wait" /\ ~research_pending /\ (live => ~research_complete)
    /\ mpc = "request" => tasks # <<>>
    /\ mpc \in {"clear", "reset"} => live /\ research_complete
    /\ mpc = "announce" =>
          live /\ ~research_complete /\ ~research_pending /\ rpc \in {"clear_busy", "wait"}
    /\ mpc \in {"auto_complete", "auto_remaining"} /\ ~early =>
          rpc = "wait" /\ ~research_pending
    /\ mpc = "auto_remaining" /\ ~early => ~research_complete

\* The step under way is the first of the list.
LabelTells ==
    /\ rpc \in {"fetch", "ingest", "pop", "local"} => tasks # <<>> /\ label = <<Head(tasks)>>
    /\ rpc \notin {"fetch", "ingest", "pop", "local", "label"} => label = <<>>

\* Where a result is, between the run that made it and its announcement.
ResultTells ==
    /\ rpc \in {"wait", "taken", "ended"} => outputs = <<>>
    /\ live =>
        /\ mpc = "clear" => got = result
        /\ mpc = "reset" => result = <<>>
        /\ rpc = "complete" => result = outputs
        /\ ~research_complete /\ rpc # "complete" => result = <<>>

NothingPlanned == plans = 0 => tasks = <<>> /\ tried = <<>>

HandoffInv == FlagsTell /\ MainAlone /\ LabelTells

\* PlanWorkedOff's first part, of a plan p, the steps d tried and the steps l left.
Progress(p, d, l) ==
    LET worked == PlanSteps - Len(l)
        before == Len(d) - worked
    IN  /\ before >= 0 /\ worked >= 0
        /\ \A i \in 1 .. before : d[i].plan < p
        /\ \A i \in 1 .. worked : d[before + i] = Step(p, i)
        /\ \A i \in 1 .. Len(l) : l[i] = Step(p, worked + i)

InHand == IF rpc \in {"pop", "label"} THEN label ELSE <<>>

PlanInOrder ==
    (plans > 0 => Progress(plans, tried, Left)) /\ completed_steps \o InHand = tried

\* What is on its way to the user, and what the run under way has found so far.
OnItsWay == IF mpc \in {"clear", "reset", "announce"} THEN got ELSE result
FoundSoFar == IF rpc \in {"complete", "clear_busy"} THEN <<>> ELSE outputs

ResultsInOrder == live => yielded = announced \o OnItsWay \o FoundSoFar

\* All this holds until the daemon makes a plan after it overlooked a request.
InOrder ==
    HandoffInv /\ ResultTells /\ NothingPlanned /\ PlanInOrder /\ ResultsInOrder

ResearchInv == TypeOK /\ (~overtaken => InOrder)

----------------------------------------------------------------------------
USE DEF MainGoto, ThreadGoto, flags, thread, main, user, overlooked, history, vars

\* Waiting for the threads, the batch only moves on.
LEMMA WaitEffect ==
    WaitForThreads =>
        /\ mpc \in {"loop", "look_busy", "look_complete"}
        /\ mpc' \in {"loop", "look_busy", "look_complete", "saved", "timeout"}
        /\ UNCHANGED <<tasks, flags, thread_running, result, completed_steps,
                       last_facts_ingested, thread, live, autonomous, net, got, user, history>>
<1> SUFFICES ASSUME NEW from, NEW flag, NEW to, Wait(from, flag, to),
                    from \in {"loop", "look_busy", "look_complete"},
                    to \in {"look_busy", "look_complete", "saved", "timeout"}
             PROVE  /\ mpc \in {"loop", "look_busy", "look_complete"}
                    /\ mpc' \in {"loop", "look_busy", "look_complete", "saved", "timeout"}
                    /\ UNCHANGED <<tasks, flags, thread_running, result, completed_steps,
                                   last_facts_ingested, thread, live, autonomous, net, got,
                                   user, history>>
  BY Zenon DEF WaitForThreads
<1>1. mpc = from /\ mpc' \in {"loop", to}
  BY DEF Wait
<1> QED
  BY <1>1 DEF Wait

\* A look at the flags or the list, with nothing made of it, moves the main loop only.
Looks ==
    \/ AutonomousBusy \/ AutonomousComplete \/ (AutonomousRemaining /\ tasks # <<>>)
    \/ PrintRemaining \/ cmd_research_status

LEMMA LookEffect ==
    Looks =>
        /\ mpc \in {"loop", "auto_complete", "auto_remaining", "print"}
        /\ mpc' \in {"loop", "auto_complete", "auto_remaining", "print"}
        /\ early' = early \/ early' \in BOOLEAN
        /\ typed' = typed \/ (typed < MaxTyping /\ typed' = typed + 1)
        /\ UNCHANGED <<tasks, flags, thread_running, result, completed_steps,
                       last_facts_ingested, thread, live, autonomous, net, got, typing,
                       plans, tried, yielded, announced, ingested, credited, overtaken>>
<1>1. CASE AutonomousBusy
  BY <1>1 DEF AutonomousBusy
<1>2. CASE AutonomousComplete \/ (AutonomousRemaining /\ tasks # <<>>)
  BY <1>2 DEF AutonomousComplete, AutonomousRemaining
<1>3. CASE PrintRemaining \/ cmd_research_status
  BY <1>3 DEF PrintRemaining, cmd_research_status
<1> QED
  BY <1>1, <1>2, <1>3, Zenon DEF Looks

LEMMA RemainingOr == AutonomousRemaining => Looks \/ (tasks = <<>> /\ Decompose(TRUE))
BY Zenon DEF AutonomousRemaining, Looks

LEMMA HandoffStep == TypeOK /\ HandoffInv /\ [Next]_vars /\ ~overtaken' => HandoffInv'
<1> SUFFICES ASSUME TypeOK, HandoffInv, [Next]_vars, ~overtaken' PROVE HandoffInv'
  OBVIOUS
<1> USE DEF HandoffInv, FlagsTell, MainAlone, LabelTells
<1>1. CASE Planned
  BY <1>1, ResearchAssumption DEF Planned, TypeOK
<1>2. CASE RunAllow
  BY <1>2, ResearchAssumption DEF RunAllow, TypeOK
<1>3. CASE RunRequest
  BY <1>3, ResearchAssumption DEF RunRequest, TypeOK
<1>4. CASE ConsumeCopy
  BY <1>4, ResearchAssumption DEF ConsumeCopy, TypeOK
<1>5. CASE ConsumeClear
  BY <1>5, ResearchAssumption DEF ConsumeClear, TypeOK
<1>6. CASE ConsumeReset
  BY <1>6, ResearchAssumption DEF ConsumeReset, TypeOK
<1>7. CASE Announce
  BY <1>7, ResearchAssumption DEF Announce, TypeOK
<1>8. CASE cmd_research
  BY <1>8, ResearchAssumption DEF cmd_research, Decompose, Quiet, TypeOK
<1>9. CASE cmd_research_run
  BY <1>9, ResearchAssumption DEF cmd_research_run, Quiet, TypeOK
<1>10. CASE AutonomousBusy
  BY <1>10, ResearchAssumption DEF AutonomousBusy, TypeOK
<1>10a. CASE AutonomousComplete
  BY <1>10a, ResearchAssumption DEF AutonomousComplete, TypeOK
<1>10b. CASE AutonomousRemaining
  <2>1. CASE tasks = <<>>
    BY <1>10b, <2>1, ResearchAssumption DEF AutonomousRemaining, Decompose, TypeOK
  <2>2. CASE tasks # <<>>
    BY <1>10b, <2>2, ResearchAssumption DEF AutonomousRemaining, TypeOK
  <2> QED
    BY <2>1, <2>2
<1>10c. CASE cmd_research_status \/ PrintRemaining
  <2>1. /\ mpc' \in {"print", "loop"}
        /\ UNCHANGED <<tasks, flags, thread_running, rpc, label, live>>
    BY <1>10c DEF cmd_research_status, PrintRemaining
  <2>2. mpc \in {"print", "loop"}
    BY <1>10c DEF cmd_research_status, PrintRemaining
  <2> QED
    BY <2>1, <2>2
<1>11. CASE WaitForThreads
  <2>1. /\ mpc \in {"loop", "look_busy", "look_complete"}
        /\ mpc' \in {"loop", "look_busy", "look_complete", "saved", "timeout"}
        /\ UNCHANGED <<tasks, flags, thread_running, rpc, label, live>>
    BY <1>11, WaitEffect
  <2> QED
    BY <2>1 DEF TypeOK
<1>12. CASE Shutdown
  BY <1>12, ResearchAssumption DEF Shutdown, TypeOK
<1>13. CASE Joined
  BY <1>13, ResearchAssumption DEF Joined, TypeOK
<1>14. CASE TakeRequest
  BY <1>14, ResearchAssumption DEF TakeRequest, TypeOK
<1>15. CASE SetBusy
  BY <1>15, ResearchAssumption DEF SetBusy, TypeOK
<1>16. CASE ReadNetwork
  BY <1>16, ResearchAssumption DEF ReadNetwork, TypeOK
<1>17. CASE NextStep
  BY <1>17, ResearchAssumption DEF NextStep, TypeOK
<1>18. CASE FetchStart
  BY <1>18, ResearchAssumption DEF FetchStart, TypeOK
<1>19. CASE \E n \in 0 .. MaxFacts : Ingest(n)
  BY <1>19, ResearchAssumption DEF Ingest, TypeOK
<1>20. CASE FetchPop
  BY <1>20, ResearchAssumption DEF FetchPop, TypeOK
<1>21. CASE \E ok \in BOOLEAN : LocalStep(ok)
  BY <1>21, ResearchAssumption DEF LocalStep, TypeOK
<1>22. CASE LabelDone
  BY <1>22, ResearchAssumption DEF LabelDone, TypeOK
<1>23. CASE Report
  BY <1>23, ResearchAssumption DEF Report, TypeOK
<1>24. CASE SetComplete
  BY <1>24, ResearchAssumption DEF SetComplete, TypeOK
<1>25. CASE ClearBusy
  BY <1>25, ResearchAssumption DEF ClearBusy, TypeOK
<1>26. CASE ThreadEnds
  BY <1>26, ResearchAssumption DEF ThreadEnds, TypeOK
<1>27. CASE Type
  BY <1>27, ResearchAssumption DEF Type, TypeOK
<1>28. CASE UNCHANGED vars
  BY <1>28, ResearchAssumption DEF TypeOK
<1> QED
  BY <1>1, <1>2, <1>3, <1>4, <1>5, <1>6, <1>7, <1>8, <1>9, <1>10, <1>10a, <1>10b, <1>10c, <1>11, <1>12, <1>13, <1>14, <1>15, <1>16, <1>17, <1>18,
     <1>19, <1>20, <1>21, <1>22, <1>23, <1>24, <1>25, <1>26, <1>27, <1>28 DEF Next, MainStep, MainCommand, ThreadStep, Ended

----------------------------------------------------------------------------
(***************************************************************************)
(* Types                                                                    *)
(***************************************************************************)
LEMMA PlanType ==
    ASSUME NEW p \in Nat
    PROVE  /\ Plan(p) \in Seq(Steps) /\ Len(Plan(p)) = PlanSteps /\ Plan(p) # <<>>
           /\ \A i \in 1 .. PlanSteps : Plan(p)[i] = Step(p, i)
<1>1. /\ PlanSteps \in Nat /\ PlanSteps > 0
      /\ \A i \in 1 .. PlanSteps : Step(p, i) \in Steps
  BY ResearchAssumption DEF Step, Steps
<1> QED
  BY <1>1 DEF Plan

\* The steps of the lists taken apart: the first and the rest.
LEMMA TasksApart ==
    ASSUME TypeOK, tasks # <<>>
    PROVE  /\ Head(tasks) \in Steps /\ Head(tasks) = tasks[1] /\ Tail(tasks) \in Seq(Steps)
           /\ <<Head(tasks)>> \in Seq(Steps)
           /\ Len(Tail(tasks)) = Len(tasks) - 1
           /\ \A i \in 1 .. Len(Tail(tasks)) : Tail(tasks)[i] = tasks[i + 1]
<1>1. tasks \in Seq(Steps)
  BY DEF TypeOK
<1>2. Head(tasks) \in Steps
  BY <1>1, HeadTailProperties
<1> QED
  BY <1>1, <1>2, HeadTailProperties

LEMMA Joins ==
    ASSUME NEW s \in Seq(Steps), NEW t \in Seq(Steps)
    PROVE  s \o t \in Seq(Steps)
BY ConcatProperties

LEMMA JoinsAssociate ==
    ASSUME NEW s \in Seq(Steps), NEW t \in Seq(Steps), NEW u \in Seq(Steps)
    PROVE  (s \o t) \o u = s \o (t \o u)
BY ConcatAssociative

Lists ==
    /\ tasks \in Seq(Steps) /\ result \in Seq(Steps) /\ completed_steps \in Seq(Steps)
    /\ label \in Seq(Steps) /\ outputs \in Seq(Steps) /\ got \in Seq(Steps)
    /\ tried \in Seq(Steps) /\ yielded \in Seq(Steps) /\ announced \in Seq(Steps)

Flags ==
    /\ research_pending \in BOOLEAN /\ research_complete \in BOOLEAN
    /\ research_busy \in BOOLEAN /\ allow_network \in BOOLEAN
    /\ thread_running \in BOOLEAN /\ use_network \in BOOLEAN
    /\ live \in BOOLEAN /\ autonomous \in BOOLEAN /\ net \in BOOLEAN /\ typing \in BOOLEAN
    /\ early \in BOOLEAN /\ overtaken \in BOOLEAN

Counters ==
    /\ last_facts_ingested \in 0 .. MaxFacts /\ ingested \in Nat /\ credited \in Nat
    /\ rpc \in {"wait", "taken", "net", "next", "fetch", "ingest", "pop", "local",
                "label", "report", "complete", "clear_busy", "ended"}
    /\ mpc \in {"loop", "auto_complete", "auto_remaining", "planned", "run", "request",
                "print", "clear", "reset", "announce", "look_busy", "look_complete",
                "saved", "timeout", "join", "ended"}
    /\ plans \in 0 .. MaxPlans /\ typed \in 0 .. MaxTyping

LEMMA TypeParts == TypeOK <=> Lists /\ Flags /\ Counters
BY DEF TypeOK, Lists, Flags, Counters

LEMMA ListStep == TypeOK /\ [Next]_vars => Lists'
<1> SUFFICES ASSUME TypeOK, [Next]_vars PROVE Lists'
  OBVIOUS
<1>t. Lists
  BY TypeParts
<1> USE DEF Lists
<1>1. CASE Planned
  BY <1>1, <1>t DEF Planned
<1>2. CASE RunAllow
  BY <1>2, <1>t DEF RunAllow
<1>3. CASE RunRequest
  BY <1>3, <1>t DEF RunRequest
<1>4. CASE ConsumeCopy
  BY <1>4, <1>t DEF ConsumeCopy
<1>5. CASE ConsumeClear
  BY <1>5, <1>t DEF ConsumeClear
<1>6. CASE ConsumeReset
  BY <1>6, <1>t DEF ConsumeReset
<1>7. CASE Announce
  BY <1>7, Joins, <1>t DEF Announce
<1>8. CASE cmd_research
  <2>1. /\ plans + 1 \in Nat /\ tasks' = Plan(plans + 1)
        /\ UNCHANGED <<result, completed_steps, thread, got, tried, yielded, announced>>
    BY <1>8, TypeParts DEF Counters, cmd_research, Decompose
  <2> QED
    BY <1>t, <2>1, PlanType
<1>9. CASE cmd_research_run
  BY <1>9, <1>t DEF cmd_research_run
<1>10. CASE Decompose(TRUE)
  <2>1. /\ plans + 1 \in Nat /\ tasks' = Plan(plans + 1)
        /\ UNCHANGED <<result, completed_steps, thread, got, tried, yielded, announced>>
    BY <1>10, TypeParts DEF Counters, Decompose
  <2> QED
    BY <1>t, <2>1, PlanType
<1>10a. CASE Looks
  BY <1>10a, <1>t, LookEffect
<1>11. CASE WaitForThreads
  BY <1>11, <1>t DEF WaitForThreads, Wait
<1>12. CASE Shutdown
  BY <1>12, <1>t DEF Shutdown
<1>13. CASE Joined
  BY <1>13, <1>t DEF Joined
<1>14. CASE TakeRequest
  BY <1>14, <1>t DEF TakeRequest
<1>15. CASE SetBusy
  BY <1>15, <1>t DEF SetBusy
<1>16. CASE ReadNetwork
  BY <1>16, <1>t DEF ReadNetwork
<1>17. CASE NextStep
  BY <1>17, TasksApart, <1>t DEF NextStep
<1>18. CASE FetchStart
  BY <1>18, <1>t DEF FetchStart
<1>19. CASE \E n \in 0 .. MaxFacts : Ingest(n)
  BY <1>19, Joins, <1>t DEF Ingest
<1>20. CASE FetchPop
  BY <1>20, TasksApart, <1>t DEF FetchPop
<1>21. CASE \E ok \in BOOLEAN : LocalStep(ok)
  BY <1>21, TasksApart, AppendProperties, <1>t DEF LocalStep
<1>22. CASE LabelDone
  BY <1>22, Joins, <1>t DEF LabelDone
<1>23. CASE Report
  BY <1>23, <1>t DEF Report
<1>24. CASE SetComplete
  BY <1>24, <1>t DEF SetComplete
<1>25. CASE ClearBusy
  BY <1>25, <1>t, EmptySeq DEF ClearBusy
<1>26. CASE ThreadEnds
  BY <1>26, <1>t DEF ThreadEnds
<1>27. CASE Type
  BY <1>27, <1>t DEF Type
<1>28. CASE UNCHANGED vars
  BY <1>28, <1>t
<1> QED
  BY <1>1, <1>2, <1>3, <1>4, <1>5, <1>6, <1>7, <1>8, <1>9, <1>10, <1>10a, RemainingOr, <1>11, <1>12, <1>13, <1>14, <1>15, <1>16, <1>17, <1>18,
     <1>19, <1>20, <1>21, <1>22, <1>23, <1>24, <1>25, <1>26, <1>27, <1>28
  DEF Next, MainStep, MainCommand, ThreadStep, Ended, Looks

LEMMA FlagStep == TypeOK /\ [Next]_vars => Flags'
<1> SUFFICES ASSUME Flags, [Next]_vars PROVE Flags'
  BY TypeParts
<1> USE DEF Flags
<1>1. CASE Planned
  BY <1>1 DEF Planned
<1>2. CASE RunAllow
  BY <1>2 DEF RunAllow
<1>3. CASE RunRequest \/ ConsumeCopy \/ ConsumeClear \/ ConsumeReset \/ Announce
  <2>1. CASE RunRequest
    BY <2>1 DEF RunRequest
  <2>2. CASE ConsumeCopy
    BY <2>2 DEF ConsumeCopy
  <2>3. CASE ConsumeClear
    BY <2>3 DEF ConsumeClear
  <2>4. CASE ConsumeReset
    BY <2>4 DEF ConsumeReset
  <2>5. CASE Announce
    BY <2>5 DEF Announce
  <2> QED
    BY <1>3, <2>1, <2>2, <2>3, <2>4, <2>5
<1>4. CASE \E auto \in BOOLEAN : Decompose(auto)
  BY <1>4 DEF Decompose
<1>5. CASE cmd_research_run
  BY <1>5 DEF cmd_research_run
<1>6. CASE WaitForThreads
  BY <1>6, WaitEffect
<1>7. CASE Shutdown \/ Joined
  <2>1. CASE Shutdown
    BY <2>1 DEF Shutdown
  <2>2. CASE Joined
    BY <2>2 DEF Joined
  <2> QED
    BY <1>7, <2>1, <2>2
<1>8. CASE TakeRequest \/ SetBusy \/ ReadNetwork
  <2>1. CASE TakeRequest
    BY <2>1 DEF TakeRequest
  <2>2. CASE SetBusy
    BY <2>2 DEF SetBusy
  <2>3. CASE ReadNetwork
    BY <2>3 DEF ReadNetwork
  <2> QED
    BY <1>8, <2>1, <2>2, <2>3
<1>9. CASE NextStep
  BY <1>9 DEF NextStep
<1>10. CASE FetchStart
  BY <1>10 DEF FetchStart
<1>11. CASE \E n \in 0 .. MaxFacts : Ingest(n)
  BY <1>11 DEF Ingest
<1>12. CASE FetchPop
  BY <1>12 DEF FetchPop
<1>13. CASE \E ok \in BOOLEAN : LocalStep(ok)
  BY <1>13 DEF LocalStep
<1>14. CASE LabelDone
  BY <1>14 DEF LabelDone
<1>15. CASE Report \/ SetComplete \/ ClearBusy \/ ThreadEnds
  <2>1. CASE Report
    BY <2>1 DEF Report
  <2>2. CASE SetComplete
    BY <2>2 DEF SetComplete
  <2>3. CASE ClearBusy
    BY <2>3 DEF ClearBusy
  <2>4. CASE ThreadEnds
    BY <2>4 DEF ThreadEnds
  <2> QED
    BY <1>15, <2>1, <2>2, <2>3, <2>4
<1>16. CASE Type
  BY <1>16 DEF Type
<1>17. CASE UNCHANGED vars
  BY <1>17
<1>18. CASE Looks
  BY <1>18, LookEffect
<1> QED
  BY <1>1, <1>2, <1>3, <1>4, <1>5, <1>6, <1>7, <1>8, <1>9, <1>10, <1>11, <1>12, <1>13, <1>14,
     <1>15, <1>16, <1>17, <1>18, RemainingOr
     DEF Next, MainStep, MainCommand, ThreadStep, Ended, cmd_research, Looks

LEMMA CounterStep == TypeOK /\ [Next]_vars => Counters'
<1> SUFFICES ASSUME Counters, [Next]_vars PROVE Counters'
  BY TypeParts
<1>t. MaxFacts \in Nat /\ MaxPlans \in Nat /\ MaxTyping \in Nat
  BY ResearchAssumption
<1> USE DEF Counters
<1>1. CASE Announce
  <2>1. /\ credited' = credited + last_facts_ingested /\ mpc' = "loop"
        /\ UNCHANGED <<last_facts_ingested, ingested, rpc, plans, typed>>
    BY <1>1 DEF Announce
  <2> QED
    BY <1>t, <2>1
<1>2. CASE Planned \/ RunAllow \/ RunRequest \/ ConsumeCopy \/ ConsumeClear \/ ConsumeReset
  BY <1>t, <1>2 DEF Planned, RunAllow, RunRequest, ConsumeCopy, ConsumeClear, ConsumeReset
<1>3. CASE \E auto : Decompose(auto)
  <2>1. /\ plans < MaxPlans /\ plans' = plans + 1 /\ mpc' = "planned"
        /\ UNCHANGED <<last_facts_ingested, ingested, credited, rpc, typed>>
    BY <1>3 DEF Decompose
  <2> QED
    BY <1>t, <2>1
<1>4. CASE WaitForThreads
  BY <1>4, WaitEffect
<1>5. CASE cmd_research_run \/ Shutdown \/ Joined
  BY <1>5 DEF cmd_research_run, Shutdown, Joined
<1>6. CASE \E n \in 0 .. MaxFacts : Ingest(n)
  BY <1>t, <1>6 DEF Ingest
<1>7. CASE \E ok \in BOOLEAN : LocalStep(ok)
  BY <1>7 DEF LocalStep
<1>8. CASE \/ TakeRequest \/ SetBusy \/ ReadNetwork \/ NextStep \/ FetchStart \/ FetchPop
           \/ LabelDone \/ Report \/ SetComplete \/ ClearBusy \/ ThreadEnds
  BY <1>t, <1>8 DEF TakeRequest, SetBusy, ReadNetwork, NextStep, FetchStart, FetchPop, LabelDone,
                    Report, SetComplete, ClearBusy, ThreadEnds
<1>9. CASE Type
  <2>1. typed' = typed \/ (typed < MaxTyping /\ typed' = typed + 1)
    BY <1>9, Zenon DEF Type
  <2>2. UNCHANGED <<last_facts_ingested, ingested, credited, rpc, mpc, plans>>
    BY <1>9, Zenon DEF Type
  <2> QED
    BY <1>t, <2>1, <2>2
<1>10. CASE UNCHANGED vars
  BY <1>10
<1>11. CASE Looks
  BY <1>t, <1>11, LookEffect
<1> QED
  BY <1>1, <1>2, <1>3, <1>4, <1>5, <1>6, <1>7, <1>8, <1>9, <1>10, <1>11, RemainingOr
     DEF Next, MainStep, MainCommand, ThreadStep, Ended, cmd_research, Looks

LEMMA TypeStep == TypeOK /\ [Next]_vars => TypeOK'
<1>1. TypeOK /\ [Next]_vars => Lists' /\ Flags' /\ Counters'
  BY ListStep, FlagStep, CounterStep, Zenon
<1>2. Lists' /\ Flags' /\ Counters' => TypeOK'
  BY Zenon DEF TypeOK, Lists, Flags, Counters
<1> QED
  BY <1>1, <1>2, Zenon

----------------------------------------------------------------------------
(***************************************************************************)
(* Plans are worked off in their order                                      *)
(***************************************************************************)
\* Doing the first of the steps left.
LEMMA ProgressDone ==
    ASSUME NEW p \in Nat, NEW d \in Seq(Steps), NEW l \in Seq(Steps), l # <<>>,
           Progress(p, d, l)
    PROVE  Progress(p, Append(d, Head(l)), Tail(l))
<1> DEFINE worked == PlanSteps - Len(l)
           before == Len(d) - worked
           e == Append(d, Head(l))
           m == Tail(l)
<1>1. /\ PlanSteps \in Nat /\ Len(d) \in Nat /\ Len(l) \in Nat /\ Len(l) > 0
      /\ Head(l) = l[1] /\ Head(l) \in Steps
      /\ Len(m) = Len(l) - 1 /\ \A i \in 1 .. Len(m) : m[i] = l[i + 1]
  BY ResearchAssumption, HeadTailProperties, LenProperties
<1>2. /\ Len(e) = Len(d) + 1 /\ e[Len(d) + 1] = l[1]
      /\ \A i \in 1 .. Len(d) : e[i] = d[i]
  BY <1>1, AppendProperties
<1>3. /\ before >= 0 /\ worked >= 0
      /\ \A i \in 1 .. before : d[i].plan < p
      /\ \A i \in 1 .. worked : d[before + i] = Step(p, i)
      /\ \A i \in 1 .. Len(l) : l[i] = Step(p, worked + i)
  BY DEF Progress
<1>c. /\ before \in Nat /\ worked \in Nat
      /\ before + worked = Len(d) /\ worked + Len(l) = PlanSteps
  BY <1>1, <1>3
<1> HIDE DEF e, m, before, worked
<1>4. PlanSteps - Len(m) = worked + 1 /\ Len(e) - (worked + 1) = before
  <2> DEFINE ld == Len(d)
             ll == Len(l)
             le == Len(e)
             lm == Len(m)
  <2>1. /\ lm = ll - 1 /\ le = ld + 1
        /\ ld \in Nat /\ ll \in Nat /\ PlanSteps \in Nat
        /\ before \in Nat /\ worked \in Nat
        /\ before + worked = ld /\ worked + ll = PlanSteps
    BY <1>1, <1>2, <1>c
  <2> HIDE DEF ld, ll, le, lm
  <2>2. PlanSteps - lm = worked + 1
    BY <2>1
  <2>3. le - (worked + 1) = before
    BY <2>1
  <2> QED
    BY <2>2, <2>3 DEF le, lm
<1>5. \A i \in 1 .. before : e[i].plan < p
  <2> SUFFICES ASSUME NEW i \in 1 .. before PROVE e[i].plan < p
    OBVIOUS
  <2>1. i \in 1 .. Len(d)
    BY <1>1, <1>c
  <2> QED
    BY <2>1, <1>2, <1>3
<1>6. \A i \in 1 .. worked + 1 : e[before + i] = Step(p, i)
  <2>1. e[before + (worked + 1)] = Step(p, worked + 1)
    <3>1. before + (worked + 1) = Len(d) + 1 /\ 1 \in 1 .. Len(l)
      BY <1>1, <1>c
    <3> QED
      BY <3>1, <1>2, <1>3
  <2>2. ASSUME NEW i \in 1 .. worked PROVE e[before + i] = Step(p, i)
    <3>1. before + i \in 1 .. Len(d)
      BY <1>1, <1>c
    <3> QED
      BY <3>1, <1>2, <1>3
  <2>3. \A i \in 1 .. worked + 1 : i = worked + 1 \/ i \in 1 .. worked
    BY <1>c
  <2> QED
    BY <2>1, <2>2, <2>3
<1>7. \A i \in 1 .. Len(m) : m[i] = Step(p, worked + 1 + i)
  <2> SUFFICES ASSUME NEW i \in 1 .. Len(m) PROVE m[i] = Step(p, worked + 1 + i)
    OBVIOUS
  <2>1. m[i] = l[i + 1] /\ i + 1 \in 1 .. Len(l) /\ worked + (i + 1) = worked + 1 + i
    BY <1>1, <1>c
  <2> QED
    BY <2>1, <1>3
<1>8. Progress(p, e, m)
  <2>1. worked + 1 >= 0 /\ before >= 0
    BY <1>c
  <2> QED
    BY <2>1, <1>4, <1>5, <1>6, <1>7 DEF Progress
<1> QED
  BY <1>8 DEF e, m

\* Making a plan when every step tried is of this plan or an earlier one.
LEMMA ProgressMade ==
    ASSUME NEW p \in Nat, NEW d \in Seq(Steps), \A i \in 1 .. Len(d) : d[i].plan <= p
    PROVE  Progress(p + 1, d, Plan(p + 1))
<1>1. /\ PlanSteps \in Nat /\ Len(d) \in Nat
      /\ Len(Plan(p + 1)) = PlanSteps
      /\ \A i \in 1 .. PlanSteps : Plan(p + 1)[i] = Step(p + 1, i)
  BY ResearchAssumption, PlanType, LenProperties
<1>2. \A i \in 1 .. Len(d) : d[i].plan < p + 1
  <2> SUFFICES ASSUME NEW i \in 1 .. Len(d) PROVE d[i].plan < p + 1
    OBVIOUS
  <2>1. d[i] \in Steps
    BY ElementOfSeq
  <2>2. d[i].plan \in Nat
    BY <2>1 DEF Steps
  <2> QED
    BY <2>2
<1>3. PlanSteps - Len(Plan(p + 1)) = 0 /\ Len(d) - 0 = Len(d)
  BY <1>1
<1>4. \A i \in 1 .. Len(Plan(p + 1)) : Plan(p + 1)[i] = Step(p + 1, 0 + i)
  BY <1>1
<1> HIDE DEF Plan
<1> QED
  BY <1>1, <1>2, <1>3, <1>4 DEF Progress

\* No step tried is of a plan still to be made.
LEMMA DoneBound ==
    ASSUME TypeOK, NothingPlanned, PlanInOrder
    PROVE  \A i \in 1 .. Len(tried) : tried[i].plan <= plans
<1>1. /\ plans \in Nat /\ tried \in Seq(Steps) /\ Len(tried) \in Nat
  BY ResearchAssumption, LenProperties DEF TypeOK
<1>2. CASE plans = 0
  BY <1>2 DEF NothingPlanned
<1>3. CASE plans > 0
  <2>1. Progress(plans, tried, Left)
    BY <1>3 DEF PlanInOrder
  <2> DEFINE worked == PlanSteps - Len(Left)
             before == Len(tried) - worked
  <2>2. Left \in Seq(Steps) /\ Len(Left) \in Nat /\ PlanSteps \in Nat
    <3>1. Left \in Seq(Steps)
      <4>1. tasks = <<>> => Tail(tasks) \in Seq(Steps)
        BY SMT
      <4> QED
        BY <4>1, TasksApart DEF Left, TypeOK
    <3> QED
      BY <3>1, LenProperties, ResearchAssumption
  <2> SUFFICES ASSUME NEW i \in 1 .. Len(tried) PROVE tried[i].plan <= plans
    OBVIOUS
  <2>3. CASE i \in 1 .. before
    <3>1. tried[i].plan < plans
      BY <2>1, <2>3 DEF Progress
    <3>2. tried[i] \in Steps
      BY <1>1, ElementOfSeq
    <3>3. tried[i].plan \in Nat
      BY <3>2 DEF Steps
    <3> QED
      BY <1>1, <3>1, <3>3
  <2>4. CASE i \notin 1 .. before
    <3>1. i - before \in 1 .. worked /\ before + (i - before) = i
      BY <1>1, <2>1, <2>2, <2>4 DEF Progress
    <3>2. tried[i] = Step(plans, i - before)
      BY <2>1, <3>1 DEF Progress
    <3> QED
      BY <1>1, <3>2 DEF Step
  <2> QED
    BY <2>3, <2>4
<1> QED
  BY <1>1, <1>2, <1>3

\* A step that leaves the list, what was tried and the label in hand alone.
PlanKept ==
    /\ UNCHANGED <<tasks, plans, tried, completed_steps>>
    /\ \/ UNCHANGED <<rpc, label>>
       \/ {rpc, rpc'} \intersect {"pop", "label"} = {}

LEMMA PlanStep ==
    TypeOK /\ HandoffInv /\ NothingPlanned /\ PlanInOrder /\ [Next]_vars /\ ~overtaken'
        => NothingPlanned' /\ PlanInOrder'
<1> SUFFICES ASSUME TypeOK, HandoffInv, NothingPlanned, PlanInOrder, [Next]_vars, ~overtaken'
             PROVE  NothingPlanned' /\ PlanInOrder'
  OBVIOUS
<1>t. /\ plans \in Nat /\ tasks \in Seq(Steps) /\ tried \in Seq(Steps)
      /\ completed_steps \in Seq(Steps) /\ label \in Seq(Steps)
  BY ResearchAssumption DEF TypeOK
<1>p. /\ plans > 0 => Progress(plans, tried, Left)
      /\ completed_steps \o InHand = tried
  BY DEF PlanInOrder
<1>q. SUFFICES /\ NothingPlanned'
               /\ plans' > 0 => Progress(plans', tried', Left')
               /\ completed_steps' \o InHand' = tried'
  BY DEF PlanInOrder, Progress, InHand, Left
<1>1. CASE PlanKept
  BY <1>p, <1>1 DEF PlanKept, Left, InHand, NothingPlanned
<1>2. CASE \E auto \in BOOLEAN : Decompose(auto) /\ rpc \in {"wait", "taken", "ended"}
  <2>1. /\ plans' = plans + 1 /\ tasks' = Plan(plans + 1)
        /\ rpc \in {"wait", "taken", "ended"}
        /\ UNCHANGED <<tried, completed_steps, rpc, label>>
    BY <1>2 DEF Decompose
  <2>2. Progress(plans + 1, tried, Plan(plans + 1))
    BY <1>t, DoneBound, ProgressMade
  <2>3. Left' = Plan(plans + 1) /\ InHand' = InHand
    BY <2>1 DEF Left, InHand
  <2> QED
    BY <1>t, <1>p, <2>1, <2>2, <2>3 DEF NothingPlanned
<1>3. CASE \/ \E n \in 0 .. MaxFacts : Ingest(n)
           \/ \E ok \in BOOLEAN : LocalStep(ok)
  <2>1. rpc \in {"ingest", "local"} /\ tasks # <<>> /\ label = <<Head(tasks)>>
    BY <1>3 DEF HandoffInv, LabelTells, Ingest, LocalStep
  <2>2. /\ tried' = Append(tried, Head(tasks)) /\ tried' = tried \o label
        /\ UNCHANGED <<plans, completed_steps, label>>
    <3>1. Append(tried, Head(tasks)) = tried \o <<Head(tasks)>>
      BY <1>t, <2>1, TasksApart, AppendIsConcat
    <3> QED
      BY <1>3, <2>1, <3>1 DEF Ingest, LocalStep
  <2>3. Left = tasks /\ Left' = Tail(tasks) /\ InHand = <<>> /\ InHand' = label
    <3>1. CASE \E n \in 0 .. MaxFacts : Ingest(n)
      BY <3>1 DEF Ingest, Left, InHand
    <3>2. CASE \E ok \in BOOLEAN : LocalStep(ok)
      BY <3>2 DEF LocalStep, Left, InHand
    <3> QED
      BY <1>3, <3>1, <3>2
  <2>4. plans # 0
    BY <2>1 DEF NothingPlanned
  <2>5. Progress(plans, Append(tried, Head(tasks)), Tail(tasks))
    BY <1>t, <1>p, <2>1, <2>3, <2>4, ProgressDone
  <2>6. completed_steps \o <<>> = completed_steps
    BY <1>t, ConcatEmptySeq
  <2> QED
    BY <1>t, <1>p, <2>2, <2>3, <2>4, <2>5, <2>6 DEF NothingPlanned
<1>4. CASE FetchPop
  <2>1. tasks # <<>> /\ label = <<Head(tasks)>> /\ rpc = "pop"
    BY <1>4 DEF HandoffInv, LabelTells, FetchPop
  <2>2. tasks' = Tail(tasks) /\ rpc' = "label" /\ UNCHANGED <<label, plans, tried, completed_steps>>
    BY <1>4, <2>1 DEF FetchPop
  <2>3. plans # 0
    BY <2>1 DEF NothingPlanned
  <2> QED
    BY <1>p, <2>1, <2>2, <2>3 DEF Left, InHand, NothingPlanned
<1>5. CASE LabelDone
  <2>1. /\ rpc = "label" /\ rpc' = "next" /\ completed_steps' = completed_steps \o label
        /\ UNCHANGED <<tasks, plans, tried>>
    BY <1>5 DEF LabelDone
  <2>2. tried \o <<>> = tried
    BY <1>t, ConcatEmptySeq
  <2> QED
    BY <1>p, <2>1, <2>2 DEF Left, InHand, NothingPlanned
<1>6. Next => \/ PlanKept \/ LabelDone \/ FetchPop
              \/ \E auto \in BOOLEAN : Decompose(auto) /\ rpc \in {"wait", "taken", "ended"}
              \/ \E n \in 0 .. MaxFacts : Ingest(n)
              \/ \E ok \in BOOLEAN : LocalStep(ok)
  <2> USE DEF PlanKept
  <2>1. Planned \/ RunAllow \/ RunRequest \/ ConsumeCopy \/ ConsumeClear \/ ConsumeReset
            \/ Announce => PlanKept
    BY DEF Planned, RunAllow, RunRequest, ConsumeCopy, ConsumeClear, ConsumeReset, Announce
  <2>1a. Looks => PlanKept
    BY LookEffect
  <2>1b. AutonomousRemaining /\ Decompose(TRUE) => rpc \in {"wait", "taken", "ended"}
    BY DEF AutonomousRemaining, Decompose, HandoffInv, MainAlone
  <2>1c. AutonomousRemaining => \/ PlanKept
             \/ \E auto \in BOOLEAN : Decompose(auto) /\ rpc \in {"wait", "taken", "ended"}
    BY <2>1a, <2>1b, RemainingOr, Zenon
  <2>2. cmd_research => Decompose(FALSE) /\ rpc \in {"wait", "taken", "ended"}
    BY DEF cmd_research, Quiet
  <2>3. cmd_research_run \/ Shutdown \/ Joined \/ Type \/ Ended => PlanKept
    BY DEF cmd_research_run, Shutdown, Joined, Type, Ended
  <2>4. WaitForThreads => PlanKept
    BY WaitEffect
  <2>5. TakeRequest \/ SetBusy \/ ReadNetwork \/ NextStep \/ FetchStart \/ Report \/ SetComplete
            \/ ClearBusy \/ ThreadEnds => PlanKept
    BY DEF TakeRequest, SetBusy, ReadNetwork, NextStep, FetchStart, Report, SetComplete,
           ClearBusy, ThreadEnds
  <2> QED
    BY <2>1, <2>1a, <2>1c, <2>2, <2>3, <2>4, <2>5, Zenon
    DEF Next, MainStep, MainCommand, ThreadStep, Looks
<1>7. CASE UNCHANGED vars
  BY <1>1, <1>7 DEF PlanKept
<1> QED
  BY <1>1, <1>2, <1>3, <1>4, <1>5, <1>6, <1>7

----------------------------------------------------------------------------
(***************************************************************************)
(* No result is lost                                                        *)
(***************************************************************************)
LEMMA ResultTellsStep ==
    TypeOK /\ HandoffInv /\ ResultTells /\ [Next]_vars /\ ~overtaken' => ResultTells'
<1> SUFFICES ASSUME TypeOK, HandoffInv, ResultTells, [Next]_vars, ~overtaken'
             PROVE  ResultTells'
  OBVIOUS
<1> USE DEF HandoffInv, FlagsTell, MainAlone, ResultTells
<1>1. CASE Planned \/ RunAllow \/ RunRequest
  BY <1>1 DEF Planned, RunAllow, RunRequest
<1>2. CASE ConsumeCopy \/ ConsumeClear
  BY <1>2 DEF ConsumeCopy, ConsumeClear
<1>3. CASE ConsumeReset \/ Announce
  BY <1>3 DEF ConsumeReset, Announce
<1>4. CASE cmd_research \/ AutonomousRemaining
  <2>1. CASE cmd_research
    BY <2>1 DEF cmd_research, Decompose, Quiet
  <2>2. CASE AutonomousRemaining /\ Decompose(TRUE)
    BY <2>2 DEF AutonomousRemaining, Decompose
  <2>3. CASE Looks
    BY <2>3, LookEffect
  <2> QED
    BY <1>4, <2>1, <2>2, <2>3, RemainingOr
<1>4a. CASE Looks
  BY <1>4a, LookEffect
<1>5. CASE cmd_research_run \/ Shutdown \/ Joined
  BY <1>5 DEF cmd_research_run, Shutdown, Joined
<1>6. CASE WaitForThreads
  BY <1>6, WaitEffect
<1>7. CASE TakeRequest \/ SetBusy \/ ReadNetwork
  BY <1>7 DEF TakeRequest, SetBusy, ReadNetwork
<1>8. CASE NextStep \/ FetchStart \/ FetchPop
  BY <1>8 DEF NextStep, FetchStart, FetchPop
<1>9. CASE \E n \in 0 .. MaxFacts : Ingest(n)
  BY <1>9 DEF Ingest
<1>10. CASE \E ok \in BOOLEAN : LocalStep(ok)
  BY <1>10 DEF LocalStep
<1>11. CASE LabelDone \/ Report \/ SetComplete
  BY <1>11 DEF LabelDone, Report, SetComplete
<1>12. CASE ClearBusy \/ ThreadEnds
  BY <1>12 DEF ClearBusy, ThreadEnds
<1>13. CASE Type \/ UNCHANGED vars
  BY <1>13 DEF Type
<1> QED
  BY <1>1, <1>2, <1>3, <1>4, <1>4a, <1>5, <1>6, <1>7, <1>8, <1>9, <1>10, <1>11, <1>12, <1>13
  DEF Next, MainStep, MainCommand, ThreadStep, Ended, Looks

\* What gave an output is what was told, what is on its way, and what was found since.
Told(y, a, w, f) == y = a \o w \o f

LEMMA ToldMore ==
    ASSUME NEW y, NEW a \in Seq(Steps), NEW w \in Seq(Steps), NEW f \in Seq(Steps),
           NEW more \in Seq(Steps), Told(y, a, w, f)
    PROVE  Told(y \o more, a, w, f \o more)
<1> DEFINE b == a \o w
<1>1. b \in Seq(Steps)
  BY Joins
<1> HIDE DEF b
<1>2. (b \o f) \o more = b \o (f \o more)
  BY <1>1, JoinsAssociate
<1> QED
  BY <1>2 DEF b, Told

LEMMA LiveStep == [Next]_vars => live' = live
<1>0. Looks \/ Decompose(TRUE) => live' = live
  BY LookEffect DEF Decompose
<1>1. MainStep => live' = live
  BY <1>0, RemainingOr DEF MainStep, Looks, Planned, RunAllow, RunRequest, ConsumeCopy,
     ConsumeClear, ConsumeReset, Announce
<1>2. MainCommand => live' = live
  BY <1>0, WaitEffect DEF MainCommand, Looks, cmd_research, cmd_research_run, Decompose,
     Shutdown, Joined
<1>3. ThreadStep => live' = live
  BY DEF ThreadStep, TakeRequest, SetBusy, ReadNetwork, NextStep, FetchStart, Ingest, FetchPop,
         LocalStep, LabelDone, Report, SetComplete, ClearBusy, ThreadEnds
<1>4. Type \/ Ended => live' = live
  BY DEF Type, Ended
<1> QED
  BY <1>1, <1>2, <1>3, <1>4 DEF Next

LEMMA ResultsStep ==
    TypeOK /\ HandoffInv /\ ResultTells /\ ResultsInOrder /\ [Next]_vars /\ ~overtaken'
        => ResultsInOrder'
<1> SUFFICES ASSUME TypeOK, HandoffInv, ResultTells, [Next]_vars, live,
                    yielded = announced \o OnItsWay \o FoundSoFar
             PROVE  yielded' = announced' \o OnItsWay' \o FoundSoFar'
  BY LiveStep DEF ResultsInOrder
<1>t. /\ announced \in Seq(Steps) /\ got \in Seq(Steps) /\ result \in Seq(Steps)
      /\ outputs \in Seq(Steps) /\ label \in Seq(Steps) /\ tasks \in Seq(Steps)
      /\ yielded \in Seq(Steps) /\ <<>> \in Seq(Steps)
      /\ OnItsWay \in Seq(Steps) /\ FoundSoFar \in Seq(Steps)
  BY EmptySeq DEF TypeOK, OnItsWay, FoundSoFar
<1>1. CASE UNCHANGED <<yielded, announced, OnItsWay, FoundSoFar>>
  BY <1>1
<1>2. CASE Announce
  <2>1. OnItsWay = got /\ OnItsWay' = <<>> /\ FoundSoFar' = FoundSoFar
    BY <1>2 DEF Announce, OnItsWay, FoundSoFar, HandoffInv, MainAlone, ResultTells
  <2>2. announced' = announced \o got /\ yielded' = yielded
    BY <1>2 DEF Announce
  <2>3. (announced \o got) \o <<>> = announced \o got
    BY <1>t, Joins, ConcatEmptySeq
  <2> QED
    BY <2>1, <2>2, <2>3
<1>3. CASE Report
  <2>1. OnItsWay = <<>> /\ FoundSoFar = outputs /\ OnItsWay' = outputs /\ FoundSoFar' = <<>>
    BY <1>3 DEF Report, OnItsWay, FoundSoFar, HandoffInv, FlagsTell, MainAlone, ResultTells
  <2>2. UNCHANGED <<announced, yielded>>
    BY <1>3 DEF Report
  <2>3. announced \o <<>> = announced /\ (announced \o outputs) \o <<>> = announced \o outputs
    BY <1>t, Joins, ConcatEmptySeq
  <2> QED
    BY <2>1, <2>2, <2>3
<1>4. ASSUME NEW more \in Seq(Steps), yielded' = yielded \o more,
             FoundSoFar' = FoundSoFar \o more, UNCHANGED <<announced, OnItsWay>>
      PROVE  yielded' = announced' \o OnItsWay' \o FoundSoFar'
  <2>1. Told(yielded \o more, announced, OnItsWay, FoundSoFar \o more)
    <3>1. Told(yielded, announced, OnItsWay, FoundSoFar)
      BY DEF Told
    <3> QED
      BY <1>t, <3>1, ToldMore
  <2> QED
    BY <1>4, <2>1 DEF Told
<1>5. CASE \E n \in 0 .. MaxFacts : Ingest(n)
  <2>1. /\ yielded' = yielded \o label /\ FoundSoFar' = FoundSoFar \o label
        /\ UNCHANGED <<announced, OnItsWay>>
    BY <1>5 DEF Ingest, OnItsWay, FoundSoFar
  <2> QED
    BY <1>t, <1>4, <2>1
<1>6. CASE \E ok \in BOOLEAN : LocalStep(ok)
  <2>1. PICK ok \in BOOLEAN : LocalStep(ok)
    BY <1>6
  <2>2. CASE ok
    <3>1. tasks # <<>> /\ <<Head(tasks)>> \in Seq(Steps) /\ Head(tasks) \in Steps
      BY <2>1, TasksApart DEF LocalStep
    <3>2. /\ yielded' = Append(yielded, Head(tasks)) /\ FoundSoFar' = Append(FoundSoFar, Head(tasks))
          /\ UNCHANGED <<announced, OnItsWay>>
      BY <2>1, <2>2 DEF LocalStep, OnItsWay, FoundSoFar
    <3>3. /\ yielded' = yielded \o <<Head(tasks)>>
          /\ FoundSoFar' = FoundSoFar \o <<Head(tasks)>>
      BY <1>t, <3>1, <3>2, AppendIsConcat
    <3> QED
      BY <1>4, <3>1, <3>2, <3>3
  <2>3. CASE ~ok
    BY <1>1, <2>1, <2>3 DEF LocalStep, OnItsWay, FoundSoFar
  <2> QED
    BY <2>2, <2>3
<1>7. CASE SetBusy \/ ClearBusy
  BY <1>1, <1>7 DEF SetBusy, ClearBusy, OnItsWay, FoundSoFar, ResultTells
<1>8. CASE ConsumeCopy \/ ConsumeClear \/ ConsumeReset
  BY <1>1, <1>8 DEF ConsumeCopy, ConsumeClear, ConsumeReset, OnItsWay, FoundSoFar
<1>9. CASE \/ Planned \/ RunAllow \/ RunRequest
           \/ ((\E auto \in BOOLEAN : Decompose(auto)) /\ mpc \in {"loop", "auto_remaining"})
           \/ Looks
           \/ cmd_research_run \/ Shutdown \/ Type \/ Ended \/ UNCHANGED vars
  <2> USE DEF OnItsWay, FoundSoFar
  <2>1. CASE Planned \/ RunAllow \/ RunRequest
    BY <1>1, <2>1 DEF Planned, RunAllow, RunRequest
  <2>2. CASE (\E auto \in BOOLEAN : Decompose(auto)) /\ mpc \in {"loop", "auto_remaining"}
    BY <1>1, <2>2 DEF Decompose
  <2>2a. CASE Looks
    BY <1>1, <2>2a, LookEffect
  <2>3. CASE cmd_research_run \/ Shutdown \/ Type
    BY <1>1, <2>3 DEF cmd_research_run, Shutdown, Type, MainAlone, HandoffInv
  <2>4. CASE Ended \/ UNCHANGED vars
    BY <1>1, <2>4 DEF Ended
  <2> QED
    BY <1>9, <2>1, <2>2, <2>2a, <2>3, <2>4
<1>10. CASE WaitForThreads \/ Joined
  <2>1. CASE WaitForThreads
    <3>1. /\ mpc \in {"loop", "look_busy", "look_complete"}
          /\ mpc' \in {"loop", "look_busy", "look_complete", "saved", "timeout"}
          /\ UNCHANGED <<got, result, rpc, outputs, yielded, announced>>
      BY <2>1, WaitEffect
    <3> QED
      BY <1>1, <3>1 DEF OnItsWay, FoundSoFar
  <2>2. CASE Joined
    BY <1>1, <2>2 DEF Joined, OnItsWay, FoundSoFar
  <2> QED
    BY <1>10, <2>1, <2>2
<1>11. CASE TakeRequest \/ ReadNetwork \/ NextStep \/ FetchStart \/ FetchPop
  BY <1>1, <1>11 DEF TakeRequest, ReadNetwork, NextStep, FetchStart, FetchPop, OnItsWay, FoundSoFar
<1>12. CASE LabelDone \/ SetComplete \/ ThreadEnds
  BY <1>1, <1>12 DEF LabelDone, SetComplete, ThreadEnds, OnItsWay, FoundSoFar
<1>13. cmd_research \/ AutonomousRemaining =>
          Looks \/ ((\E auto \in BOOLEAN : Decompose(auto)) /\ mpc \in {"loop", "auto_remaining"})
  BY RemainingOr DEF cmd_research, AutonomousRemaining
<1>14. CASE MainStep
  <2>1. CASE Announce
    BY <2>1, <1>2
  <2>2. CASE ConsumeCopy \/ ConsumeClear \/ ConsumeReset
    BY <2>2, <1>8
  <2>3. CASE Planned \/ RunAllow \/ RunRequest
    BY <2>3, <1>9
  <2>4. CASE AutonomousComplete \/ AutonomousRemaining \/ PrintRemaining
    BY <2>4, <1>9, <1>13, Zenon DEF Looks
  <2> QED
    BY <1>14, <2>1, <2>2, <2>3, <2>4 DEF MainStep
<1>15. CASE MainCommand
  BY <1>15, <1>9, <1>10, <1>13 DEF MainCommand, Looks
<1>16. CASE ThreadStep
  BY <1>16, <1>3, <1>5, <1>6, <1>7, <1>11, <1>12 DEF ThreadStep
<1> QED
  BY <1>9, <1>14, <1>15, <1>16 DEF Next

----------------------------------------------------------------------------
(***************************************************************************)
(* The theorems                                                             *)
(***************************************************************************)
LEMMA InitInv == Init => ResearchInv
<1> SUFFICES ASSUME Init PROVE ResearchInv
  OBVIOUS
<1> USE DEF Init
<1>1. <<>> \in Seq(Steps) /\ <<>> \o <<>> = <<>>
  BY EmptySeq, ConcatEmptySeq
<1>2. Lists /\ Counters
  BY <1>1, ResearchAssumption DEF Lists, Counters
<1>3. Flags
  BY DEF Flags
<1>4. TypeOK
  BY <1>2, <1>3, TypeParts, Zenon
<1>5. HandoffInv /\ ResultTells /\ NothingPlanned
  BY DEF HandoffInv, FlagsTell, MainAlone, LabelTells, ResultTells, NothingPlanned
<1>6. PlanInOrder
  BY <1>1 DEF PlanInOrder, InHand
<1>7. ResultsInOrder
  BY <1>1 DEF ResultsInOrder, OnItsWay, FoundSoFar
<1> QED
  BY <1>4, <1>5, <1>6, <1>7 DEF ResearchInv, InOrder

\* What was overlooked once stays so.
LEMMA OvertakenStays == [Next]_vars => (overtaken => overtaken')
<1>0. Looks \/ Decompose(TRUE) \/ Decompose(FALSE) => (overtaken => overtaken')
  BY LookEffect DEF Decompose
<1>1. MainStep => (overtaken => overtaken')
  BY <1>0, RemainingOr DEF MainStep, Looks, Planned, RunAllow, RunRequest, ConsumeCopy,
     ConsumeClear, ConsumeReset, Announce
<1>2. MainCommand => (overtaken => overtaken')
  BY <1>0, WaitEffect DEF MainCommand, Looks, cmd_research, cmd_research_run, Shutdown, Joined
<1>3. ThreadStep => (overtaken => overtaken')
  BY DEF ThreadStep, TakeRequest, SetBusy, ReadNetwork, NextStep, FetchStart, Ingest, FetchPop,
         LocalStep, LabelDone, Report, SetComplete, ClearBusy, ThreadEnds
<1>4. Type \/ Ended => (overtaken => overtaken')
  BY DEF Type, Ended
<1> QED
  BY <1>1, <1>2, <1>3, <1>4 DEF Next

\* The types, and until a request is overlooked, what each thread may conclude of the
\* other from the flags.
THEOREM ResearchInvariant == Spec => []ResearchInv
<1>1. ASSUME ResearchInv, [Next]_vars PROVE ResearchInv'
  <2>1. TypeOK /\ TypeOK'
    BY <1>1, TypeStep, Zenon DEF ResearchInv
  <2>2. ASSUME ~overtaken' PROVE InOrder'
    <3>1. InOrder
      BY <1>1, <2>2, OvertakenStays, Zenon DEF ResearchInv
    <3> QED
      BY <1>1, <2>1, <2>2, <3>1, HandoffStep, ResultTellsStep, PlanStep, ResultsStep, Zenon
      DEF InOrder
  <2> QED
    BY <2>1, <2>2, Zenon DEF ResearchInv
<1> QED
  BY <1>1, InitInv, PTL DEF Spec

\* Every variable of the two threads keeps its type.
THEOREM TypeCorrect == Spec => []TypeOK
<1>1. ResearchInv => TypeOK
  BY DEF ResearchInv
<1> QED
  BY <1>1, ResearchInvariant, PTL

\* Until a request is overlooked, neither thread changes the task list or a result
\* while the other is at it, though no lock keeps them apart: NoDataRace.
THEOREM ThreadsApart == Spec => []NoDataRace
<1>1. ResearchInv => NoDataRace
  BY DEF ResearchInv, InOrder, HandoffInv, FlagsTell, MainAlone, NoDataRace
<1> QED
  BY <1>1, ResearchInvariant, PTL

\* Plans of any length are worked off in their order, no step skipped, repeated or
\* out of turn, until a request is overlooked: PlanWorkedOff.
THEOREM PlansWorkedOff == Spec => []PlanWorkedOff
<1>1. ResearchInv => PlanWorkedOff
  <2> SUFFICES ASSUME ResearchInv, ~overtaken PROVE PlanWorkedOff
    BY DEF PlanWorkedOff
  <2>1. PlanInOrder
    BY DEF ResearchInv, InOrder
  <2> QED
    BY <2>1 DEF PlanInOrder, Progress, InHand, PlanWorkedOff, Worked, Before
<1> QED
  BY <1>1, ResearchInvariant, PTL

\* Every result is announced or still to be, none overwritten or cleared unread, until
\* a request is overlooked: ResultsKept.
THEOREM NoResultLost == Spec => []ResultsKept
<1>1. ResearchInv => ResultsKept
  BY DEF ResearchInv, InOrder, ResultsInOrder, OnItsWay, FoundSoFar, ResultsKept
<1> QED
  BY <1>1, ResearchInvariant, PTL
=============================================================================

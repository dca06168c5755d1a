--------------------------- MODULE ResearchCortex ---------------------------
(***************************************************************************)
(* The background research of core/fpsan_research_async.h and the plan it   *)
(* works off (core/fpsan_research.h), with the main loop that hands it work *)
(* and takes its results (fpsan_live_core.cpp). The two threads share three *)
(* atomic flags and, with no lock, the task list and the result strings.    *)
(*                                                                          *)
(* Commands that make a plan or ask for a run while one is in flight race   *)
(* on a std::vector or a std::string, which is undefined: a user who waits  *)
(* (Quiet) is assumed. Two races are left even so. The main loop prints how *)
(* many steps remain, and for /research_status which, while the thread takes *)
(* them off the list (PrintRemaining, which changes nothing). And the       *)
(* daemon's own research looks at research_busy, research_complete and the  *)
(* list one after the other and never at research_pending, so that a run    *)
(* requested just before may be overlooked: see early and overtaken.        *)
(***************************************************************************)
EXTENDS Integers, Sequences

CONSTANTS PlanSteps,  \* steps of a plan; the first is "Collect authoritative ..."
          MaxPlans,   \* bound: plans made
          MaxFacts,   \* bound: sentences ingested by one fetch
          MaxTyping   \* bound: how often the user starts to type a line

ASSUME ResearchAssumption ==
    /\ PlanSteps \in Nat \ {0}
    /\ MaxPlans \in Nat /\ MaxFacts \in Nat /\ MaxTyping \in Nat

VARIABLES
    tasks,                       \* agent.tasks: the steps not yet taken
    research_pending, research_complete, research_busy, allow_network,
    thread_running,
    result,                      \* the steps result_message reports on
    completed_steps,
    last_facts_ingested,
    rpc, label, use_network, outputs,   \* the research thread
    mpc, live, autonomous, net, got,    \* the main loop
    typing, typed,               \* g_input_pos > 0? and how often so far
    plans,                       \* history: plans made
    tried,                       \* history: steps the thread went about, in order
    yielded,                     \* history: of them, those that gave an output
    announced,                   \* history: steps whose results were announced
    ingested, credited,          \* history: facts learned; credited to the drives
    early,                       \* history: the last look at research_busy came between
                                 \* a request and its being taken up
    overtaken                    \* history: a plan was made after such a look

flags == <<research_pending, research_complete, research_busy, allow_network>>
thread == <<rpc, label, use_network, outputs>>
main == <<mpc, live, autonomous, net, got>>
user == <<typing, typed>>
overlooked == <<early, overtaken>>
history == <<plans, tried, yielded, announced, ingested, credited, overlooked>>
vars == <<tasks, flags, thread_running, result, completed_steps,
          last_facts_ingested, thread, main, user, history>>

\* Step i of plan p, as decompose_goal() makes them.
Step(p, i) == [plan |-> p, step |-> i]
Plan(p) == [i \in 1 .. PlanSteps |-> Step(p, i)]
IsCollect(s) == s.step = 1

----------------------------------------------------------------------------
\* Both ways the program runs: with command-line arguments, as a batch that
\* ends by itself, or as the live daemon.
Init ==
    /\ tasks = <<>>
    /\ research_pending = FALSE /\ research_complete = FALSE
    /\ research_busy = FALSE /\ allow_network = FALSE /\ thread_running = TRUE
    /\ result = <<>> /\ completed_steps = <<>> /\ last_facts_ingested = 0
    /\ rpc = "wait" /\ label = <<>> /\ use_network = FALSE /\ outputs = <<>>
    /\ mpc = "loop" /\ live \in BOOLEAN /\ autonomous = FALSE /\ net = FALSE /\ got = <<>>
    /\ typing = FALSE /\ typed = 0
    /\ plans = 0 /\ tried = <<>> /\ yielded = <<>> /\ announced = <<>>
    /\ ingested = 0 /\ credited = 0 /\ early = FALSE /\ overtaken = FALSE

MainGoto(l) == mpc' = l
ThreadGoto(l) == rpc' = l

----------------------------------------------------------------------------
(***************************************************************************)
(* The main loop                                                            *)
(***************************************************************************)
\* The user waits until the thread is idle and its last result announced (in a
\* batch nothing is announced).
Quiet == rpc = "wait" /\ ~research_pending /\ (live => ~research_complete)

\* decompose_goal(): the tasks are the new plan's. (persist_plan() writes the
\* plan's file; if it fails the plan is kept all the same.)
Decompose(auto) ==
    /\ plans < MaxPlans
    /\ plans' = plans + 1
    /\ tasks' = Plan(plans + 1)
    /\ autonomous' = auto
    /\ overtaken' = (overtaken \/ (auto /\ early))
    /\ MainGoto("planned")
    /\ UNCHANGED <<flags, thread_running, result, completed_steps, last_facts_ingested,
                   thread, live, net, got, user, tried, yielded, announced, ingested,
                   credited, early>>

\* /research <goal>
cmd_research == mpc = "loop" /\ Quiet /\ Decompose(FALSE)

\* Slips (operators named ...Slip, here and below): one change to the definition
\* each of them precedes that a property must not survive. Spec uses none.
AutonomousBusySlip ==                               \* does not look at the busy flag
    /\ mpc = "loop"
    /\ live /\ ~typing /\ plans < MaxPlans
    /\ early' = (research_pending \/ rpc = "taken")
    /\ MainGoto("auto_complete")
    /\ UNCHANGED <<tasks, flags, thread_running, result, completed_steps,
                   last_facts_ingested, thread, live, autonomous, net, got, user, plans,
                   tried, yielded, announced, ingested, credited, overtaken>>

\* Boredom: the daemon researches a word by itself if it finds, one after the
\* other, that no run is under way, that no result waits, and that no step is left.
AutonomousBusy ==
    /\ mpc = "loop"
    /\ live /\ ~typing /\ plans < MaxPlans
    /\ ~research_busy
    /\ early' = (research_pending \/ rpc = "taken")
    /\ MainGoto("auto_complete")
    /\ UNCHANGED <<tasks, flags, thread_running, result, completed_steps,
                   last_facts_ingested, thread, live, autonomous, net, got, user, plans,
                   tried, yielded, announced, ingested, credited, overtaken>>

AutonomousComplete ==
    /\ mpc = "auto_complete"
    /\ MainGoto(IF research_complete THEN "loop" ELSE "auto_remaining")
    /\ UNCHANGED <<tasks, flags, thread_running, result, completed_steps,
                   last_facts_ingested, thread, live, autonomous, net, got, user, history>>

AutonomousRemaining ==
    /\ mpc = "auto_remaining"
    /\ IF tasks = <<>>
       THEN Decompose(TRUE)
       ELSE /\ MainGoto("loop")
            /\ UNCHANGED <<tasks, flags, thread_running, result, completed_steps,
                           last_facts_ingested, thread, live, autonomous, net, got, user,
                           history>>

Planned ==
    /\ mpc = "planned"
    /\ MainGoto(IF autonomous THEN "run" ELSE "loop")
    /\ net' = autonomous
    /\ UNCHANGED <<tasks, flags, thread_running, result, completed_steps,
                   last_facts_ingested, thread, live, autonomous, got, user, history>>

\* /research_run [net]
cmd_research_run ==
    /\ mpc = "loop"
    /\ Quiet
    /\ net' \in BOOLEAN
    /\ MainGoto("run")
    /\ UNCHANGED <<tasks, flags, thread_running, result, completed_steps,
                   last_facts_ingested, thread, live, autonomous, got, user, history>>

\* request_next_step(), if there are steps left: allow_network, then the request.
RunAllow ==
    /\ mpc = "run"
    /\ IF tasks = <<>>
       THEN MainGoto("loop") /\ UNCHANGED allow_network
       ELSE MainGoto("request") /\ allow_network' = net
    /\ UNCHANGED <<tasks, research_pending, research_complete, research_busy,
                   thread_running, result, completed_steps, last_facts_ingested,
                   thread, live, autonomous, net, got, user, history>>

RunRequest ==
    /\ mpc = "request"
    /\ research_pending' = TRUE
    /\ MainGoto("print")
    /\ UNCHANGED <<tasks, research_complete, research_busy, allow_network,
                   thread_running, result, completed_steps, last_facts_ingested,
                   thread, live, autonomous, net, got, user, history>>

\* /research_status, at any time: its line is one of those the user types.
cmd_research_status ==
    /\ mpc = "loop" /\ ~typing
    /\ typed < MaxTyping
    /\ typed' = typed + 1
    /\ MainGoto("print")
    /\ UNCHANGED <<tasks, flags, thread_running, result, completed_steps,
                   last_facts_ingested, thread, live, autonomous, net, got, typing, history>>

\* "steps remaining": after a request the size of the list is read once more, and for
\* /research_status the list is printed, with no regard to the thread that may be taking
\* steps off it.
PrintRemaining ==
    /\ mpc = "print"
    /\ MainGoto("loop")
    /\ UNCHANGED <<tasks, flags, thread_running, result, completed_steps,
                   last_facts_ingested, thread, live, autonomous, net, got, user, history>>

\* The handoff, on a tick with no half-typed line: get_summary() and the copy in
\* consume_result(), the clearing, the flag, and the facts credited to the drives.
ConsumeCopy ==
    /\ mpc = "loop"
    /\ live /\ ~typing /\ research_complete
    /\ got' = result
    /\ MainGoto("clear")
    /\ UNCHANGED <<tasks, flags, thread_running, result, completed_steps,
                   last_facts_ingested, thread, live, autonomous, net, user, history>>

ConsumeClear ==
    /\ mpc = "clear"
    /\ result' = <<>>
    /\ MainGoto("reset")
    /\ UNCHANGED <<tasks, flags, thread_running, completed_steps, last_facts_ingested,
                   thread, live, autonomous, net, got, user, history>>

ConsumeResetSlip ==                                 \* leaves the flag set
    /\ mpc = "reset"
    /\ MainGoto("announce")
    /\ UNCHANGED <<tasks, flags, thread_running, result, completed_steps,
                   last_facts_ingested, thread, live, autonomous, net, got, user, history>>

ConsumeReset ==
    /\ mpc = "reset"
    /\ research_complete' = FALSE
    /\ MainGoto("announce")
    /\ UNCHANGED <<tasks, research_pending, research_busy, allow_network,
                   thread_running, result, completed_steps, last_facts_ingested,
                   thread, live, autonomous, net, got, user, history>>

Announce ==
    /\ mpc = "announce"
    /\ announced' = announced \o got
    /\ credited' = credited + last_facts_ingested
    /\ got' = <<>>
    /\ MainGoto("loop")
    /\ UNCHANGED <<tasks, flags, thread_running, result, completed_steps,
                   last_facts_ingested, thread, live, autonomous, net, user,
                   plans, tried, yielded, ingested, overlooked>>

\* The batch waits for its threads: pending, then busy, then complete; all clear
\* means "All async work done". Else it looks again, up to 5 seconds.
Wait(from, flag, to) ==
    /\ mpc = from
    /\ ~live
    /\ MainGoto(IF flag THEN "loop" ELSE to)
    /\ UNCHANGED <<tasks, flags, thread_running, result, completed_steps,
                   last_facts_ingested, thread, live, autonomous, net, got, user,
                   history>>

WaitForThreads ==
    \/ Wait("loop", research_pending, "look_busy")
    \/ Wait("look_busy", research_busy, "look_complete")
    \/ Wait("look_complete", research_complete, "saved")
    \/ Wait("loop", FALSE, "timeout")

\* shutdown(), after cmd_save() in a batch and after /exit in the daemon.
Shutdown ==
    /\ mpc \in {"saved", "timeout"} \/ (live /\ mpc = "loop")
    /\ thread_running' = FALSE
    /\ MainGoto("join")
    /\ UNCHANGED <<tasks, flags, result, completed_steps, last_facts_ingested,
                   thread, live, autonomous, net, got, user, history>>

Joined ==
    /\ mpc = "join"
    /\ rpc = "ended"
    /\ MainGoto("ended")
    /\ UNCHANGED <<tasks, flags, thread_running, result, completed_steps,
                   last_facts_ingested, thread, live, autonomous, net, got, user,
                   history>>

----------------------------------------------------------------------------
(***************************************************************************)
(* The research thread                                                      *)
(***************************************************************************)
\* research_pending is seen and cleared; then research_busy is set.
TakeRequest ==
    /\ rpc = "wait"
    /\ thread_running
    /\ research_pending
    /\ research_pending' = FALSE
    /\ ThreadGoto("taken")
    /\ UNCHANGED <<tasks, research_complete, research_busy, allow_network,
                   thread_running, result, completed_steps, last_facts_ingested,
                   label, use_network, outputs, main, user, history>>

SetBusy ==
    /\ rpc = "taken"
    /\ research_busy' = TRUE
    /\ outputs' = <<>>
    /\ ThreadGoto("net")
    /\ UNCHANGED <<tasks, research_pending, research_complete, allow_network,
                   thread_running, result, completed_steps, last_facts_ingested,
                   label, use_network, main, user, history>>

ReadNetwork ==
    /\ rpc = "net"
    /\ use_network' = allow_network
    /\ ThreadGoto("next")
    /\ UNCHANGED <<tasks, flags, thread_running, result, completed_steps,
                   last_facts_ingested, label, outputs, main, user, history>>

NextStepSlip ==                                     \* complete before the result is there
    /\ rpc = "next"
    /\ IF tasks = <<>>
       THEN ThreadGoto("report") /\ research_complete' = TRUE /\ UNCHANGED label
       ELSE /\ label' = <<Head(tasks)>>
            /\ ThreadGoto(IF use_network /\ IsCollect(Head(tasks)) THEN "fetch" ELSE "local")
            /\ UNCHANGED research_complete
    /\ UNCHANGED <<tasks, research_pending, research_busy, allow_network, thread_running,
                   result, completed_steps, last_facts_ingested, use_network, outputs,
                   main, user, history>>

\* The loop over agent.remaining(): the front step's label, then either the
\* network fetch of a "Collect" step or run_next_step().
NextStep ==
    /\ rpc = "next"
    /\ IF tasks = <<>>
       THEN ThreadGoto("report") /\ UNCHANGED label
       ELSE /\ label' = <<Head(tasks)>>
            /\ ThreadGoto(IF use_network /\ IsCollect(Head(tasks)) THEN "fetch" ELSE "local")
    /\ UNCHANGED <<tasks, flags, thread_running, result, completed_steps,
                   last_facts_ingested, use_network, outputs, main, user, history>>

\* fetch_and_ingest_source(): the count of facts is reset, the page fetched and
\* its sentences ingested, or nothing comes back; it always has an output.
FetchStart ==
    /\ rpc = "fetch"
    /\ last_facts_ingested' = 0
    /\ ThreadGoto("ingest")
    /\ UNCHANGED <<tasks, flags, thread_running, result, completed_steps,
                   label, use_network, outputs, main, user, history>>

IngestSlip(n) ==                                    \* the total, not the last fetch's
    /\ rpc = "ingest"
    /\ last_facts_ingested' = ingested + n
    /\ ingested' = ingested + n
    /\ outputs' = outputs \o label
    /\ tried' = tried \o label
    /\ yielded' = yielded \o label
    /\ ThreadGoto("pop")
    /\ UNCHANGED <<tasks, flags, thread_running, result, completed_steps,
                   label, use_network, main, user, plans, announced, credited,
                   overlooked>>

Ingest(n) ==
    /\ rpc = "ingest"
    /\ last_facts_ingested' = n
    /\ ingested' = ingested + n
    /\ outputs' = outputs \o label
    /\ tried' = tried \o label
    /\ yielded' = yielded \o label
    /\ ThreadGoto("pop")
    /\ UNCHANGED <<tasks, flags, thread_running, result, completed_steps,
                   label, use_network, main, user, plans, announced, credited,
                   overlooked>>

FetchPopSlip ==                                     \* the fetched step stays
    /\ rpc = "pop"
    /\ ThreadGoto("label")
    /\ UNCHANGED <<tasks, flags, thread_running, result, completed_steps,
                   last_facts_ingested, label, use_network, outputs, main, user, history>>

\* agent.next_step(): whatever is first now is taken off the list.
FetchPop ==
    /\ rpc = "pop"
    /\ tasks' = IF tasks = <<>> THEN <<>> ELSE Tail(tasks)
    /\ ThreadGoto("label")
    /\ UNCHANGED <<flags, thread_running, result, completed_steps,
                   last_facts_ingested, label, use_network, outputs, main, user, history>>

\* run_next_step(): the first step is taken off the list, then carried out, or
\* not: when the plan file cannot be opened there is no output.
LocalStep(ok) ==
    /\ rpc = "local"
    /\ tasks # <<>>
    /\ tasks' = Tail(tasks)
    /\ tried' = Append(tried, Head(tasks))
    /\ yielded' = IF ok THEN Append(yielded, Head(tasks)) ELSE yielded
    /\ outputs' = IF ok THEN Append(outputs, Head(tasks)) ELSE outputs
    /\ ThreadGoto("label")
    /\ UNCHANGED <<flags, thread_running, result, completed_steps, last_facts_ingested,
                   label, use_network, main, user, plans, announced, ingested,
                   credited, overlooked>>

\* Under progress_lock: the label joins the completed steps. Only a run's first
\* step may use the network.
LabelDone ==
    /\ rpc = "label"
    /\ completed_steps' = completed_steps \o label
    /\ label' = <<>>
    /\ use_network' = FALSE
    /\ ThreadGoto("next")
    /\ UNCHANGED <<tasks, flags, thread_running, result, last_facts_ingested,
                   outputs, main, user, history>>

\* result_summary and result_message, then the two flags.
Report ==
    /\ rpc = "report"
    /\ result' = outputs
    /\ ThreadGoto("complete")
    /\ UNCHANGED <<tasks, flags, thread_running, completed_steps, last_facts_ingested,
                   label, use_network, outputs, main, user, history>>

SetComplete ==
    /\ rpc = "complete"
    /\ research_complete' = TRUE
    /\ ThreadGoto("clear_busy")
    /\ UNCHANGED <<tasks, research_pending, research_busy, allow_network,
                   thread_running, result, completed_steps, last_facts_ingested,
                   label, use_network, outputs, main, user, history>>

ClearBusy ==
    /\ rpc = "clear_busy"
    /\ research_busy' = FALSE
    /\ outputs' = <<>>
    /\ ThreadGoto("wait")
    /\ UNCHANGED <<tasks, research_pending, research_complete, allow_network,
                   thread_running, result, completed_steps, last_facts_ingested,
                   label, use_network, main, user, history>>

\* The outer loop's condition, tested between two runs.
ThreadEnds ==
    /\ rpc = "wait"
    /\ ~thread_running
    /\ ThreadGoto("ended")
    /\ UNCHANGED <<tasks, flags, thread_running, result, completed_steps,
                   last_facts_ingested, label, use_network, outputs, main, user, history>>

----------------------------------------------------------------------------
\* The user starts to type a line, and ends it.
Type ==
    /\ live /\ mpc = "loop"
    /\ IF typing THEN UNCHANGED typed ELSE typed < MaxTyping /\ typed' = typed + 1
    /\ typing' = ~typing
    /\ UNCHANGED <<tasks, flags, thread_running, result, completed_steps,
                   last_facts_ingested, thread, main, history>>

MainStep ==
    \/ AutonomousComplete \/ AutonomousRemaining
    \/ Planned \/ RunAllow \/ RunRequest \/ PrintRemaining
    \/ ConsumeCopy \/ ConsumeClear \/ ConsumeReset \/ Announce

MainCommand ==
    \/ cmd_research \/ cmd_research_run \/ cmd_research_status \/ AutonomousBusy
    \/ WaitForThreads \/ Shutdown \/ Joined

ThreadStep ==
    \/ TakeRequest \/ SetBusy \/ ReadNetwork \/ NextStep
    \/ FetchStart \/ (\E n \in 0 .. MaxFacts : Ingest(n)) \/ FetchPop
    \/ (\E ok \in BOOLEAN : LocalStep(ok)) \/ LabelDone
    \/ Report \/ SetComplete \/ ClearBusy \/ ThreadEnds

\* Both threads have ended.
Ended == mpc = "ended" /\ UNCHANGED vars

Next == MainStep \/ MainCommand \/ ThreadStep \/ Type \/ Ended

Spec == Init /\ [][Next]_vars

\* Both threads run: the research thread polls every 10 ms, the main loop ticks
\* every millisecond; each tick looks for a result before it looks for boredom
\* (l.2568, l.2641).
FairSpec == Spec /\ WF_vars(MainStep) /\ SF_vars(ConsumeCopy) /\ WF_vars(ThreadStep)

----------------------------------------------------------------------------
(***************************************************************************)
(* Properties                                                               *)
(***************************************************************************)
Steps == [plan : Nat, step : 1 .. PlanSteps]

TypeOK ==
    /\ tasks \in Seq(Steps) /\ result \in Seq(Steps) /\ completed_steps \in Seq(Steps)
    /\ research_pending \in BOOLEAN /\ research_complete \in BOOLEAN
    /\ research_busy \in BOOLEAN /\ allow_network \in BOOLEAN
    /\ thread_running \in BOOLEAN /\ use_network \in BOOLEAN
    /\ live \in BOOLEAN /\ autonomous \in BOOLEAN /\ net \in BOOLEAN /\ typing \in BOOLEAN
    /\ last_facts_ingested \in 0 .. MaxFacts /\ ingested \in Nat /\ credited \in Nat
    /\ rpc \in {"wait", "taken", "net", "next", "fetch", "ingest", "pop", "local",
                "label", "report", "complete", "clear_busy", "ended"}
    /\ mpc \in {"loop", "auto_complete", "auto_remaining", "planned", "run", "request",
                "print", "clear", "reset", "announce", "look_busy", "look_complete",
                "saved", "timeout", "join", "ended"}
    /\ early \in BOOLEAN /\ overtaken \in BOOLEAN
    /\ label \in Seq(Steps) /\ outputs \in Seq(Steps) /\ got \in Seq(Steps)
    /\ tried \in Seq(Steps) /\ yielded \in Seq(Steps) /\ announced \in Seq(Steps)
    /\ plans \in 0 .. MaxPlans /\ typed \in 0 .. MaxTyping

\* With a user who waits, the two threads never touch the unlocked data at the
\* same time, as long as the daemon's own research did not overlook a request: no
\* step is taken off the list while the main loop makes a plan or decides on a run,
\* and no result is written while one is copied and cleared. That the list is counted and
\* printed while a step is taken off is the exception (see CountReadAlone).
NoDataRace ==
    ~overtaken =>
        /\ mpc \in {"planned", "run"} => rpc \in {"wait", "ended"}
        /\ mpc \in {"clear", "reset", "announce"} => rpc \notin {"report", "complete"}

\* The steps of the present plan still to be tried, how many of it were tried, and how
\* many of earlier plans before them.
Left   == IF rpc = "pop" THEN Tail(tasks) ELSE tasks
Worked == PlanSteps - Len(Left)
Before == Len(tried) - Worked

\* Until a request is overlooked, no step of a plan is skipped, repeated or tried out
\* of turn: what was tried of the present plan and what is left of it are the plan. The
\* completed steps are all those tried, with an outcome or without (l.166-170), and
\* what is reported of them is in their order.
PlanWorkedOff ==
    ~overtaken =>
        /\ plans > 0 =>
            /\ Before >= 0 /\ Worked >= 0
            /\ \A i \in 1 .. Before : tried[i].plan < plans
            /\ \A i \in 1 .. Worked : tried[Before + i] = Step(plans, i)
            /\ \A i \in 1 .. Len(Left) : Left[i] = Step(plans, Worked + i)
        /\ completed_steps \o (IF rpc \in {"pop", "label"} THEN label ELSE <<>>) = tried

\* Until a request is overlooked, every result reaches the user or is still to be
\* read: none is overwritten by the next run or cleared unread.
ResultsKept ==
    ~overtaken /\ live =>
        yielded
          = announced \o (IF mpc \in {"clear", "reset", "announce"} THEN got ELSE result)
                      \o (IF rpc \in {"complete", "clear_busy"} THEN <<>> ELSE outputs)

\* A run that was asked for happens: the task list runs empty, unless the
\* program is shut down first.
RequestsServed == research_pending ~> (tasks = <<>> \/ ~thread_running)

\* A finished run is announced once the user stops typing for good.
ResultsAnnounced ==
    []((live /\ research_complete /\ []~typing) => <>(~research_complete \/ ~thread_running))

\* A run that is asked for comes to its end and to the user.
ResearchEnds == RequestsServed /\ ResultsAnnounced

\* "If very bored and no research active": the daemon makes a plan of its own only
\* when no run is requested or under way. (It may: see the README.)
AutonomousWhenIdle ==
    mpc = "planned" /\ autonomous => rpc = "wait" /\ ~research_pending

\* The list is not counted or printed while a step is taken off it. (It may be: see the
\* README.)
CountReadAlone == mpc \in {"print", "auto_remaining"} => rpc \notin {"pop", "local"}

\* "Steps completed in this plan": each of them had an outcome. (It need not: see the
\* README.)
CompletedHasOutcome ==
    \A i \in 1 .. Len(completed_steps) :
        \E j \in 1 .. Len(yielded) : yielded[j] = completed_steps[i]

\* "All async work done": the batch that stops waiting because the three flags
\* were clear saves with no run asked for or under way. (It need not: see the README.)
BreakMeansDone == mpc = "saved" => rpc = "wait" /\ ~research_pending

\* "notify the user with the real count and feed the curiosity drive
\* accordingly": the drives are not credited with more than was learned. (They may be:
\* see the README.)
FactsCreditedOnce == credited <= ingested
=============================================================================

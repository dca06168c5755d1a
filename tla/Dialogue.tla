------------------------------ MODULE Dialogue ------------------------------
(***************************************************************************)
(* The conversation of fpsan_live_core.cpp's main loop with its user: typed *)
(* lines, commands from the acoustic cortex (Ears), the confirmation a      *)
(* spoken research request waits for, the voice, and what the program says  *)
(* of itself: announcements, comments, questions and musings. When it does  *)
(* so is left open (see GoalPursuit for its goals, ResearchCortex for its   *)
(* research). One pass through the loop is                                  *)
(*     input -> confirm -> ears -> tick -> drives -> input.                 *)
(***************************************************************************)
EXTENDS Ears, SequencesExt

CONSTANTS PerPass,     \* acoustic commands served in one pass (3)
          Deadline,    \* time a confirmation is waited for (10 s)
          MaxLines     \* bound: lines the user begins

ASSUME DialogueAssumption ==
    /\ PerPass \in Nat \ {0} /\ Deadline \in Nat /\ MaxLines \in Nat

VARIABLES
    pc, running,
    typing,           \* g_input_pos > 0
    processed,        \* commands served in this pass
    dlg, state,       \* g_dlg, g_state
    voice,            \* SAPI's: nothing, a text it was given, or one that is heard
    waiting,          \* g_waiting_confirmation
    deadline_left,    \* g_confirmation_deadline_ms - now
    goal,             \* g_confirmation_goal: the number of the request, 0 for ""
    asked,            \* history: what became of the requests
    fetched,          \* history: the requests carried out
    lines             \* counter for the bound

loop == <<pc, running, typing, processed, lines>>
speech == <<dlg, state, voice>>
request == <<waiting, deadline_left, goal, asked, fetched>>
vars == <<ears, loop, speech, request>>

\* What was said before the loop starts, the boot greeting for one, may still be on.
Voice == {"silent", "queued", "speaking"}
is_speaking == voice = "speaking"

Init ==
    /\ EarsInit
    /\ pc = "input" /\ running = TRUE /\ typing = FALSE /\ processed = 0
    /\ dlg = "LISTENING" /\ state = "IDLE" /\ voice \in Voice
    /\ waiting = FALSE /\ deadline_left = -1 /\ goal = 0
    /\ asked = <<>> /\ fetched = <<>>
    /\ lines = 0

----------------------------------------------------------------------------
\* jarvis_say(). The call hands the text over in place of what is being said and does
\* not wait until it is heard; a muted voice is given nothing.
jarvis_say ==
    /\ voice' \in {voice, "queued"}
    /\ dlg' = "SPEAKING" /\ state' = "SPEAKING"

\* What the commands leave in dlg and state. A typed or spoken sentence, ?word and
\* most others reply; /train ends idle; ??word thinks, and only prints what it finds.
Answered == jarvis_say
Trained ==
    /\ voice' \in {voice, "queued"}
    /\ dlg' = "SPEAKING" /\ state' = "IDLE"
Looked == state' = "THINKING" /\ UNCHANGED <<dlg, voice>>
Turn == Answered \/ Trained \/ Looked \/ UNCHANGED speech

\* The request that is waited for gets its answer, or none.
Ended(how) ==
    /\ waiting' = FALSE /\ deadline_left' = -1 /\ goal' = 0
    /\ asked' = IF goal = 0 THEN asked ELSE [asked EXCEPT ![goal] = how]

----------------------------------------------------------------------------
(***************************************************************************)
(* Typed lines                                                              *)
(***************************************************************************)
Key ==
    /\ pc = "input"
    /\ IF typing THEN UNCHANGED lines ELSE lines < MaxLines /\ lines' = lines + 1
    /\ typing' = ~typing
    /\ UNCHANGED <<ears, pc, running, processed, speech, request>>

\* Keys are read on after a line, unless it was the last.
ReadOn == IF running THEN "input" ELSE "stop"

Enter(next) ==
    /\ pc = "input"
    /\ typing /\ typing' = FALSE
    /\ pc' = next
    /\ UNCHANGED <<processed, lines, request>>

\* Most lines, and those that teach, train, save, research, mute the voice, ...
OrdinaryLine ==
    /\ Enter(ReadOn)
    /\ Turn
    /\ UNCHANGED <<ears, running>>

\* !ears
EarsLine ==
    /\ Enter(ReadOn)
    /\ toggle
    /\ jarvis_say
    /\ UNCHANGED running

\* !ears_listen
ListenLine ==
    /\ Enter("listen")
    /\ ForceOpen
    /\ UNCHANGED <<running, speech>>

Opened ==
    /\ pc = "listen" /\ pc' = ReadOn
    /\ ForceUntil
    /\ jarvis_say
    /\ UNCHANGED <<running, typing, processed, lines, request>>

\* /quit, after a last save.
QuitLine ==
    /\ Enter("stop")
    /\ running' = FALSE
    /\ jarvis_say
    /\ UNCHANGED ears

Line == OrdinaryLine \/ EarsLine \/ ListenLine \/ QuitLine

NoKey ==
    /\ pc = "input" /\ pc' = IF running THEN "confirm" ELSE "stop"
    /\ UNCHANGED <<ears, running, typing, processed, lines, speech, request>>

----------------------------------------------------------------------------
(***************************************************************************)
(* The confirmation's deadline, and what was heard                          *)
(***************************************************************************)
ConfirmSlip ==                                      \* not while a line is typed
    /\ pc = "confirm" /\ pc' = "ears" /\ processed' = 0
    /\ IF ~typing /\ waiting /\ deadline_left < 0
       THEN Ended("lapsed") /\ UNCHANGED fetched /\ jarvis_say
       ELSE UNCHANGED <<speech, request>>
    /\ UNCHANGED <<ears, running, typing, lines>>

\* The lapse also gives up the goal that is pursued: see GoalPursuit.
Confirm ==
    /\ pc = "confirm" /\ pc' = "ears" /\ processed' = 0
    /\ IF waiting /\ deadline_left < 0
       THEN Ended("lapsed") /\ UNCHANGED fetched /\ jarvis_say
       ELSE UNCHANGED <<speech, request>>
    /\ UNCHANGED <<ears, running, typing, lines>>

\* A command is popped; "Listening." is said if it came with the wake word.
Pop ==
    /\ pc = "ears" /\ ~typing /\ processed < PerPass /\ queue # <<>>
    /\ pop_command
    /\ processed' = processed + 1
    /\ UNCHANGED <<pc, typing, lines>>

Heard == Head(queue)
Request == Heard.wake_triggered /\ Heard.text = "research"
ReplySlip == Heard.text \in {"yes", "no"} /\ ~Request \* to no request

Reply == waiting /\ Heard.text \in {"yes", "no"} /\ ~Request

\* "hey jarvis research ...": held for confirmation. A request that is held already
\* is forgotten.
Hold ==
    /\ Pop /\ Request
    /\ jarvis_say
    /\ waiting' = TRUE /\ deadline_left' = Deadline
    /\ goal' = Len(asked) + 1
    /\ asked' = Append(IF goal = 0 THEN asked ELSE [asked EXCEPT ![goal] = "replaced"], "open")
    /\ UNCHANGED <<running, fetched>>

\* Agreed: the plan is made and its first step requested from the network.
Agree ==
    /\ Pop /\ Reply /\ Heard.text = "yes"
    /\ jarvis_say
    /\ fetched' = Append(fetched, goal)
    /\ Ended("agreed")
    /\ UNCHANGED running

Refuse ==
    /\ Pop /\ Reply /\ Heard.text = "no"
    /\ jarvis_say
    /\ Ended("refused")
    /\ UNCHANGED <<running, fetched>>

\* Anything else is carried out, whether a reply is waited for or not.
OtherCommand ==
    /\ Pop /\ ~Request /\ ~Reply
    /\ IF Heard.wake_triggered \/ Heard.text = "quit" THEN jarvis_say ELSE Turn
    /\ running' = (running /\ Heard.text # "quit")
    /\ UNCHANGED request

Serve == Hold \/ Agree \/ Refuse \/ OtherCommand

ServedSlip ==                                       \* takes only what comes in time
    /\ pc = "ears" /\ pc' = "tick"
    /\ typing \/ processed = PerPass \/ queue = <<>> \/ ~active_mode
    /\ UNCHANGED <<ears, running, typing, processed, lines, speech, request>>

Served ==
    /\ pc = "ears" /\ pc' = "tick"
    /\ typing \/ processed = PerPass \/ queue = <<>>
    /\ UNCHANGED <<ears, running, typing, processed, lines, speech, request>>

----------------------------------------------------------------------------
(***************************************************************************)
(* The rest of a pass                                                       *)
(***************************************************************************)
\* The end of the voice is polled, then the state is set from what the brain does:
\* its activity is only sampled now and then.
RestedSlip == state = "SPEAKING" /\ ~is_speaking     \* looks at the other state

Rested == dlg = "SPEAKING" /\ ~is_speaking
Tick ==
    /\ pc = "tick" /\ pc' = "drives"
    /\ dlg' = IF Rested THEN "LISTENING" ELSE dlg
    /\ LET polled == IF Rested /\ state = "SPEAKING" THEN "IDLE" ELSE state
       IN  \E active \in BOOLEAN :
             state' = CASE active /\ polled # "SPEAKING" -> "THINKING"
                        [] ~active /\ polled = "THINKING" -> "IDLE"
                        [] OTHER -> polled
    /\ UNCHANGED <<ears, running, typing, processed, lines, voice, request>>

\* The target window is lost (see GoalPursuit).
WindowLost ==
    /\ pc = "tick"
    /\ jarvis_say
    /\ UNCHANGED <<ears, loop, request>>

\* Said when nobody asked: a research run or a goal is over, a window or a word is
\* remarked upon, a word is asked about or picked to be researched. Not into a
\* half-typed line.
Speak ==
    /\ pc = "drives" /\ ~typing
    /\ jarvis_say
    /\ UNCHANGED <<ears, loop, request>>

NextPass ==
    /\ pc = "drives" /\ pc' = "input"
    /\ UNCHANGED <<ears, running, typing, processed, lines, speech, request>>

----------------------------------------------------------------------------
(***************************************************************************)
(* The end, and what goes on beside the loop                                *)
(***************************************************************************)
Quit ==
    /\ pc = "stop" /\ pc' = "join"
    /\ StopListening
    /\ UNCHANGED <<running, typing, processed, lines, speech, request>>

Join ==
    /\ pc = "join" /\ pc' = "off"
    /\ hearing.at = "off"
    /\ UNCHANGED <<ears, running, typing, processed, lines, speech, request>>

\* SAPI's thread takes up what it was given, some time later.
VoiceStarts ==
    /\ voice = "queued" /\ voice' = "speaking"
    /\ UNCHANGED <<ears, loop, dlg, state, request>>

VoiceEnds ==
    /\ is_speaking /\ voice' = "silent"
    /\ UNCHANGED <<ears, loop, dlg, state, request>>

Clock ==
    /\ TimePasses
    /\ deadline_left' = Passed(deadline_left)
    /\ UNCHANGED <<loop, speech, waiting, goal, asked, fetched>>

EarsStep == (Hear \/ Listen) /\ UNCHANGED <<loop, speech, request>>

Say == WindowLost \/ Speak
Pass == Opened \/ NoKey \/ Confirm \/ Serve \/ Served \/ Tick \/ NextPass \/ Quit \/ Join

Next == Key \/ Line \/ Say \/ Pass \/ VoiceStarts \/ VoiceEnds \/ Clock \/ EarsStep

Spec == Init /\ [][Next]_vars

\* The loop runs on, the ears work off what they have heard, and time passes; the
\* user, the voice and the moods do as they like.
FairSpec ==
    /\ Spec
    /\ WF_vars(Pass) /\ WF_vars(Clock)
    /\ WF_vars(Listen /\ UNCHANGED <<loop, speech, request>>)

----------------------------------------------------------------------------
(***************************************************************************)
(* Properties                                                               *)
(***************************************************************************)
TypeOK ==
    /\ EarsTypeOK
    /\ pc \in {"input", "listen", "confirm", "ears", "tick", "drives",
                "stop", "join", "off"}
    /\ running \in BOOLEAN /\ typing \in BOOLEAN /\ processed \in 0 .. PerPass
    /\ dlg \in {"LISTENING", "SPEAKING"}
    /\ state \in {"IDLE", "THINKING", "SPEAKING"}
    /\ voice \in Voice /\ waiting \in BOOLEAN
    /\ deadline_left \in -1 .. Deadline
    /\ asked \in Seq({"open", "agreed", "refused", "lapsed", "replaced"})
    /\ fetched \in Seq(1 .. Len(asked)) /\ goal \in 0 .. Len(asked)
    /\ lines \in 0 .. MaxLines

\* The flag and the goal tell which request waits for an answer: it is the last one
\* asked, and all before it were answered, lapsed or replaced, however replies, new
\* requests, half-typed lines and the deadline interleave.
RequestsAccounted ==
    {n \in DOMAIN asked : asked[n] = "open"} = IF waiting THEN {goal} ELSE {}

\* The network is only asked for requests somebody agreed to while they were held,
\* once for each.
FetchesAgreed ==
    /\ \A i \in DOMAIN fetched :
          fetched[i] \in DOMAIN asked /\ asked[fetched[i]] = "agreed"
    /\ IsInjective(fetched)

\* Each request comes to exactly one end, and only an agreed one to the network.
RequestsEndOnce == RequestsAccounted /\ FetchesAgreed

\* "SPEAKING = TTS in progress (g_voice.is_speaking())". Refuted: a poll may come
\* between jarvis_say() and the start of the voice, and the loop starts listening
\* while the boot greeting is spoken.
SpeakingShown == is_speaking => dlg = "SPEAKING"

\* Neither the dialogue nor the brain stays in the state of speaking when no more is
\* heard, whatever was said meanwhile and whoever set the two states.
SpeakingEnds ==
    <>[](voice = "silent") =>
        []<>(dlg = "LISTENING" /\ state # "SPEAKING") \/ <>(~running)

\* A request does not wait for ever, not even behind a half-typed line.
RequestEnds == waiting ~> ~waiting \/ pc = "off"

\* What was heard is served, if the user does not keep a line half-typed.
CommandsServed == <>[]~typing => (queue # <<>> ~> queue = <<>> \/ ~running)

\* /quit ends: the ears' thread is always joined.
QuitEnds == ~running ~> pc = "off"
=============================================================================

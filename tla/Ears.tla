-------------------------------- MODULE Ears --------------------------------
(***************************************************************************)
(* The acoustic cortex (core/fpsan_ears.h): a thread that hears utterances, *)
(* opens a window of attention at the wake word, takes what is said in the  *)
(* window as commands, and hands them to the main loop through a ring of    *)
(* Cap - 1 places. The main loop forces the window open (!listen), mutes    *)
(* the ears and pops the commands; see Dialogue, which composes the two.    *)
(*                                                                          *)
(* Of a time only what is left of it is kept, -1 when it has passed. Of an  *)
(* utterance what the main loop looks for is kept: "yes" has one of the     *)
(* marks of a confirmation, "no" one of those of a refusal and none of the  *)
(* former ("don't do it" has both and counts as "yes").                     *)
(***************************************************************************)
EXTENDS Integers, Sequences

CONSTANTS Cap,         \* AcousticQueue::CAP
          WakeWindow,  \* time the wake word opens the window for (8 s)
          Grace,       \* time a command keeps it open for (4 s)
          Forced,      \* time !listen opens it for (15 s)
          MaxSpoken    \* bound: utterances

ASSUME EarsAssumption ==
    /\ Cap \in Nat /\ Cap > 1
    /\ WakeWindow \in Nat /\ Grace \in Nat /\ Forced \in Nat
    /\ MaxSpoken \in Nat

VARIABLES
    enabled,         \* not muted
    active_mode,     \* the window is open
    active_left,     \* active_until_ms - now
    queue,           \* AcousticQueue: commands that wait for the main loop
    thread_running,
    hearing,         \* where the thread is, and the text it is at
    promised,        \* history: what is left of the longest invitation
    spoken           \* counter for the bound

ears == <<enabled, active_mode, active_left, queue, thread_running, hearing,
          promised, spoken>>

Texts == {"research", "yes", "no", "other", "quit"}
Silence == "none"
Command == [text : Texts, wake_triggered : BOOLEAN, invited : BOOLEAN]

Longest(a, b) == IF a < b THEN b ELSE a
At(place, text) == [at |-> place, text |-> text]
Listening == hearing.at = "listening"

\* One of six initialisations of the recogniser may fail: the thread ends at once.
EarsInit ==
    /\ enabled = TRUE /\ active_mode = FALSE /\ active_left = -1
    /\ queue = <<>> /\ thread_running = TRUE
    /\ hearing \in {At("listening", Silence), At("off", Silence)}
    /\ promised = -1 /\ spoken = 0

----------------------------------------------------------------------------
\* enqueue_text(): a full ring drops the command.
Enqueue(text, wake) ==
    queue' = IF Len(queue) < Cap - 1
             THEN Append(queue, [text |-> text, wake_triggered |-> wake,
                                 invited |-> wake \/ promised >= 0])
             ELSE queue

\* on_recognized(). What follows the wake word, if anything does; a muted ear, or a
\* voice that does not match the profile, does nothing.
WakeHeard ==
    /\ Listening /\ enabled /\ spoken < MaxSpoken
    /\ \E text \in Texts \union {Silence} : hearing' = At("woken", text)
    /\ active_mode' = TRUE
    /\ spoken' = spoken + 1
    /\ UNCHANGED <<enabled, active_left, queue, thread_running, promised>>

Woken ==
    /\ hearing.at = "woken"
    /\ hearing' = At("remainder", hearing.text)
    /\ active_left' = WakeWindow /\ promised' = Longest(promised, WakeWindow)
    /\ UNCHANGED <<enabled, active_mode, queue, thread_running, spoken>>

Remainder ==
    /\ hearing.at = "remainder"
    /\ hearing' = At("listening", Silence)
    /\ IF hearing.text = Silence THEN UNCHANGED queue ELSE Enqueue(hearing.text, TRUE)
    /\ UNCHANGED <<enabled, active_mode, active_left, thread_running, promised, spoken>>

\* Slips (operators named ...Slip, here and in Dialogue): one change to the
\* definition each of them precedes that a property must not survive.
DictatedSlip ==                                     \* does not look at the clock
    /\ Listening /\ enabled /\ spoken < MaxSpoken
    /\ active_mode
    /\ \E text \in Texts : Enqueue(text, FALSE)
    /\ hearing' = At("extend", Silence)
    /\ spoken' = spoken + 1
    /\ UNCHANGED <<enabled, active_mode, active_left, thread_running, promised>>

\* Without a wake word: a command if the window is open and its time not over.
Dictated ==
    /\ Listening /\ enabled /\ spoken < MaxSpoken
    /\ active_mode /\ active_left >= 0
    /\ \E text \in Texts : Enqueue(text, FALSE)
    /\ hearing' = At("extend", Silence)
    /\ spoken' = spoken + 1
    /\ UNCHANGED <<enabled, active_mode, active_left, thread_running, promised>>

\* The command sets the time that is left, whether it was less or more.
Extend ==
    /\ hearing.at = "extend"
    /\ hearing' = At("listening", Silence)
    /\ active_left' = Grace /\ promised' = Longest(promised, Grace)
    /\ UNCHANGED <<enabled, active_mode, queue, thread_running, spoken>>

\* The time is over; by the time the thread closes the window it may have been
\* opened again.
Lapsed ==
    /\ Listening
    /\ active_mode /\ active_left < 0
    /\ hearing' = At("expire", Silence)
    /\ UNCHANGED <<enabled, active_mode, active_left, queue, thread_running, promised, spoken>>

Expire ==
    /\ hearing.at = "expire"
    /\ hearing' = At("listening", Silence)
    /\ active_mode' = FALSE
    /\ UNCHANGED <<enabled, active_left, queue, thread_running, promised, spoken>>

HeardOutSlip ==                                     \* waits for its commands to be served
    /\ Listening /\ ~thread_running /\ queue = <<>>
    /\ hearing' = At("off", Silence)
    /\ UNCHANGED <<enabled, active_mode, active_left, queue, thread_running, promised, spoken>>

HeardOut ==
    /\ Listening /\ ~thread_running
    /\ hearing' = At("off", Silence)
    /\ UNCHANGED <<enabled, active_mode, active_left, queue, thread_running, promised, spoken>>

Hear == WakeHeard \/ Dictated
Listen == Woken \/ Remainder \/ Extend \/ Lapsed \/ Expire \/ HeardOut

----------------------------------------------------------------------------
(***************************************************************************)
(* What the main loop does to the ears                                      *)
(***************************************************************************)
toggle ==
    /\ enabled' = ~enabled
    /\ UNCHANGED <<active_mode, active_left, queue, thread_running, hearing, promised, spoken>>

\* force_listen_ms(): two stores; the thread may act in between.
ForceOpen ==
    /\ active_mode' = TRUE
    /\ UNCHANGED <<enabled, active_left, queue, thread_running, hearing, promised, spoken>>

ForceUntil ==
    /\ active_left' = Forced /\ promised' = Longest(promised, Forced)
    /\ UNCHANGED <<enabled, active_mode, queue, thread_running, hearing, spoken>>

pop_command ==
    /\ queue' = Tail(queue)
    /\ UNCHANGED <<enabled, active_mode, active_left, thread_running, hearing, promised, spoken>>

StopListening ==
    /\ thread_running' = FALSE
    /\ UNCHANGED <<enabled, active_mode, active_left, queue, hearing, promised, spoken>>

Passed(left) == IF left < 0 THEN -1 ELSE left - 1
TimePasses ==
    /\ active_left' = Passed(active_left) /\ promised' = Passed(promised)
    /\ UNCHANGED <<enabled, active_mode, queue, thread_running, hearing, spoken>>

----------------------------------------------------------------------------
EarsTypeOK ==
    /\ enabled \in BOOLEAN /\ active_mode \in BOOLEAN /\ thread_running \in BOOLEAN
    /\ active_left \in -1 .. Longest(Longest(WakeWindow, Grace), Forced)
    /\ queue \in Seq(Command) /\ Len(queue) < Cap
    /\ hearing.at \in {"listening", "woken", "remainder", "extend", "expire", "off"}
    /\ hearing.text \in Texts \union {Silence}
    /\ spoken \in 0 .. MaxSpoken

\* Nothing reaches the main loop that was not said to it: a command without a wake
\* word was spoken within the time of a wake word, of !listen or of the command
\* before it, however the thread and the main loop open and close the window.
InvitedOnly == \A i \in 1 .. Len(queue) : queue[i].invited
=============================================================================

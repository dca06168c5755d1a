--------------------------- MODULE DialogueProofs ---------------------------
(***************************************************************************)
(* Proofs about Ears and Dialogue, for every size of the ring, every length  *)
(* of the windows of attention and any number of utterances and lines.       *)
(***************************************************************************)
EXTENDS Dialogue, TLAPS

LEMMA ConstantTypes ==
    /\ Cap \in Nat /\ Cap > 1 /\ PerPass \in Nat /\ PerPass > 0 /\ Deadline \in Nat
    /\ WakeWindow \in Nat /\ Grace \in Nat /\ Forced \in Nat
    /\ MaxSpoken \in Nat /\ MaxLines \in Nat
BY EarsAssumption, DialogueAssumption

USE ConstantTypes

----------------------------------------------------------------------------
(***************************************************************************)
(* The ears                                                                 *)
(***************************************************************************)
\* The window is never open for longer than somebody was promised: what makes
\* InvitedOnly inductive.
PromiseKept == promised \in Int /\ promised >= -1 /\ active_left <= promised

EarsInv == EarsTypeOK /\ PromiseKept /\ InvitedOnly

\* What steps do to the ears.
EarsNext ==
    \/ Hear \/ Listen
    \/ toggle \/ ForceOpen \/ ForceUntil \/ StopListening \/ TimePasses
    \/ pop_command /\ queue # <<>>

LEMMA EarsInitInv == EarsInit => EarsInv
<1> SUFFICES ASSUME EarsInit PROVE EarsInv
  OBVIOUS
<1>1. /\ queue \in Seq(Command) /\ Len(queue) = 0
  BY DEF EarsInit
<1>2. /\ hearing.at \in {"listening", "woken", "remainder", "extend", "expire", "off"}
      /\ hearing.text \in Texts \union {Silence}
  BY DEF EarsInit, At
<1>3. InvitedOnly
  BY <1>1 DEF InvitedOnly
<1>4. EarsTypeOK
  <2>1. active_left = -1 /\ Longest(Longest(WakeWindow, Grace), Forced) \in Nat
    BY DEF EarsInit, Longest
  <2>2. active_left \in -1 .. Longest(Longest(WakeWindow, Grace), Forced)
    BY <2>1
  <2>3. enabled \in BOOLEAN /\ active_mode \in BOOLEAN /\ thread_running \in BOOLEAN
    BY DEF EarsInit
  <2> QED
    BY <1>1, <1>2, <2>2, <2>3 DEF EarsInit, EarsTypeOK
<1> QED
  BY <1>3, <1>4 DEF EarsInit, EarsInv, PromiseKept

\* enqueue_text() of a text that somebody invited.
LEMMA EnqueuedInvited ==
    ASSUME EarsInv, NEW text \in Texts, NEW wake \in BOOLEAN,
           wake \/ promised >= 0, Enqueue(text, wake)
    PROVE  /\ queue' \in Seq(Command) /\ Len(queue') < Cap
           /\ InvitedOnly'
<1> DEFINE c == [text |-> text, wake_triggered |-> wake, invited |-> wake \/ promised >= 0]
<1>1. queue \in Seq(Command) /\ Len(queue) < Cap
  BY DEF EarsInv, EarsTypeOK
<1>2. (wake \/ promised >= 0) = TRUE
  OBVIOUS
<1>3. c = [text |-> text, wake_triggered |-> wake, invited |-> TRUE]
  BY <1>2
<1>4. c \in Command /\ c.invited = TRUE
  BY <1>3 DEF Command
<1>5. queue' = IF Len(queue) < Cap - 1 THEN Append(queue, c) ELSE queue
  BY DEF Enqueue
<1> HIDE DEF c
<1>6. CASE Len(queue) < Cap - 1
  <2>1. queue' = Append(queue, c)
    BY <1>5, <1>6
  <2>2. queue' \in Seq(Command) /\ Len(queue') = Len(queue) + 1
    BY <1>1, <1>4, <2>1
  <2>3. ASSUME NEW i \in 1 .. Len(queue') PROVE queue'[i].invited
    <3>1. CASE i = Len(queue) + 1
      BY <1>1, <1>4, <2>1, <3>1
    <3>2. CASE i \in 1 .. Len(queue)
      <4>1. queue'[i] = queue[i]
        BY <1>1, <2>1, <3>2
      <4> QED
        BY <3>2, <4>1 DEF EarsInv, InvitedOnly
    <3> QED
      BY <1>1, <2>2, <3>1, <3>2
  <2> QED
    BY <1>1, <1>6, <2>2, <2>3 DEF InvitedOnly
<1>7. CASE ~(Len(queue) < Cap - 1)
  BY <1>1, <1>5, <1>7 DEF EarsInv, InvitedOnly
<1> QED
  BY <1>6, <1>7

LEMMA EarsStepInv == EarsInv /\ (EarsNext \/ UNCHANGED ears) => EarsInv'
<1> SUFFICES ASSUME EarsInv, EarsNext \/ UNCHANGED ears PROVE EarsInv'
  OBVIOUS
<1>t. EarsTypeOK /\ PromiseKept /\ InvitedOnly
  BY DEF EarsInv
<1> USE DEF EarsTypeOK, PromiseKept, Longest
<1>1. CASE WakeHeard
  BY <1>1, <1>t DEF WakeHeard, EarsInv, At, InvitedOnly
<1>2. CASE Dictated
  <2>1. PICK text \in Texts : Enqueue(text, FALSE)
    BY <1>2 DEF Dictated
  <2>2. queue' \in Seq(Command) /\ Len(queue') < Cap /\ InvitedOnly'
    <3>1. FALSE \in BOOLEAN /\ promised >= 0
      BY <1>2, <1>t DEF Dictated
    <3> QED
      BY <2>1, <3>1, EnqueuedInvited
  <2> QED
    BY <1>2, <1>t, <2>2 DEF Dictated, EarsInv, At
<1>3. CASE Woken
  BY <1>3, <1>t DEF Woken, EarsInv, At, InvitedOnly
<1>4. CASE Remainder
  <2>1. queue' \in Seq(Command) /\ Len(queue') < Cap /\ InvitedOnly'
    <3>1. CASE hearing.text = Silence
      BY <1>4, <1>t, <3>1 DEF Remainder, InvitedOnly
    <3>2. CASE hearing.text # Silence
      <4>1. hearing.text \in Texts /\ Enqueue(hearing.text, TRUE)
        BY <1>4, <1>t, <3>2 DEF Remainder
      <4> QED
        BY <4>1, EnqueuedInvited
    <3> QED
      BY <3>1, <3>2
  <2> QED
    BY <1>4, <1>t, <2>1 DEF Remainder, EarsInv, At
<1>5. CASE Extend
  BY <1>5, <1>t DEF Extend, EarsInv, At, InvitedOnly
<1>6. CASE Lapsed \/ Expire \/ HeardOut
  <2>1. UNCHANGED <<enabled, active_left, queue, thread_running, promised, spoken>>
    BY <1>6 DEF Lapsed, Expire, HeardOut
  <2>2. active_mode' \in BOOLEAN
    BY <1>6, <1>t DEF Lapsed, Expire, HeardOut
  <2>3. /\ hearing'.at \in {"listening", "woken", "remainder", "extend", "expire", "off"}
        /\ hearing'.text \in Texts \union {Silence}
    BY <1>6 DEF Lapsed, Expire, HeardOut, At
  <2> QED
    BY <1>t, <2>1, <2>2, <2>3 DEF EarsInv, InvitedOnly
<1>7. CASE toggle \/ ForceOpen \/ StopListening
  BY <1>7, <1>t DEF toggle, ForceOpen, StopListening, EarsInv, InvitedOnly
<1>8. CASE ForceUntil
  BY <1>8, <1>t DEF ForceUntil, EarsInv, InvitedOnly
<1>9. CASE TimePasses
  BY <1>9, <1>t DEF TimePasses, Passed, EarsInv, InvitedOnly
<1>10. CASE pop_command /\ queue # <<>>
  <2>1. queue' \in Seq(Command) /\ Len(queue') = Len(queue) - 1
        /\ \A i \in 1 .. Len(queue') : queue'[i] = queue[i + 1]
    BY <1>10, <1>t DEF pop_command
  <2>2. InvitedOnly'
    <3>1. ASSUME NEW i \in 1 .. Len(queue') PROVE queue'[i].invited
      <4>1. i + 1 \in 1 .. Len(queue) /\ queue'[i] = queue[i + 1]
        BY <1>t, <2>1
      <4> QED
        BY <1>t, <4>1 DEF InvitedOnly
    <3> QED
      BY <3>1 DEF InvitedOnly
  <2> QED
    BY <1>10, <1>t, <2>1, <2>2 DEF pop_command, EarsInv
<1>11. CASE UNCHANGED ears
  BY <1>11, <1>t DEF ears, EarsInv, InvitedOnly
<1> QED
  BY <1>1, <1>2, <1>3, <1>4, <1>5, <1>6, <1>7, <1>8, <1>9, <1>10, <1>11
  DEF EarsNext, Hear, Listen

----------------------------------------------------------------------------
(***************************************************************************)
(* The request that is held                                                 *)
(***************************************************************************)
Fates == {"open", "agreed", "refused", "lapsed", "replaced"}

RequestType ==
    /\ waiting \in BOOLEAN /\ deadline_left \in -1 .. Deadline
    /\ asked \in Seq(Fates)
    /\ fetched \in Seq(1 .. Len(asked)) /\ goal \in 0 .. Len(asked)

\* The flag and the goal are set and cleared together.
HeldTogether == waiting <=> goal # 0

RequestInv == RequestType /\ HeldTogether /\ RequestsAccounted /\ FetchesAgreed

\* What steps do to the request.
Held ==
    /\ waiting' = TRUE /\ deadline_left' = Deadline
    /\ goal' = Len(asked) + 1
    /\ asked' = Append(IF goal = 0 THEN asked ELSE [asked EXCEPT ![goal] = "replaced"], "open")
    /\ UNCHANGED fetched

RequestNext ==
    \/ Held
    \/ waiting /\ Ended("agreed") /\ fetched' = Append(fetched, goal)
    \/ \E how \in {"refused", "lapsed"} : Ended(how) /\ UNCHANGED fetched
    \/ deadline_left' = Passed(deadline_left) /\ UNCHANGED <<waiting, goal, asked, fetched>>

\* A sequence of requests of which one got an answer.
LEMMA Answering ==
    ASSUME RequestInv, NEW how \in Fates \ {"open"}, NEW s,
           s = IF goal = 0 THEN asked ELSE [asked EXCEPT ![goal] = how]
    PROVE  /\ s \in Seq(Fates) /\ Len(s) = Len(asked) /\ DOMAIN s = DOMAIN asked
           /\ \A n \in DOMAIN s : s[n] # "open"
           /\ \A n \in DOMAIN asked : asked[n] = "agreed" => s[n] = "agreed"
           /\ goal # 0 => s[goal] = how
<1>t. /\ asked \in Seq(Fates) /\ Len(asked) \in Nat /\ DOMAIN asked = 1 .. Len(asked)
      /\ goal \in 0 .. Len(asked)
  BY DEF RequestInv, RequestType
<1>1. {n \in DOMAIN asked : asked[n] = "open"} = IF goal # 0 THEN {goal} ELSE {}
  BY DEF RequestInv, HeldTogether, RequestsAccounted
<1>2. CASE goal = 0
  BY <1>t, <1>1, <1>2
<1>3. CASE goal # 0
  <2>1. /\ s = [asked EXCEPT ![goal] = how] /\ goal \in DOMAIN asked
        /\ asked[goal] = "open"
    BY <1>t, <1>1, <1>3
  <2>2. s \in Seq(Fates) /\ Len(s) = Len(asked) /\ DOMAIN s = DOMAIN asked
    BY <1>t, <2>1
  <2>3. \A n \in DOMAIN asked : s[n] = IF n = goal THEN how ELSE asked[n]
    BY <2>1
  <2> QED
    BY <1>1, <1>3, <2>1, <2>2, <2>3
<1> QED
  BY <1>2, <1>3

LEMMA RequestStepInv == RequestInv /\ (RequestNext \/ UNCHANGED request) => RequestInv'
<1> SUFFICES ASSUME RequestInv, RequestNext \/ UNCHANGED request PROVE RequestInv'
  OBVIOUS
<1>t. /\ RequestType /\ HeldTogether /\ RequestsAccounted /\ FetchesAgreed
      /\ Len(asked) \in Nat /\ DOMAIN asked = 1 .. Len(asked)
      /\ Len(fetched) \in Nat /\ DOMAIN fetched = 1 .. Len(fetched)
      /\ \A i \in DOMAIN fetched : fetched[i] \in DOMAIN asked
  BY DEF RequestInv, RequestType
<1>1. CASE Held
  <2> DEFINE s == IF goal = 0 THEN asked ELSE [asked EXCEPT ![goal] = "replaced"]
  <2>1. /\ s \in Seq(Fates) /\ Len(s) = Len(asked) /\ DOMAIN s = DOMAIN asked
        /\ \A n \in DOMAIN s : s[n] # "open"
        /\ \A n \in DOMAIN asked : asked[n] = "agreed" => s[n] = "agreed"
    BY Answering, "replaced" \in Fates \ {"open"} DEF Fates
  <2>2. asked' = Append(s, "open")
    BY <1>1 DEF Held
  <2> HIDE DEF s
  <2>3. asked' \in Seq(Fates) /\ Len(asked') = Len(asked) + 1
    BY <2>1, <2>2 DEF Fates
  <2>4. /\ DOMAIN asked' = 1 .. Len(asked) + 1
        /\ \A n \in DOMAIN asked : asked'[n] = s[n]
        /\ asked'[Len(asked) + 1] = "open"
    BY <1>t, <2>1, <2>2, <2>3
  <2>5. waiting' = TRUE /\ goal' = Len(asked) + 1 /\ deadline_left' = Deadline
        /\ fetched' = fetched
    BY <1>1 DEF Held
  <2>6. RequestType'
    BY <1>t, <2>3, <2>5 DEF RequestType
  <2>7. RequestsAccounted' /\ HeldTogether'
    BY <1>t, <2>1, <2>4, <2>5 DEF RequestsAccounted, HeldTogether
  <2>8. FetchesAgreed'
    BY <1>t, <2>1, <2>4, <2>5 DEF FetchesAgreed, IsInjective
  <2> QED
    BY <2>6, <2>7, <2>8 DEF RequestInv
<1>2. CASE waiting /\ Ended("agreed") /\ fetched' = Append(fetched, goal)
  <2>1. /\ asked' \in Seq(Fates) /\ Len(asked') = Len(asked) /\ DOMAIN asked' = DOMAIN asked
        /\ \A n \in DOMAIN asked' : asked'[n] # "open"
        /\ \A n \in DOMAIN asked : asked[n] = "agreed" => asked'[n] = "agreed"
        /\ goal # 0 => asked'[goal] = "agreed"
    BY <1>2, Answering, "agreed" \in Fates \ {"open"} DEF Fates, Ended
  <2>2. goal \in DOMAIN asked /\ asked[goal] = "open"
    BY <1>2, <1>t DEF HeldTogether, RequestType, RequestsAccounted
  <2>3. waiting' = FALSE /\ goal' = 0 /\ deadline_left' = -1
    BY <1>2 DEF Ended
  <2>4. /\ fetched' \in Seq(1 .. Len(asked)) /\ Len(fetched') = Len(fetched) + 1
        /\ DOMAIN fetched' = DOMAIN fetched \union {Len(fetched) + 1}
        /\ \A i \in DOMAIN fetched : fetched'[i] = fetched[i]
        /\ fetched'[Len(fetched) + 1] = goal
    BY <1>2, <1>t, <2>2 DEF RequestType
  <2>5. RequestType'
    <3>1. deadline_left' \in -1 .. Deadline
      BY <2>3
    <3>2. waiting' \in BOOLEAN
      BY <2>3
    <3>3. Len(asked') \in Nat /\ goal' \in 0 .. Len(asked')
      BY <1>t, <2>1, <2>3
    <3>4. fetched' \in Seq(1 .. Len(asked'))
      BY <2>1, <2>4
    <3> QED
      BY <2>1, <3>1, <3>2, <3>3, <3>4 DEF RequestType
  <2>6. RequestsAccounted' /\ HeldTogether'
    BY <2>1, <2>3 DEF RequestsAccounted, HeldTogether
  <2>7. \A i \in DOMAIN fetched : fetched[i] # goal
    BY <1>t, <2>2 DEF FetchesAgreed
  <2>8. FetchesAgreed'
    BY <1>t, <2>1, <2>2, <2>4, <2>7 DEF FetchesAgreed, IsInjective, HeldTogether
  <2> QED
    BY <2>5, <2>6, <2>8 DEF RequestInv
<1>3. CASE \E how \in {"refused", "lapsed"} : Ended(how) /\ UNCHANGED fetched
  <2>1. PICK how \in {"refused", "lapsed"} : Ended(how) /\ UNCHANGED fetched
    BY <1>3
  <2>2. how \in Fates \ {"open"}
    BY DEF Fates
  <2>3. /\ asked' \in Seq(Fates) /\ Len(asked') = Len(asked) /\ DOMAIN asked' = DOMAIN asked
        /\ \A n \in DOMAIN asked' : asked'[n] # "open"
        /\ \A n \in DOMAIN asked : asked[n] = "agreed" => asked'[n] = "agreed"
    BY <2>1, <2>2, Answering DEF Ended
  <2>4. waiting' = FALSE /\ goal' = 0 /\ deadline_left' = -1
    BY <2>1 DEF Ended
  <2>5. RequestType'
    <3>1. deadline_left' \in -1 .. Deadline
      BY <2>4
    <3>2. waiting' \in BOOLEAN
      BY <2>4
    <3>3. Len(asked') \in Nat /\ goal' \in 0 .. Len(asked')
      BY <1>t, <2>3, <2>4
    <3>4. fetched' \in Seq(1 .. Len(asked'))
      BY <1>t, <2>1, <2>3 DEF RequestType
    <3> QED
      BY <2>3, <3>1, <3>2, <3>3, <3>4 DEF RequestType
  <2>6. RequestsAccounted' /\ HeldTogether'
    BY <2>3, <2>4 DEF RequestsAccounted, HeldTogether
  <2>7. FetchesAgreed'
    BY <1>t, <2>1, <2>3 DEF FetchesAgreed, IsInjective
  <2> QED
    BY <2>5, <2>6, <2>7 DEF RequestInv
<1>4. CASE deadline_left' = Passed(deadline_left) /\ UNCHANGED <<waiting, goal, asked, fetched>>
  BY <1>4, <1>t DEF Passed, RequestInv, RequestType, HeldTogether, RequestsAccounted,
                    FetchesAgreed
<1>5. CASE UNCHANGED request
  BY <1>5, <1>t DEF request, RequestInv, RequestType, HeldTogether, RequestsAccounted,
                    FetchesAgreed
<1> QED
  BY <1>1, <1>2, <1>3, <1>4, <1>5 DEF RequestNext

----------------------------------------------------------------------------
(***************************************************************************)
(* The loop and the voice                                                   *)
(***************************************************************************)
LoopType ==
    /\ pc \in {"input", "listen", "confirm", "ears", "tick", "drives",
                "stop", "join", "off"}
    /\ running \in BOOLEAN /\ typing \in BOOLEAN /\ processed \in 0 .. PerPass
    /\ lines \in 0 .. MaxLines

SpeechType ==
    /\ dlg \in {"LISTENING", "SPEAKING"}
    /\ state \in {"IDLE", "THINKING", "SPEAKING"}
    /\ voice \in Voice

\* What steps do to the speech. (Turn may leave it as it is.)
Polled ==
    /\ dlg' = IF Rested THEN "LISTENING" ELSE dlg
    /\ LET polled == IF Rested /\ state = "SPEAKING" THEN "IDLE" ELSE state
       IN  \E active \in BOOLEAN :
             state' = CASE active /\ polled # "SPEAKING" -> "THINKING"
                        [] ~active /\ polled = "THINKING" -> "IDLE"
                        [] OTHER -> polled
    /\ UNCHANGED voice

SpeechNext ==
    \/ jarvis_say \/ Turn \/ Polled
    \/ voice' \in {"speaking", "silent"} /\ UNCHANGED <<dlg, state>>

LEMMA SpeechStepType == SpeechType /\ (SpeechNext \/ UNCHANGED speech) => SpeechType'
<1> SUFFICES ASSUME SpeechType, SpeechNext \/ UNCHANGED speech PROVE SpeechType'
  OBVIOUS
<1> USE DEF SpeechType, Voice
<1>1. CASE jarvis_say
  BY <1>1 DEF jarvis_say
<1>2. CASE Trained
  BY <1>2 DEF Trained
<1>3. CASE Looked
  BY <1>3 DEF Looked
<1>4. CASE Polled
  <2>1. CASE Rested
    BY <1>4, <2>1 DEF Polled, Rested
  <2>2. CASE ~Rested
    BY <1>4, <2>2 DEF Polled, Rested
  <2> QED
    BY <2>1, <2>2
<1>5. CASE voice' \in {"speaking", "silent"} /\ UNCHANGED <<dlg, state>>
  BY <1>5
<1>6. CASE UNCHANGED speech
  BY <1>6 DEF speech
<1> QED
  BY <1>1, <1>2, <1>3, <1>4, <1>5, <1>6 DEF SpeechNext, Turn, Answered

----------------------------------------------------------------------------
(***************************************************************************)
(* All of them together                                                     *)
(***************************************************************************)
Inv == EarsInv /\ LoopType /\ SpeechType /\ RequestInv

LEMMA InitInv == Init => Inv
<1> SUFFICES ASSUME Init PROVE Inv
  OBVIOUS
<1>1. EarsInv
  BY EarsInitInv DEF Init
<1>2. LoopType /\ SpeechType
  <2>1. LoopType
    <3>1. running \in BOOLEAN /\ typing \in BOOLEAN
      BY DEF Init
    <3>2. processed \in 0 .. PerPass /\ lines \in 0 .. MaxLines
      BY DEF Init
    <3> QED
      BY <3>1, <3>2 DEF Init, LoopType
  <2>2. SpeechType
    BY DEF Init, SpeechType, Voice
  <2> QED
    BY <2>1, <2>2
<1>3. /\ asked \in Seq(Fates) /\ fetched \in Seq(1 .. Len(asked))
      /\ Len(asked) = 0 /\ Len(fetched) = 0
  BY DEF Init
<1>4. waiting = FALSE /\ goal = 0 /\ deadline_left \in -1 .. Deadline
  BY DEF Init
<1>5. RequestType /\ HeldTogether
  <2>1. waiting \in BOOLEAN /\ (waiting <=> goal # 0)
    BY <1>4
  <2> QED
    BY <1>3, <1>4, <2>1 DEF RequestType, HeldTogether
<1>6. RequestsAccounted /\ FetchesAgreed
  BY <1>3, <1>4 DEF RequestsAccounted, FetchesAgreed, IsInjective
<1> QED
  BY <1>1, <1>2, <1>5, <1>6 DEF Inv, RequestInv

\* Every step does to ears, speech and request what the lemmas above are about.
Kinds ==
    /\ EarsNext \/ UNCHANGED ears
    /\ SpeechNext \/ UNCHANGED speech
    /\ RequestNext \/ UNCHANGED request
    /\ LoopType'

LEMMA StepKinds == LoopType /\ [Next]_vars => Kinds
<1> SUFFICES ASSUME LoopType, [Next]_vars PROVE Kinds
  OBVIOUS
<1> USE DEF Kinds, LoopType, EarsNext, SpeechNext
<1>1. CASE Key
  <2>1. lines' \in 0 .. MaxLines
    BY <1>1 DEF Key
  <2> QED
    BY <1>1, <2>1 DEF Key
<1>2. CASE Line
  <2>1. ReadOn \in {"input", "stop"}
    BY DEF ReadOn
  <2>2. CASE OrdinaryLine
    BY <2>1, <2>2 DEF OrdinaryLine, Enter
  <2>3. CASE EarsLine
    BY <2>1, <2>3 DEF EarsLine, Enter
  <2>4. CASE ListenLine
    BY <2>4 DEF ListenLine, Enter
  <2>5. CASE QuitLine
    BY <2>5 DEF QuitLine, Enter
  <2> QED
    BY <1>2, <2>2, <2>3, <2>4, <2>5 DEF Line
<1>3. CASE WindowLost
  BY <1>3 DEF WindowLost, loop
<1>4. CASE Speak
  BY <1>4 DEF Speak, loop
<1>5. CASE Opened
  BY <1>5 DEF Opened, ReadOn
<1>6. CASE NoKey
  BY <1>6 DEF NoKey
<1>7. CASE Confirm
  <2>1. /\ pc' = "ears" /\ processed' = 0 /\ UNCHANGED <<ears, running, typing, lines>>
    BY <1>7 DEF Confirm
  <2>2. CASE waiting /\ deadline_left < 0
    <3>1. Ended("lapsed") /\ UNCHANGED fetched /\ jarvis_say
      BY <1>7, <2>2 DEF Confirm
    <3>2. RequestNext
      BY <3>1 DEF RequestNext
    <3> QED
      BY <2>1, <3>1, <3>2
  <2>3. CASE ~(waiting /\ deadline_left < 0)
    BY <1>7, <2>1, <2>3 DEF Confirm
  <2> QED
    BY <2>2, <2>3
<1>8. CASE Serve
  <2>1. /\ pop_command /\ queue # <<>> /\ UNCHANGED <<pc, typing, lines>>
        /\ processed' \in 0 .. PerPass
    BY <1>8 DEF Serve, Hold, Agree, Refuse, OtherCommand, Pop
  <2>2. CASE Hold
    BY <2>1, <2>2 DEF Hold, RequestNext, Held
  <2>3. CASE Agree
    BY <2>1, <2>3 DEF Agree, Reply, RequestNext
  <2>4. CASE Refuse
    BY <2>1, <2>4 DEF Refuse, RequestNext
  <2>5. CASE OtherCommand
    BY <2>1, <2>5 DEF OtherCommand
  <2> QED
    BY <1>8, <2>2, <2>3, <2>4, <2>5 DEF Serve
<1>9. CASE Served
  BY <1>9 DEF Served
<1>10. CASE Tick
  BY <1>10 DEF Tick, Polled
<1>11. CASE NextPass
  BY <1>11 DEF NextPass
<1>12. CASE Quit
  BY <1>12 DEF Quit
<1>13. CASE Join
  BY <1>13 DEF Join
<1>14. CASE VoiceStarts \/ VoiceEnds
  BY <1>14 DEF VoiceStarts, VoiceEnds, loop
<1>15. CASE Clock
  BY <1>15 DEF Clock, loop, RequestNext
<1>16. CASE EarsStep
  BY <1>16 DEF EarsStep, loop
<1>17. CASE UNCHANGED vars
  BY <1>17 DEF vars, loop
<1> QED
  BY <1>1, <1>2, <1>3, <1>4, <1>5, <1>6, <1>7, <1>8, <1>9, <1>10, <1>11, <1>12, <1>13,
     <1>14, <1>15, <1>16, <1>17 DEF Next, Say, Pass

LEMMA StepInv == Inv /\ [Next]_vars => Inv'
BY StepKinds, EarsStepInv, SpeechStepType, RequestStepInv DEF Inv, Kinds

LEMMA Invariance == Spec => []Inv
BY InitInv, StepInv, PTL DEF Spec

----------------------------------------------------------------------------
\* Everything that is kept has its type; the ring of commands never holds more than
\* Cap - 1.
THEOREM TypeCorrect == Spec => []TypeOK
<1>1. Inv => TypeOK
  BY DEF Inv, EarsInv, LoopType, SpeechType, RequestInv, RequestType, Fates,
         TypeOK
<1> QED
  BY Invariance, <1>1, PTL

\* Only invited commands reach the main loop, however long the windows are and however
\* the thread and !ears_listen open and close them.
THEOREM OnlyInvited == Spec => []InvitedOnly
<1>1. Inv => InvitedOnly
  BY DEF Inv, EarsInv
<1> QED
  BY Invariance, <1>1, PTL

\* The request that is held is the only open one.
THEOREM OneRequestHeld == Spec => []RequestsAccounted
<1>1. Inv => RequestsAccounted
  BY DEF Inv, RequestInv
<1> QED
  BY Invariance, <1>1, PTL

\* The network is asked once for each request that was agreed to, and for no other.
THEOREM OnlyAgreedFetches == Spec => []FetchesAgreed
<1>1. Inv => FetchesAgreed
  BY DEF Inv, RequestInv
<1> QED
  BY Invariance, <1>1, PTL

\* Each request comes to exactly one end, and only an agreed one to the network.
THEOREM EveryRequestEndsOnce == Spec => []RequestsEndOnce
<1>1. RequestsAccounted /\ FetchesAgreed => RequestsEndOnce
  BY DEF RequestsEndOnce
<1> QED
  BY OneRequestHeld, OnlyAgreedFetches, <1>1, PTL
=============================================================================

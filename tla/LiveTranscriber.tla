--------------------------- MODULE LiveTranscriber ---------------------------
(***************************************************************************)
(* A live transcriber: FasterWhisperTranscriber and WhisperLiveTranscriber *)
(* keep the same contract (a rolling audio buffer, the stream() coroutine, *)
(* AudioStreamWatchdog), and are modelled once. Four threads of control    *)
(* share one object without a common lock:                                 *)
(*                                                                         *)
(*   callback   PortAudio's thread: appends to the buffer                  *)
(*   executor   one worker thread: loads, transcribes, reopens the stream  *)
(*   loop       stream(): captures, waits for the executor, yields text    *)
(*   operator   requests on the event loop: blank, resume, Stop            *)
(*                                                                         *)
(* Time is counted in ticks of one update interval. A tick brings one      *)
(* sound: silence, a noise louder than min_rms, or a word. Of a text only  *)
(* the origin of its words is kept, not their number or spelling.          *)
(***************************************************************************)
EXTENDS Integers, Sequences, FiniteSets, SequencesExt

CONSTANTS
    window_seconds,     \* all durations in ticks
    buffer_seconds,
    silence_finalise_seconds,
    stall_seconds,      \* audio_callback_stall_seconds
    base_cooldown, max_cooldown,
    drain_seconds,      \* the hub's ignore window after a resume
    stability_passes,
    MaxFailures         \* the back-off doubles up to here

ASSUME DurationAssumption ==
    /\ window_seconds \in Nat \ {0}
    /\ buffer_seconds \in Nat /\ buffer_seconds >= window_seconds
    /\ silence_finalise_seconds \in Nat /\ stall_seconds \in Nat \ {0}
    /\ base_cooldown \in Nat \ {0}
    /\ max_cooldown \in Nat /\ max_cooldown >= base_cooldown
    /\ stability_passes \in Nat \ {0} /\ MaxFailures \in 0 .. 4
    /\ drain_seconds \in Nat

VARIABLES
    loop,           \* where stream() is
    executor,       \* what the worker thread does
    captured,       \* the arguments of the pass under way
    due,            \* the cadence delay is over
    buffer,         \* _audio_buffer, newest last
    voiceAge,       \* since _last_voice_at
    callbackAge,    \* since _last_audio_callback_at
    attemptAge,     \* since _last_audio_restart_attempt_at
    failures,       \* _audio_restart_failures, up to MaxFailures
    held,           \* _stream is not None
    opened,         \* streams opened and not closed
    delivering,     \* the driver calls back
    pending,        \* pending_final_text
    candidate,      \* _stable_candidate
    stable,         \* _stable_count
    guard,          \* IncompleteEdgeGuard
    newVoice,       \* history: voice since the last capture
    blanked,        \* the hub's sensitive mode
    resuming,       \* progress of a resume request
    ignoring,       \* ticks left of the hub's ignore window
    shown           \* history: origins of published words, "open" aside

audioVars == <<buffer, voiceAge, callbackAge>>
streamVars == <<attemptAge, failures, held, opened, delivering>>
textVars == <<pending, candidate, stable>>
operatorVars == <<blanked, resuming, ignoring>>
vars == <<loop, executor, captured, due, audioVars, streamVars, textVars,
          guard, newVoice, operatorVars, shown>>

(* Where a word was heard: in the open, in a private moment, or before the *)
(* input stream was reopened.                                              *)
Origins == {"open", "private", "stalled"}
Sounds == Origins \union {"silence", "noise"}
Text == SUBSET Origins
(* Ages stop where no comparison tells them from longer ones.              *)
Never == buffer_seconds + silence_finalise_seconds
Older(age, oldest) == IF age >= oldest THEN oldest ELSE age + 1
(* "open" words do not matter beside others. *)
WordsOf(audio) ==
    LET heard == {audio[i] : i \in 1 .. Len(audio)} \intersect Origins
    IN IF heard = {"open"} THEN heard ELSE heard \ {"open"}
NoPass == [words |-> {}, butLast |-> {}, progress |-> 0, recent |-> FALSE]
NoEdge == [word |-> "none", progress |-> 0, heard |-> FALSE]

Running == loop # "ended"
Live == delivering /\ opened > 0
HasRecentVoice == voiceAge <= silence_finalise_seconds

-----------------------------------------------------------------------------
(* The callback thread and the clock.                                      *)

Kept(audio) ==
    IF Len(audio) > buffer_seconds THEN Tail(audio) ELSE audio

AudioCallback(sound) ==
    LET heard == IF sound = "word" THEN IF blanked THEN "private" ELSE "open"
                 ELSE sound
    IN
    /\ buffer' = Kept(Append(buffer, heard))
    /\ voiceAge' = IF heard = "silence" THEN Older(voiceAge, Never) ELSE 0
    /\ newVoice' = (newVoice \/ heard # "silence")
    /\ callbackAge' = 0

(* Nothing is awaited between a result and the hub's check of it.          *)
Awaiting == loop \notin {"partial", "final", "ended"}

Tick ==
    /\ Awaiting
    /\ \/ /\ Live
          /\ \E sound \in {"silence", "noise", "word"} : AudioCallback(sound)
       \/ /\ ~Live
          /\ voiceAge' = Older(voiceAge, Never)
          /\ callbackAge' = Older(callbackAge, stall_seconds)
          /\ UNCHANGED <<buffer, newVoice>>
    /\ attemptAge' = Older(attemptAge, max_cooldown)
    /\ due' = TRUE
    /\ ignoring' = IF ignoring = 0 THEN 0 ELSE ignoring - 1
    /\ UNCHANGED <<loop, executor, captured, failures, held, opened,
                   delivering, textVars, guard, blanked, resuming, shown>>

-----------------------------------------------------------------------------
(* Opening the input: the chosen device at the wanted rate, then at its    *)
(* native rate, then the system default the same way. Any of the four may  *)
(* work, or none.                                                          *)

OpenStream(opens) ==
    /\ callbackAge' = 0
    /\ IF opens
       THEN opened' = opened + 1 /\ held' = TRUE /\ delivering' = TRUE
       ELSE UNCHANGED <<opened, held, delivering>>

(* Mutant of Emptied: the rolling audio survives. *)
StillFull == buffer

(* reset_buffer: what a blank, a resume and a recovery leave.              *)
Emptied == <<>>

ResetBuffer ==
    /\ buffer' = Emptied
    /\ voiceAge' = Never
    /\ candidate' = {}
    /\ stable' = 0
    /\ guard' = NoEdge

(* stop(): what the loop does when it is cancelled or fails. A stream the   *)
(* executor is opening at that moment is not in _stream yet.               *)
CloseStream ==
    /\ held' = FALSE
    /\ opened' = IF held THEN opened - 1 ELSE opened

StartStream ==
    /\ loop = "starting"
    /\ \E opens \in BOOLEAN :
         /\ OpenStream(opens)
         /\ loop' = IF opens THEN "waiting" ELSE "ended"
         /\ executor' = IF opens THEN "loading" ELSE "idle"
    /\ UNCHANGED <<captured, due, buffer, voiceAge, attemptAge, failures,
                   textVars, guard, newVoice, operatorVars, shown>>

(* _load_model, with its fallback to the CPU: it loads or it raises.       *)
LoadModel ==
    /\ executor = "loading"
    /\ executor' = "idle"
    /\ \/ /\ loop' = IF Running THEN "sleeping" ELSE loop
          /\ UNCHANGED <<held, opened>>
       \/ Running /\ loop' = "ended" /\ CloseStream
    /\ due' = FALSE
    /\ UNCHANGED <<captured, audioVars, attemptAge, failures, delivering,
                   textVars, guard, newVoice, operatorVars, shown>>

-----------------------------------------------------------------------------
(* The watchdog, first thing in each iteration and on the executor: close  *)
(* the dead stream and forget its audio, then try to open another.         *)

Smaller(a, b) == IF a < b THEN a ELSE b
Cooldown == Smaller(max_cooldown, base_cooldown * 2 ^ failures)

(* Mutant of WatchdogDue: it gives up after a failed attempt. *)
WatchdogGivesUp ==
    callbackAge >= stall_seconds /\ attemptAge >= Cooldown /\ failures = 0

WatchdogDue == callbackAge >= stall_seconds /\ attemptAge >= Cooldown

(* What is left of earlier words dates from before the recovery. *)
Stalled(text) == IF text = {} THEN {} ELSE {"stalled"}

AbortStalledStream ==
    /\ loop = "sleeping" /\ due /\ WatchdogDue
    /\ attemptAge' = 0
    /\ CloseStream
    /\ buffer' = [i \in 1 .. Len(Emptied) |->
                    IF Emptied[i] \in Origins THEN "stalled" ELSE Emptied[i]]
    /\ pending' = Stalled(pending)
    /\ voiceAge' = Never /\ candidate' = {} /\ stable' = 0 /\ guard' = NoEdge
    /\ loop' = "waiting" /\ executor' = "opening"
    /\ UNCHANGED <<captured, due, callbackAge, failures, delivering, newVoice,
                   operatorVars, shown>>

Reopen(opens) ==
    /\ executor = "opening"
    /\ OpenStream(opens)
    /\ failures' = IF opens THEN 0 ELSE Smaller(failures + 1, MaxFailures)
    /\ executor' = "idle"
    /\ IF Running
       THEN loop' = "sleeping" /\ pending' = {} /\ due' = FALSE
       ELSE UNCHANGED <<loop, pending, due>>
    /\ UNCHANGED <<captured, buffer, voiceAge, attemptAge, candidate, stable,
                   guard, newVoice, operatorVars, shown>>

-----------------------------------------------------------------------------
(* One recognition pass.                                                   *)

(* speech_bounded_audio_range: the window that ends with the last voice.   *)
SpeechBounded(audio, age) ==
    LET last == Len(audio) - age
        first == last - window_seconds + 1
    IN IF age = Never THEN <<>>
       ELSE SubSeq(audio, IF first < 1 THEN 1 ELSE first, last)

LatestAudio == SpeechBounded(buffer, voiceAge)

LastWord(audio) == CHOOSE i \in 1 .. Len(audio) :
    audio[i] \in Origins /\ \A j \in i + 1 .. Len(audio) : audio[j] \notin Origins

(* What the recogniser can make of the audio. A hypothesis from audio that *)
(* was captured outside the voice grace period will be suppressed.         *)
Capture(audio) ==
    LET words == WordsOf(audio) IN
    IF ~HasRecentVoice \/ words = {} THEN NoPass
    ELSE [words |-> words,
          butLast |-> WordsOf(SubSeq(audio, 1, LastWord(audio) - 1)),
          progress |-> Len(audio), recent |-> TRUE]

StartPass ==
    /\ loop = "sleeping" /\ due /\ ~WatchdogDue
    /\ captured' = Capture(LatestAudio)
    /\ guard' = [guard EXCEPT !.heard = guard.word # "none" /\ (@ \/ newVoice)]
    /\ newVoice' = FALSE
    /\ due' = FALSE
    /\ loop' = "waiting" /\ executor' = "transcribing"
    /\ UNCHANGED <<audioVars, streamVars, textVars, operatorVars, shown>>

(* Mutant of ReleasedEdge: a second pass over the same audio confirms. *)
ReleasedBySecondPass(weak, same) ==
    /\ guard' = IF ~weak THEN NoEdge
                ELSE IF same /\ guard.word = "candidate"
                     THEN [guard EXCEPT !.word = "confirmed"] ELSE guard
    /\ \/ ~weak
       \/ same /\ guard.word # "none"

(* IncompleteEdgeGuard.filter: is the last word withheld, and what does    *)
(* the guard remember. A weak word is one near the edge with little        *)
(* confidence; it may be the one already withheld.                         *)
ReleasedEdge(weak, same) ==
    /\ guard' = IF ~weak THEN NoEdge
                ELSE IF same /\ guard.word = "candidate"
                     THEN [guard EXCEPT !.word = "confirmed"] ELSE guard
    /\ \/ ~weak
       \/ same /\ guard.word = "confirmed"
       \/ same /\ guard.word = "candidate" /\ captured.progress > guard.progress

WithheldEdge(weak, same) ==
    /\ weak
    /\ \/ /\ same /\ guard.word = "candidate" /\ captured.progress <= guard.progress
          /\ UNCHANGED guard
       \/ /\ ~same \/ guard.word = "none"
          /\ guard' = [word |-> "candidate", progress |-> captured.progress,
                        heard |-> FALSE]

(* A hypothesis that looks unreliable takes the withheld word with it.     *)
Unreliable == guard' = NoEdge

(* Too little or silent audio, or an unreliable hypothesis.                *)
Rejected(text) == text = {} /\ (UNCHANGED guard \/ Unreliable)

(* A decode that began outside the voice grace period is suppressed.       *)
Suppressed == ~captured.recent

(* The words of a reliable hypothesis, perhaps without the last.           *)
Guarded(text) == \E weak, same \in BOOLEAN :
    \/ ReleasedEdge(weak, same) /\ text = captured.words
    \/ WithheldEdge(weak, same) /\ text = captured.butLast

(* What _transcribe_text and the suppression after it leave.               *)
Transcribed(text) == Rejected(text) \/ (~Suppressed /\ Guarded(text))

FinishPass ==
    /\ executor = "transcribing"
    /\ executor' = "idle"
    /\ captured' = NoPass
    /\ \E text \in Text :
         /\ Transcribed(text)
         /\ IF Running /\ text # {}
            THEN pending' = text /\ loop' \in {"partial", "checking"}
            ELSE loop' = (IF Running THEN "checking" ELSE loop) /\ UNCHANGED pending
    /\ UNCHANGED <<due, audioVars, streamVars, candidate, stable, newVoice,
                   operatorVars, shown>>

(* The yielded text reaches hub.publish, which drops it during a private   *)
(* moment and just after.                                                  *)
Publish(text) ==
    shown' = IF blanked \/ ignoring > 0 THEN shown
             ELSE shown \union (text \ {"open"})

YieldPartial ==
    /\ loop = "partial"
    /\ Publish(pending)
    /\ loop' = "checking"
    /\ UNCHANGED <<executor, captured, due, audioVars, streamVars, textVars,
                   guard, newVoice, operatorVars>>

(* _is_stable_enough: agreement counts up, disagreement starts again; the  *)
(* fuller wording of the two is kept.                                      *)
Agreement ==
    \/ candidate' \in {candidate, pending} /\ candidate # {} /\ stable' = stable + 1
    \/ candidate' = pending /\ stable' = 1

CheckFinal ==
    /\ loop = "checking"
    /\ IF pending # {} /\ ~HasRecentVoice
       THEN /\ Agreement
            /\ loop' = IF stable' >= stability_passes THEN "final" ELSE "sleeping"
       ELSE loop' = "sleeping" /\ UNCHANGED <<candidate, stable>>
    /\ UNCHANGED <<executor, captured, due, audioVars, streamVars, pending,
                   guard, newVoice, operatorVars, shown>>

(* What earlier finals held already is cut off, and may leave too little.  *)
Deduplicated(text) == {text, {}}

YieldFinal ==
    /\ loop = "final"
    /\ \E text \in Deduplicated(candidate) : Publish(text)
    /\ pending' = {} /\ candidate' = {} /\ stable' = 0 /\ guard' = NoEdge
    /\ loop' = "sleeping"
    /\ UNCHANGED <<executor, captured, due, audioVars, streamVars, newVoice,
                   operatorVars>>

-----------------------------------------------------------------------------
(* Requests on the event loop, and the devices.                            *)

Blank ==
    /\ ~blanked /\ resuming # "reset"
    /\ ResetBuffer
    /\ blanked' = TRUE /\ ignoring' = 0
    /\ UNCHANGED <<loop, executor, captured, due, callbackAge, streamVars,
                   pending, newVoice, resuming, shown>>

(* Resume resets, lifts the notice, waits for the sends, and resets again. *)
ResumeReset ==
    /\ blanked /\ resuming = "no"
    /\ ResetBuffer
    /\ resuming' = "reset"
    /\ UNCHANGED <<loop, executor, captured, due, callbackAge, streamVars,
                   pending, newVoice, blanked, ignoring, shown>>

ResumeLift ==
    /\ resuming = "reset"
    /\ blanked' = FALSE /\ ignoring' = drain_seconds
    /\ resuming' = "sending"
    /\ UNCHANGED <<loop, executor, captured, due, audioVars, streamVars,
                   textVars, guard, newVoice, shown>>

(* Mutant of ResumeEnd: the second reset is left out. *)
ResumeEndWithoutReset ==
    /\ resuming = "sending"
    /\ resuming' = "no"
    /\ UNCHANGED <<loop, executor, captured, due, audioVars, streamVars,
                   textVars, guard, newVoice, blanked, ignoring, shown>>

ResumeEnd ==
    /\ resuming = "sending"
    /\ ResetBuffer
    /\ resuming' = "no"
    /\ UNCHANGED <<loop, executor, captured, due, callbackAge, streamVars,
                   pending, newVoice, blanked, ignoring, shown>>

Stop ==
    /\ loop' = "ended"
    /\ CloseStream
    /\ UNCHANGED <<executor, captured, due, audioVars, attemptAge, failures,
                   delivering, textVars, guard, newVoice, operatorVars, shown>>

DriverStalls ==
    /\ Running /\ Live
    /\ delivering' = FALSE
    /\ UNCHANGED <<loop, executor, captured, due, audioVars, attemptAge,
                   failures, held, opened, textVars, guard, newVoice,
                   operatorVars, shown>>

-----------------------------------------------------------------------------
Init ==
    /\ loop = "starting" /\ executor = "idle" /\ captured = NoPass /\ due = FALSE
    /\ buffer = <<>> /\ voiceAge = Never /\ newVoice = FALSE
    /\ callbackAge = stall_seconds
    /\ attemptAge = max_cooldown /\ failures = 0 /\ held = FALSE /\ opened = 0
    /\ delivering = FALSE
    /\ pending = {} /\ candidate = {} /\ stable = 0 /\ guard = NoEdge
    /\ blanked = FALSE /\ resuming = "no" /\ ignoring = 0 /\ shown = {}

Executor == LoadModel \/ (\E opens \in BOOLEAN : Reopen(opens)) \/ FinishPass
Loop ==
    \/ StartStream \/ AbortStalledStream \/ StartPass
    \/ YieldPartial \/ CheckFinal \/ YieldFinal
Requests == Awaiting /\ (Blank \/ ResumeReset \/ ResumeLift \/ ResumeEnd \/ Stop)

Next == Tick \/ Executor \/ Loop \/ Requests \/ DriverStalls

Spec == Init /\ [][Next]_vars
(* The clock runs, neither the executor nor the loop stops for ever, and   *)
(* an input that is tried again and again can be opened at last.           *)
FairSpec ==
    /\ Spec
    /\ WF_vars(Tick) /\ WF_vars(Executor) /\ WF_vars(Loop)
    /\ SF_vars(Reopen(TRUE))

-----------------------------------------------------------------------------
(* Every variable stays in its range; ages stop at the last one that can   *)
(* still change a decision.                                                *)
LoopTypeOK ==
    /\ loop \in {"starting", "waiting", "sleeping", "partial", "checking",
                "final", "ended"}
    /\ executor \in {"idle", "loading", "opening", "transcribing"}
    /\ captured \in [words : Text, butLast : Text,
                     progress : 0 .. window_seconds, recent : BOOLEAN]

AudioTypeOK ==
    /\ buffer \in Seq(Sounds) /\ Len(buffer) <= buffer_seconds
    /\ voiceAge \in 0 .. Never /\ callbackAge \in 0 .. stall_seconds

StreamTypeOK ==
    /\ attemptAge \in 0 .. max_cooldown /\ failures \in 0 .. MaxFailures
    /\ opened \in 0 .. 1

TextTypeOK ==
    /\ pending \in Text /\ candidate \in Text /\ shown \in Text
    /\ stable \in 0 .. stability_passes
    /\ guard \in [word : {"none", "candidate", "confirmed"},
                  progress : 0 .. window_seconds, heard : BOOLEAN]

OperatorTypeOK ==
    /\ resuming \in {"no", "reset", "sending"} /\ ignoring \in 0 .. drain_seconds

FlagTypeOK ==
    /\ due \in BOOLEAN /\ newVoice \in BOOLEAN /\ blanked \in BOOLEAN
    /\ held \in BOOLEAN /\ delivering \in BOOLEAN

TranscriberTypeOK ==
    /\ LoopTypeOK /\ AudioTypeOK /\ StreamTypeOK /\ TextTypeOK
    /\ OperatorTypeOK /\ FlagTypeOK

(* The watchdog closes the dead stream before it opens another, so at most *)
(* one input stream is ever open, and while captions run it is the one     *)
(* _stream refers to.                                                      *)
OneStream ==
    /\ opened <= 1
    /\ Running /\ executor # "opening" => (held <=> opened = 1)

(* After a resume request has ended the rolling buffer holds nothing that  *)
(* was heard during the private moment, although audio goes on arriving    *)
(* between the first reset and the lifting of the notice.                  *)
PrivateAudioDiscarded ==
    ~blanked /\ resuming = "no" =>
        \A i \in 1 .. Len(buffer) : buffer[i] # "private"

(* Words heard before the watchdog reopened the input are not published    *)
(* afterwards.                                                             *)
NoReplayAfterRecovery == "stalled" \notin shown

(* A weak last word that was withheld is released as confirmed only when   *)
(* new voice was heard between the two passes.                             *)
WeakWordNeedsNewSpeech ==
    [][guard.word = "candidate" /\ guard'.word = "confirmed" => guard.heard]_vars

(* A stalled stream is replaced by a live one, or the loop ends: failed    *)
(* attempts space the next ones out but never end them.                    *)
StalledStreamRecovers == (Running /\ ~Live) ~> (Live \/ ~Running)

=============================================================================

----------------------- MODULE LiveTranscriberProofs -----------------------
(***************************************************************************)
(* Proofs about LiveTranscriber, for any durations of the window, the      *)
(* buffer, the grace periods and the cool-downs.                           *)
(***************************************************************************)
EXTENDS LiveTranscriber, SequenceTheorems, WellFoundedInduction, TLAPS

(* The executor works exactly while the loop waits for it, or after the    *)
(* loop has ended; a pass is only at hand while it transcribes.            *)
ControlInv ==
    /\ Running => (loop = "waiting" <=> executor # "idle")
    /\ executor # "transcribing" => captured = NoPass
    /\ stable = stability_passes => loop = "final"

(* While the executor opens an input there is no other.                    *)
StreamInv ==
    /\ OneStream
    /\ held => opened = 1
    /\ loop = "starting" \/ executor = "opening" => opened = 0

(* Words from before a recovery are nowhere but in the loop's pending text *)
(* while the executor still reopens the input, or after the loop's end.    *)
ReplayInv ==
    /\ NoReplayAfterRecovery
    /\ \A i \in 1 .. Len(buffer) : buffer[i] # "stalled"
    /\ "stalled" \notin captured.words \union captured.butLast \union candidate
    /\ "stalled" \in pending => ~Running \/ executor = "opening"

(* How much audio the next pass would be given.                            *)
Reach == Len(LatestAudio)

(* Without new voice the audio that a pass is given does not grow, so it   *)
(* has not grown beyond what the guard noted of the withheld word.         *)
EdgeInv ==
    /\ executor = "transcribing" /\ captured.recent /\ ~newVoice
         => Reach <= captured.progress
    /\ guard.word = "candidate" /\ ~guard.heard
         => /\ ~newVoice => Reach <= guard.progress
            /\ executor = "transcribing" => captured.progress <= guard.progress

TranscriberInv ==
    /\ TranscriberTypeOK /\ ControlInv /\ StreamInv
    /\ PrivateAudioDiscarded /\ ReplayInv /\ EdgeInv

-----------------------------------------------------------------------------
(* Audio.                                                                  *)

(* A set of positions that is not empty has a last one.                    *)
LEMMA LastPosition ==
    ASSUME NEW n \in Nat, NEW S \in SUBSET (1 .. n), S # {}
    PROVE  \E i \in S : \A j \in S : j <= i
<1> DEFINE R == {ss \in Nat \X Nat : ss[1] < ss[2]}
           T == {n - i : i \in S}
<1>1. IsWellFoundedOn(R, Nat)
  BY NatLessThanWellFounded DEF OpToRel
<1>2. \A x, y \in Nat : x < y => <<x, y>> \in R
  OBVIOUS
<1>3. T \subseteq Nat /\ T # {}
  <2>1. \A i \in S : n - i \in Nat
    OBVIOUS
  <2> QED
    BY <2>1
<1> HIDE DEF R, T
<1>4. PICK x \in T : \A y \in T : <<y, x>> \notin R
  BY <1>1, <1>3, WFMin
<1>5. PICK i \in S : x = n - i
  BY DEF T
<1>6. ASSUME NEW j \in S
      PROVE  j <= i
  <2>1. n - j \in T
    BY DEF T
  <2>2. ~(n - j < n - i)
    BY <1>2, <1>3, <1>4, <1>5, <2>1
  <2> QED
    BY <2>2
<1> QED
  BY <1>6

(* A window of the audio, from one position to another.                    *)
LEMMA WindowFacts ==
    ASSUME NEW audio \in Seq(Sounds), NEW first \in Int, NEW last \in Int,
           first >= 1, last <= Len(audio)
    PROVE  /\ SubSeq(audio, first, last) \in Seq(Sounds)
           /\ Len(SubSeq(audio, first, last)) =
                IF first <= last THEN last - first + 1 ELSE 0
           /\ \A i \in 1 .. Len(SubSeq(audio, first, last)) :
                 SubSeq(audio, first, last)[i] = audio[first + i - 1]
<1>1. CASE first <= last
  BY <1>1
<1>2. CASE first > last
  BY <1>2
<1> QED
  BY <1>1, <1>2

(* Only what the audio holds is made into words.                           *)
LEMMA WordsFacts ==
    ASSUME NEW audio \in Seq(Sounds)
    PROVE  /\ WordsOf(audio) \in Text
           /\ (\A i \in 1 .. Len(audio) : audio[i] # "stalled")
                => "stalled" \notin WordsOf(audio)
           /\ WordsOf(audio) # {}
                => \E i \in 1 .. Len(audio) : audio[i] \in Origins
  BY DEF WordsOf, Text, Origins

LEMMA LastWordFacts ==
    ASSUME NEW audio \in Seq(Sounds), WordsOf(audio) # {}
    PROVE  LastWord(audio) \in 1 .. Len(audio)
<1> DEFINE S == {i \in 1 .. Len(audio) : audio[i] \in Origins}
<1>1. S # {} /\ S \in SUBSET (1 .. Len(audio)) /\ Len(audio) \in Nat
  BY WordsFacts
<1>2. PICK i \in S : \A j \in S : j <= i
  BY <1>1, LastPosition
<1>3. \A j \in i + 1 .. Len(audio) : audio[j] \notin Origins
  BY <1>2
<1>4. i \in 1 .. Len(audio) /\ audio[i] \in Origins
  OBVIOUS
<1> QED
  BY <1>3, <1>4 DEF LastWord

(* What the next pass would be given.                                      *)
Extent(length, age) ==
    IF age = Never \/ length <= age THEN 0
    ELSE IF length - age <= window_seconds THEN length - age
    ELSE window_seconds

LEMMA ExtentType ==
    ASSUME NEW length \in Nat, NEW age \in 0 .. Never
    PROVE  Extent(length, age) \in 0 .. window_seconds
  BY DurationAssumption DEF Extent, Never

LEMMA LatestFacts ==
    ASSUME NEW audio \in Seq(Sounds), NEW age \in 0 .. Never
    PROVE  LET latest == SpeechBounded(audio, age) IN
           /\ latest \in Seq(Sounds)
           /\ Len(latest) = Extent(Len(audio), age)
           /\ \A i \in 1 .. Len(latest) :
                 \E j \in 1 .. Len(audio) : latest[i] = audio[j]
<1> DEFINE latest == SpeechBounded(audio, age)
<1> DEFINE last == Len(audio) - age
           first == IF last - window_seconds + 1 < 1 THEN 1
                    ELSE last - window_seconds + 1
<1>1. CASE age = Never
  BY <1>1 DEF SpeechBounded, Extent
<1>2. CASE age # Never
  <2>1. latest = SubSeq(audio, first, last)
    BY <1>2 DEF SpeechBounded
  <2>2. /\ first \in Int /\ last \in Int /\ first >= 1 /\ last <= Len(audio)
        /\ window_seconds \in Nat \ {0} /\ Never \in Nat
    BY DurationAssumption DEF Never
  <2> HIDE DEF first, latest
  <2>3. /\ latest \in Seq(Sounds)
        /\ Len(latest) = IF first <= last THEN last - first + 1 ELSE 0
        /\ \A i \in 1 .. Len(latest) :
              latest[i] = audio[first + i - 1]
    BY <2>1, <2>2, WindowFacts
  <2>4. \A i \in 1 .. Len(latest) : first + i - 1 \in 1 .. Len(audio)
    BY <2>2, <2>3
  <2>5. Len(latest) = Extent(Len(audio), age)
    <3>1. /\ last \in Int /\ window_seconds \in Nat \ {0}
          /\ first = IF last - window_seconds + 1 < 1 THEN 1
                     ELSE last - window_seconds + 1
      BY <2>2 DEF first
    <3>2. Len(latest) = IF first <= last THEN last - first + 1 ELSE 0
      BY <2>3
    <3>3. Extent(Len(audio), age) =
            IF last <= 0 THEN 0
            ELSE IF last <= window_seconds THEN last ELSE window_seconds
      BY <1>2, <2>2 DEF Extent
    <3> HIDE DEF last
    <3> QED
      BY <3>1, <3>2, <3>3
  <2>6. ASSUME NEW i \in 1 .. Len(latest)
        PROVE  \E j \in 1 .. Len(audio) : latest[i] = audio[j]
    <3>1. /\ first + i - 1 \in 1 .. Len(audio)
          /\ latest[i] = audio[first + i - 1]
      BY <2>3, <2>4
    <3> QED
      BY <3>1
  <2> QED
    BY <2>3, <2>5, <2>6 DEF latest
<1> QED
  BY <1>1, <1>2

(* The recogniser's view of it.                                            *)
LEMMA CaptureFacts ==
    ASSUME TranscriberTypeOK, \A i \in 1 .. Len(buffer) : buffer[i] # "stalled"
    PROVE  LET pass == Capture(LatestAudio) IN
           /\ pass \in [words : Text, butLast : Text,
                        progress : 0 .. window_seconds, recent : BOOLEAN]
           /\ "stalled" \notin pass.words \union pass.butLast
           /\ pass.progress <= Reach
           /\ pass.recent => pass.progress = Reach
<1> DEFINE audio == LatestAudio
           before == SubSeq(audio, 1, LastWord(audio) - 1)
<1>1. /\ audio \in Seq(Sounds) /\ Reach = Len(audio)
      /\ Len(audio) \in 0 .. window_seconds
      /\ \A i \in 1 .. Len(audio) : audio[i] # "stalled"
  <2>1. Len(audio) = Extent(Len(buffer), voiceAge)
    BY LatestFacts DEF LatestAudio, TranscriberTypeOK, AudioTypeOK
  <2>2. Extent(Len(buffer), voiceAge) \in 0 .. window_seconds
    BY ExtentType DEF TranscriberTypeOK, AudioTypeOK
  <2>3. /\ audio \in Seq(Sounds)
        /\ \A i \in 1 .. Len(audio) :
              \E j \in 1 .. Len(buffer) : audio[i] = buffer[j]
    BY LatestFacts DEF LatestAudio, TranscriberTypeOK, AudioTypeOK
  <2> QED
    BY <2>1, <2>2, <2>3 DEF Reach
<1>2. NoPass \in [words : Text, butLast : Text, progress : 0 .. window_seconds,
                  recent : BOOLEAN]
  BY DurationAssumption DEF NoPass, Text
<1> HIDE DEF audio
<1>3. CASE ~HasRecentVoice \/ WordsOf(audio) = {}
  <2>1. Capture(audio) = NoPass
    BY <1>3 DEF Capture
  <2> QED
    BY <1>1, <1>2, <2>1 DEF NoPass, audio
<1>4. CASE HasRecentVoice /\ WordsOf(audio) # {}
  <2>1. Capture(audio) = [words |-> WordsOf(audio), butLast |-> WordsOf(before),
                          progress |-> Len(audio), recent |-> TRUE]
    BY <1>4 DEF Capture
  <2>2. LastWord(audio) \in 1 .. Len(audio)
    BY <1>1, <1>4, LastWordFacts
  <2>3. /\ before \in Seq(Sounds)
        /\ \A i \in 1 .. Len(before) : before[i] # "stalled"
    <3>1. /\ LastWord(audio) - 1 \in Int /\ LastWord(audio) - 1 <= Len(audio)
          /\ 1 \in Int
      BY <1>1, <2>2
    <3>2. /\ before \in Seq(Sounds)
          /\ Len(before) = LastWord(audio) - 1
          /\ \A i \in 1 .. Len(before) : before[i] = audio[1 + i - 1]
      BY <1>1, <2>2, <3>1, WindowFacts
    <3> QED
      BY <1>1, <2>2, <3>2
  <2> HIDE DEF before
  <2>4. /\ WordsOf(audio) \in Text /\ WordsOf(before) \in Text
        /\ "stalled" \notin WordsOf(audio) /\ "stalled" \notin WordsOf(before)
    BY <1>1, <2>3, WordsFacts
  <2> QED
    BY <1>1, <2>1, <2>4 DEF audio
<1> QED
  BY <1>3, <1>4 DEF audio

-----------------------------------------------------------------------------
(* The invariant.                                                          *)

LEMMA TranscriberInit == Init => TranscriberInv
<1> SUFFICES ASSUME Init
             PROVE  TranscriberInv
  OBVIOUS
<1> USE DurationAssumption DEF Init
<1>1. TranscriberTypeOK
  <2>1. LoopTypeOK
    BY DEF LoopTypeOK, NoPass, Text
  <2>2. AudioTypeOK
    BY DEF AudioTypeOK, Never
  <2>3. StreamTypeOK /\ OperatorTypeOK
    BY DEF StreamTypeOK, OperatorTypeOK
  <2>4. TextTypeOK
    BY DEF TextTypeOK, NoEdge, Text
  <2>5. FlagTypeOK
    BY DEF FlagTypeOK
  <2> QED
    BY <2>1, <2>2, <2>3, <2>4, <2>5 DEF TranscriberTypeOK
<1>2. ControlInv /\ StreamInv /\ PrivateAudioDiscarded
  BY DEF ControlInv, StreamInv, OneStream, Running, PrivateAudioDiscarded
<1>3. ReplayInv /\ EdgeInv
  BY DEF ReplayInv, EdgeInv, NoReplayAfterRecovery, NoPass, NoEdge
<1> QED
  BY <1>1, <1>2, <1>3 DEF TranscriberInv

(* What the audio thread and the clock may do to the rolling audio.        *)
LEMMA KeptFacts ==
    ASSUME NEW audio \in Seq(Sounds), Len(audio) <= buffer_seconds,
           NEW heard \in Sounds
    PROVE  LET longer == Kept(Append(audio, heard)) IN
           /\ longer \in Seq(Sounds) /\ Len(longer) <= buffer_seconds
           /\ Len(longer) \in {Len(audio), Len(audio) + 1}
           /\ \A i \in 1 .. Len(longer) :
                 \/ longer[i] = heard
                 \/ \E j \in 1 .. Len(audio) : longer[i] = audio[j]
<1> DEFINE more == Append(audio, heard)
<1>1. /\ more \in Seq(Sounds) /\ Len(more) = Len(audio) + 1 /\ more # <<>>
      /\ \A i \in 1 .. Len(more) :
            more[i] = heard \/ \E j \in 1 .. Len(audio) : more[i] = audio[j]
  BY DEF Sounds
<1> HIDE DEF more
<1>2. CASE Len(more) > buffer_seconds
  <2>1. /\ Tail(more) \in Seq(Sounds) /\ Len(Tail(more)) = Len(audio)
        /\ \A i \in 1 .. Len(Tail(more)) :
              i + 1 \in 1 .. Len(more) /\ Tail(more)[i] = more[i + 1]
    BY <1>1
  <2>2. Kept(more) = Tail(more)
    BY <1>2 DEF Kept
  <2> HIDE DEF Kept
  <2> QED
    BY <1>1, <2>1, <2>2 DEF more
<1>3. CASE Len(more) <= buffer_seconds
  <2>1. Kept(more) = more
    BY <1>1, <1>3, DurationAssumption DEF Kept
  <2> QED
    BY <1>1, <1>3, <2>1 DEF more
<1> QED
  BY <1>1, <1>2, <1>3, DurationAssumption

(* Silence does not make the window grow.                                  *)
LEMMA SilenceFacts ==
    ASSUME NEW length \in Nat, NEW longer \in {length, length + 1},
           NEW age \in 0 .. Never
    PROVE  /\ Extent(longer, Older(age, Never)) <= Extent(length, age)
           /\ Older(age, Never) \in 0 .. Never
  BY DurationAssumption DEF Extent, Older, Never

LEMMA OlderFacts ==
    ASSUME NEW oldest \in Nat, NEW age \in 0 .. oldest
    PROVE  Older(age, oldest) \in 0 .. oldest
  BY DEF Older

(* What the guard needs of a step that leaves the pass and it alone.       *)
LEMMA EdgeKept ==
    ASSUME EdgeInv, UNCHANGED <<executor, captured, guard>>,
           newVoice => newVoice', newVoice' \in BOOLEAN, newVoice \in BOOLEAN,
           ~newVoice' => Reach' <= Reach,
           Reach \in Nat, Reach' \in Nat,
           captured.progress \in Nat, guard.progress \in Nat
    PROVE  EdgeInv'
  BY DEF EdgeInv

LEMMA TickStep ==
    ASSUME TranscriberInv, Tick
    PROVE  TranscriberInv'
<1> USE DEF TranscriberInv
<1>1. /\ buffer' \in Seq(Sounds) /\ Len(buffer') <= buffer_seconds
      /\ voiceAge' \in 0 .. Never /\ newVoice' \in BOOLEAN
      /\ callbackAge' \in 0 .. stall_seconds
      /\ newVoice => newVoice'
      /\ ~newVoice' => Extent(Len(buffer'), voiceAge') <= Extent(Len(buffer), voiceAge)
      /\ \A i \in 1 .. Len(buffer') : buffer'[i] # "stalled"
      /\ PrivateAudioDiscarded'
  <2>0. /\ buffer \in Seq(Sounds) /\ Len(buffer) <= buffer_seconds
        /\ voiceAge \in 0 .. Never /\ callbackAge \in 0 .. stall_seconds
        /\ newVoice \in BOOLEAN /\ Len(buffer) \in Nat
        /\ Never \in Nat /\ stall_seconds \in Nat /\ 0 \in 0 .. Never
        /\ blanked' = blanked /\ resuming' = resuming
    BY DurationAssumption DEF TranscriberTypeOK, AudioTypeOK, FlagTypeOK, Never, Tick
  <2>1. ASSUME NEW sound \in {"silence", "noise", "word"}, AudioCallback(sound)
        PROVE  <1>1!:
    <3> DEFINE heard == IF sound = "word" THEN IF blanked THEN "private" ELSE "open"
                        ELSE sound
    <3>1. /\ heard \in Sounds /\ heard # "stalled"
          /\ heard = "private" => blanked
      BY DEF Sounds, Origins
    <3>2. /\ buffer' = Kept(Append(buffer, heard))
          /\ voiceAge' = IF heard = "silence" THEN Older(voiceAge, Never) ELSE 0
          /\ newVoice' = (newVoice \/ heard # "silence")
          /\ callbackAge' = 0
      BY <2>1 DEF AudioCallback
    <3> HIDE DEF heard
    <3>3. /\ buffer' \in Seq(Sounds) /\ Len(buffer') <= buffer_seconds
          /\ Len(buffer') \in {Len(buffer), Len(buffer) + 1}
          /\ \A i \in 1 .. Len(buffer') :
                \/ buffer'[i] = heard
                \/ \E j \in 1 .. Len(buffer) : buffer'[i] = buffer[j]
      BY <2>0, <3>1, <3>2, KeptFacts
    <3>4. /\ Older(voiceAge, Never) \in 0 .. Never
          /\ Extent(Len(buffer'), Older(voiceAge, Never))
               <= Extent(Len(buffer), voiceAge)
      BY <2>0, <3>3, SilenceFacts
    <3>5. \A i \in 1 .. Len(buffer') : buffer'[i] # "stalled"
      BY <3>1, <3>3 DEF ReplayInv
    <3>6. PrivateAudioDiscarded'
      BY <2>0, <3>1, <3>3 DEF PrivateAudioDiscarded
    <3>7. newVoice' \in BOOLEAN /\ (newVoice => newVoice')
          /\ (~newVoice' => heard = "silence")
      BY <3>2, <2>0
    <3> QED
      BY <2>0, <3>2, <3>3, <3>4, <3>5, <3>6, <3>7
  <2>2. ASSUME voiceAge' = Older(voiceAge, Never),
               callbackAge' = Older(callbackAge, stall_seconds),
               UNCHANGED <<buffer, newVoice>>
        PROVE  <1>1!:
    <3>1. /\ voiceAge' \in 0 .. Never
          /\ Extent(Len(buffer), Older(voiceAge, Never))
               <= Extent(Len(buffer), voiceAge)
      BY <2>0, <2>2, SilenceFacts
    <3>2. callbackAge' \in 0 .. stall_seconds
      BY <2>0, <2>2, OlderFacts
    <3>3. /\ \A i \in 1 .. Len(buffer) : buffer[i] # "stalled"
          /\ PrivateAudioDiscarded'
      BY <2>0, <2>2 DEF ReplayInv, PrivateAudioDiscarded
    <3> QED
      BY <2>0, <2>2, <3>1, <3>2, <3>3
  <2> QED
    BY <2>1, <2>2 DEF Tick
<1>2. /\ UNCHANGED <<loop, executor, captured, failures, held, opened, delivering,
                     pending, candidate, stable, guard, blanked, resuming, shown>>
      /\ attemptAge' = Older(attemptAge, max_cooldown) /\ due' = TRUE
      /\ ignoring' = IF ignoring = 0 THEN 0 ELSE ignoring - 1
  BY DEF Tick, textVars
<1>3. TranscriberTypeOK'
  <2>1. LoopTypeOK' /\ AudioTypeOK' /\ TextTypeOK'
    BY <1>1, <1>2 DEF TranscriberTypeOK, LoopTypeOK, AudioTypeOK, TextTypeOK
  <2>2. StreamTypeOK'
    BY <1>2, OlderFacts, DurationAssumption DEF TranscriberTypeOK, StreamTypeOK
  <2>3. OperatorTypeOK'
    BY <1>2, DurationAssumption DEF TranscriberTypeOK, OperatorTypeOK
  <2>4. FlagTypeOK'
    BY <1>1, <1>2 DEF TranscriberTypeOK, FlagTypeOK
  <2> QED
    BY <2>1, <2>2, <2>3, <2>4 DEF TranscriberTypeOK
<1>4. ControlInv' /\ StreamInv'
  BY <1>2 DEF ControlInv, StreamInv, OneStream, Running
<1>5. ReplayInv'
  BY <1>1, <1>2 DEF ReplayInv, NoReplayAfterRecovery, Running
<1>6. EdgeInv'
  <2>1. /\ Reach = Extent(Len(buffer), voiceAge)
        /\ Reach \in 0 .. window_seconds
    BY LatestFacts, ExtentType
    DEF TranscriberTypeOK, AudioTypeOK, Reach, LatestAudio
  <2>2. /\ Reach' = Extent(Len(buffer'), voiceAge')
        /\ Reach' \in 0 .. window_seconds
    BY <1>1, LatestFacts, ExtentType DEF Reach, LatestAudio
  <2>3. Reach \in Nat /\ Reach' \in Nat
    BY <2>1, <2>2, DurationAssumption
  <2>4. /\ captured.progress \in Nat /\ guard.progress \in Nat
        /\ newVoice \in BOOLEAN
    BY DurationAssumption DEF TranscriberTypeOK, LoopTypeOK, FlagTypeOK,
       TextTypeOK
  <2> QED
    BY <1>1, <1>2, <2>1, <2>2, <2>3, <2>4, EdgeKept
<1> QED
  BY <1>1, <1>3, <1>4, <1>5, <1>6

(* A step that starts no pass and hears nothing.                           *)
LEMMA EdgeQuiet ==
    ASSUME EdgeInv, UNCHANGED <<buffer, voiceAge, captured, guard, newVoice>>,
           executor' = "transcribing" => executor = "transcribing"
    PROVE  EdgeInv'
<1>1. Reach' = Reach
  BY DEF Reach, LatestAudio
<1> QED
  BY <1>1 DEF EdgeInv

(* A step that forgets the audio and the withheld word.                    *)
LEMMA EdgeReset ==
    ASSUME TranscriberTypeOK, buffer' = <<>>, voiceAge' = Never, guard' = NoEdge,
           UNCHANGED captured
    PROVE  EdgeInv'
<1>1. Reach' = 0
  BY DEF Reach, LatestAudio, SpeechBounded
<1>2. captured'.progress \in Nat
  BY DurationAssumption DEF TranscriberTypeOK, LoopTypeOK
<1> QED
  BY <1>1, <1>2 DEF EdgeInv, NoEdge

LEMMA NoEdgeType ==
    /\ NoEdge \in [word : {"none", "candidate", "confirmed"},
                   progress : 0 .. window_seconds, heard : BOOLEAN]
    /\ NoPass \in [words : Text, butLast : Text, progress : 0 .. window_seconds,
                   recent : BOOLEAN]
  BY DurationAssumption DEF NoEdge, NoPass, Text

LEMMA NeverType == Never \in Nat /\ {} \in Text
  BY DurationAssumption DEF Never, Text

(* The transcriber's own steps.                                            *)
LEMMA StartStreamStep ==
    ASSUME TranscriberInv, StartStream
    PROVE  TranscriberInv'
<1> USE DEF TranscriberInv
<1>1. /\ loop = "starting" /\ executor = "idle" /\ opened = 0 /\ ~held
  BY DEF StartStream, ControlInv, StreamInv, Running, TranscriberTypeOK,
     StreamTypeOK, FlagTypeOK
<1>2. /\ \/ /\ loop' = "waiting" /\ executor' = "loading"
            /\ opened' = 1 /\ held' = TRUE /\ delivering' = TRUE
         \/ /\ loop' = "ended" /\ executor' = "idle"
            /\ UNCHANGED <<opened, held, delivering>>
      /\ callbackAge' = 0
      /\ UNCHANGED <<captured, due, buffer, voiceAge, attemptAge, failures,
                     pending, candidate, stable, guard, newVoice, blanked,
                     resuming, ignoring, shown>>
  BY <1>1 DEF StartStream, OpenStream, textVars, operatorVars
<1>3. TranscriberTypeOK'
  <2>1. LoopTypeOK'
    BY <1>1, <1>2 DEF TranscriberTypeOK, LoopTypeOK
  <2>2. AudioTypeOK'
    BY <1>1, <1>2, DurationAssumption DEF TranscriberTypeOK, AudioTypeOK
  <2>3. StreamTypeOK'
    BY <1>1, <1>2 DEF TranscriberTypeOK, StreamTypeOK
  <2>4. TextTypeOK'
    BY <1>1, <1>2 DEF TranscriberTypeOK, TextTypeOK
  <2>5. OperatorTypeOK'
    BY <1>1, <1>2 DEF TranscriberTypeOK, OperatorTypeOK
  <2>6. FlagTypeOK'
    BY <1>1, <1>2 DEF TranscriberTypeOK, FlagTypeOK
  <2> QED
    BY <2>1, <2>2, <2>3, <2>4, <2>5, <2>6 DEF TranscriberTypeOK
<1>4. ControlInv'
  BY <1>1, <1>2 DEF ControlInv, Running
<1>5. StreamInv'
  BY <1>1, <1>2 DEF StreamInv, OneStream, Running
<1>6. PrivateAudioDiscarded' /\ ReplayInv'
  BY <1>1, <1>2 DEF PrivateAudioDiscarded, ReplayInv, NoReplayAfterRecovery,
     Running
<1>7. EdgeInv'
  BY <1>2, EdgeQuiet
<1> QED
  BY <1>3, <1>4, <1>5, <1>6, <1>7

LEMMA LoadModelStep ==
    ASSUME TranscriberInv, LoadModel
    PROVE  TranscriberInv'
<1> USE DEF TranscriberInv
<1>1. /\ executor = "loading" /\ executor' = "idle" /\ due' = FALSE
      /\ \/ Running /\ loop' = "sleeping" /\ UNCHANGED <<held, opened>>
         \/ ~Running /\ loop' = loop /\ UNCHANGED <<held, opened>>
         \/ /\ Running /\ loop' = "ended" /\ held' = FALSE
            /\ opened' = IF held THEN opened - 1 ELSE opened
      /\ UNCHANGED <<captured, buffer, voiceAge, callbackAge, attemptAge,
                     failures, delivering, pending, candidate, stable, guard,
                     newVoice, blanked, resuming, ignoring, shown>>
  BY DEF LoadModel, CloseStream, audioVars, textVars, operatorVars
<1>2. captured = NoPass /\ (Running => loop = "waiting") /\ stable # stability_passes
  BY <1>1 DEF ControlInv, Running
<1>3. TranscriberTypeOK'
  <2>1. LoopTypeOK'
    BY <1>1 DEF TranscriberTypeOK, LoopTypeOK
  <2>2. AudioTypeOK'
    BY <1>1 DEF TranscriberTypeOK, AudioTypeOK
  <2>3. StreamTypeOK'
    BY <1>1 DEF TranscriberTypeOK, StreamTypeOK, StreamInv
  <2>4. TextTypeOK'
    BY <1>1 DEF TranscriberTypeOK, TextTypeOK
  <2>5. OperatorTypeOK'
    BY <1>1 DEF TranscriberTypeOK, OperatorTypeOK
  <2>6. FlagTypeOK'
    BY <1>1 DEF TranscriberTypeOK, FlagTypeOK
  <2> QED
    BY <2>1, <2>2, <2>3, <2>4, <2>5, <2>6 DEF TranscriberTypeOK
<1>4. ControlInv'
  BY <1>1, <1>2 DEF ControlInv, Running
<1>5. StreamInv'
  BY <1>1, <1>2 DEF StreamInv, OneStream, Running, TranscriberTypeOK,
     StreamTypeOK, FlagTypeOK
<1>6. PrivateAudioDiscarded' /\ ReplayInv'
  BY <1>1, <1>2 DEF PrivateAudioDiscarded, ReplayInv, NoReplayAfterRecovery,
     Running
<1>7. EdgeInv'
  BY <1>1, EdgeQuiet
<1> QED
  BY <1>3, <1>4, <1>5, <1>6, <1>7

LEMMA AbortStep ==
    ASSUME TranscriberInv, AbortStalledStream
    PROVE  TranscriberInv'
<1> USE DEF TranscriberInv
<1>1. /\ loop = "sleeping" /\ loop' = "waiting" /\ executor' = "opening"
      /\ attemptAge' = 0 /\ voiceAge' = Never /\ candidate' = {} /\ stable' = 0
      /\ guard' = NoEdge /\ pending' = Stalled(pending)
      /\ held' = FALSE /\ opened' = IF held THEN opened - 1 ELSE opened
      /\ UNCHANGED <<captured, due, callbackAge, failures, delivering, newVoice,
                     blanked, resuming, ignoring, shown>>
  BY DEF AbortStalledStream, CloseStream, operatorVars
<1>2. buffer' = <<>>
  BY DEF AbortStalledStream, Emptied
<1>3. executor = "idle" /\ captured = NoPass /\ opened' = 0
  BY <1>1 DEF ControlInv, StreamInv, OneStream, Running, TranscriberTypeOK,
     StreamTypeOK, FlagTypeOK
<1>4. TranscriberTypeOK'
  <2>0. Stalled(pending) \in Text
    BY DEF Stalled, Text, Origins
  <2>1. LoopTypeOK'
    BY <1>1 DEF TranscriberTypeOK, LoopTypeOK
  <2>2. AudioTypeOK'
    BY <1>1, <1>2, NeverType, DurationAssumption DEF TranscriberTypeOK, AudioTypeOK
  <2>3. StreamTypeOK'
    BY <1>1, <1>3, DurationAssumption DEF TranscriberTypeOK, StreamTypeOK
  <2>4. TextTypeOK'
    BY <1>1, <2>0, NeverType, NoEdgeType, DurationAssumption DEF TranscriberTypeOK, TextTypeOK
  <2>5. OperatorTypeOK'
    BY <1>1 DEF TranscriberTypeOK, OperatorTypeOK
  <2>6. FlagTypeOK'
    BY <1>1 DEF TranscriberTypeOK, FlagTypeOK
  <2> QED
    BY <2>1, <2>2, <2>3, <2>4, <2>5, <2>6 DEF TranscriberTypeOK
<1>5. ControlInv'
  BY <1>1, <1>3, DurationAssumption DEF ControlInv, Running
<1>6. StreamInv' /\ PrivateAudioDiscarded'
  BY <1>1, <1>2, <1>3 DEF StreamInv, OneStream, PrivateAudioDiscarded
<1>7. ReplayInv'
  BY <1>1, <1>2, <1>3 DEF ReplayInv, NoReplayAfterRecovery, NoPass
<1>8. EdgeInv'
  BY <1>1, <1>2, EdgeReset
<1> QED
  BY <1>4, <1>5, <1>6, <1>7, <1>8

LEMMA ReopenStep ==
    ASSUME TranscriberInv, NEW opens \in BOOLEAN, Reopen(opens)
    PROVE  TranscriberInv'
<1> USE DEF TranscriberInv
<1>1. /\ executor = "opening" /\ executor' = "idle" /\ callbackAge' = 0
      /\ \/ opened' = opened + 1 /\ held' = TRUE /\ delivering' = TRUE
         \/ UNCHANGED <<opened, held, delivering>>
      /\ failures' = 0 \/ failures' = Smaller(failures + 1, MaxFailures)
      /\ \/ Running /\ loop' = "sleeping" /\ pending' = {} /\ due' = FALSE
         \/ ~Running /\ UNCHANGED <<loop, pending, due>>
      /\ UNCHANGED <<captured, buffer, voiceAge, attemptAge, candidate, stable,
                     guard, newVoice, blanked, resuming, ignoring, shown>>
  BY DEF Reopen, OpenStream, operatorVars
<1>2. /\ captured = NoPass /\ (Running => loop = "waiting")
      /\ stable # stability_passes /\ opened = 0 /\ ~held
  BY <1>1 DEF ControlInv, StreamInv, Running, TranscriberTypeOK,
     StreamTypeOK, FlagTypeOK
<1>3. TranscriberTypeOK'
  <2>0. failures' \in 0 .. MaxFailures
    BY <1>1, DurationAssumption DEF Smaller, TranscriberTypeOK, StreamTypeOK
  <2>1. LoopTypeOK'
    BY <1>1 DEF TranscriberTypeOK, LoopTypeOK
  <2>2. AudioTypeOK'
    BY <1>1, DurationAssumption DEF TranscriberTypeOK, AudioTypeOK
  <2>3. StreamTypeOK'
    BY <1>1, <1>2, <2>0 DEF TranscriberTypeOK, StreamTypeOK
  <2>4. TextTypeOK'
    BY <1>1, NeverType DEF TranscriberTypeOK, TextTypeOK
  <2>5. OperatorTypeOK'
    BY <1>1 DEF TranscriberTypeOK, OperatorTypeOK
  <2>6. FlagTypeOK'
    BY <1>1 DEF TranscriberTypeOK, FlagTypeOK
  <2> QED
    BY <2>1, <2>2, <2>3, <2>4, <2>5, <2>6 DEF TranscriberTypeOK
<1>4. ControlInv'
  BY <1>1, <1>2 DEF ControlInv, Running
<1>5. StreamInv'
  BY <1>1, <1>2 DEF StreamInv, OneStream, Running
<1>6. PrivateAudioDiscarded' /\ ReplayInv'
  BY <1>1, <1>2 DEF PrivateAudioDiscarded, ReplayInv, NoReplayAfterRecovery,
     Running
<1>7. EdgeInv'
  BY <1>1, EdgeQuiet
<1> QED
  BY <1>3, <1>4, <1>5, <1>6, <1>7

LEMMA StartPassStep ==
    ASSUME TranscriberInv, StartPass
    PROVE  TranscriberInv'
<1> USE DEF TranscriberInv
<1>1. /\ loop = "sleeping" /\ loop' = "waiting" /\ executor' = "transcribing"
      /\ captured' = Capture(LatestAudio)
      /\ guard' = [guard EXCEPT !.heard = guard.word # "none" /\ (@ \/ newVoice)]
      /\ newVoice' = FALSE /\ due' = FALSE
      /\ UNCHANGED <<buffer, voiceAge, callbackAge, attemptAge, failures, held,
                     opened, delivering, pending, candidate, stable, blanked,
                     resuming, ignoring, shown>>
  BY DEF StartPass, audioVars, streamVars, textVars, operatorVars
<1>2. executor = "idle" /\ stable # stability_passes /\ Running
  BY <1>1 DEF ControlInv, Running, TranscriberTypeOK, LoopTypeOK
<1>3. /\ captured' \in [words : Text, butLast : Text,
                        progress : 0 .. window_seconds, recent : BOOLEAN]
      /\ "stalled" \notin captured'.words \union captured'.butLast
      /\ captured'.progress <= Reach
      /\ captured'.recent => captured'.progress = Reach
  BY <1>1, CaptureFacts DEF ReplayInv
<1>4. TranscriberTypeOK'
  <2>1. LoopTypeOK'
    BY <1>1, <1>3 DEF TranscriberTypeOK, LoopTypeOK
  <2>2. AudioTypeOK'
    BY <1>1 DEF TranscriberTypeOK, AudioTypeOK
  <2>3. StreamTypeOK'
    BY <1>1 DEF TranscriberTypeOK, StreamTypeOK
  <2>4. TextTypeOK'
    BY <1>1 DEF TranscriberTypeOK, TextTypeOK
  <2>5. OperatorTypeOK'
    BY <1>1 DEF TranscriberTypeOK, OperatorTypeOK
  <2>6. FlagTypeOK'
    BY <1>1 DEF TranscriberTypeOK, FlagTypeOK
  <2> QED
    BY <2>1, <2>2, <2>3, <2>4, <2>5, <2>6 DEF TranscriberTypeOK
<1>5. ControlInv' /\ StreamInv'
  BY <1>1, <1>2 DEF ControlInv, StreamInv, OneStream, Running
<1>6. PrivateAudioDiscarded' /\ ReplayInv'
  BY <1>1, <1>2, <1>3 DEF PrivateAudioDiscarded, ReplayInv, Running,
     NoReplayAfterRecovery
<1>7. EdgeInv'
  <2>1. Reach' = Reach /\ Reach \in 0 .. window_seconds
    <3>1. buffer \in Seq(Sounds) /\ voiceAge \in 0 .. Never /\ Len(buffer) \in Nat
      BY DEF TranscriberTypeOK, AudioTypeOK
    <3>2. Reach \in 0 .. window_seconds
      BY <3>1, LatestFacts, ExtentType DEF Reach, LatestAudio
    <3>3. Reach' = Reach
      BY <1>1 DEF Reach, LatestAudio
    <3> QED
      BY <3>2, <3>3
  <2>2. captured'.recent => Reach' <= captured'.progress
    BY <1>3, <2>1, DurationAssumption
  <2>3. guard'.word = guard.word /\ guard'.progress = guard.progress
    BY <1>1 DEF TranscriberTypeOK, TextTypeOK
  <2>4. guard.word = "candidate" => guard'.heard = (guard.heard \/ newVoice)
    BY <1>1 DEF TranscriberTypeOK, TextTypeOK
  <2>5. ASSUME guard'.word = "candidate", ~guard'.heard
        PROVE  Reach' <= guard'.progress /\ captured'.progress <= guard'.progress
    <3>1. Reach <= guard.progress
      BY <2>3, <2>4, <2>5 DEF EdgeInv
    <3>2. /\ Reach \in Int /\ guard.progress \in Int /\ captured'.progress \in Int
      BY <1>3, <2>1, DurationAssumption DEF TranscriberTypeOK, TextTypeOK
    <3> QED
      BY <1>3, <2>1, <2>3, <3>1, <3>2
  <2> QED
    BY <2>2, <2>5 DEF EdgeInv
<1> QED
  BY <1>4, <1>5, <1>6, <1>7

(* What a finished pass leaves of the words it was given, and of the       *)
(* withheld one.                                                           *)
LEMMA PassFacts ==
    ASSUME NEW text \in Text, Transcribed(text)
    PROVE  /\ text \in {{}, captured.words, captured.butLast}
           /\ \/ guard' \in {guard, NoEdge}
              \/ /\ guard' = [guard EXCEPT !.word = "confirmed"]
                 /\ guard.word = "candidate" => captured.progress > guard.progress
              \/ /\ captured.recent
                 /\ guard' = [word |-> "candidate", progress |-> captured.progress,
                              heard |-> FALSE]
<1>1. CASE Rejected(text)
  BY <1>1 DEF Rejected, Unreliable
<1>2. CASE ~Suppressed /\ Guarded(text)
  <2>1. PICK weak \in BOOLEAN, same \in BOOLEAN :
            \/ ReleasedEdge(weak, same) /\ text = captured.words
            \/ WithheldEdge(weak, same) /\ text = captured.butLast
    BY <1>2 DEF Guarded
  <2>2. captured.recent
    BY <1>2 DEF Suppressed
  <2>3. CASE ReleasedEdge(weak, same) /\ text = captured.words
    BY <2>3 DEF ReleasedEdge
  <2>4. CASE WithheldEdge(weak, same) /\ text = captured.butLast
    BY <2>2, <2>4 DEF WithheldEdge
  <2> QED
    BY <2>1, <2>3, <2>4
<1> QED
  BY <1>1, <1>2 DEF Transcribed

LEMMA FinishPassStep ==
    ASSUME TranscriberInv, FinishPass
    PROVE  TranscriberInv'
<1> USE DEF TranscriberInv
<1>1. /\ executor = "transcribing" /\ executor' = "idle" /\ captured' = NoPass
      /\ UNCHANGED <<due, buffer, voiceAge, callbackAge, attemptAge, failures,
                     held, opened, delivering, candidate, stable, newVoice,
                     blanked, resuming, ignoring, shown>>
  BY DEF FinishPass, audioVars, streamVars, operatorVars
<1>2. PICK text \in Text :
        /\ Transcribed(text)
        /\ \/ /\ Running /\ pending' = text
              /\ loop' \in {"partial", "checking"}
           \/ Running /\ pending' = pending /\ loop' = "checking"
           \/ ~Running /\ pending' = pending /\ loop' = loop
  BY DEF FinishPass
<1>3. /\ text \in {{}, captured.words, captured.butLast}
      /\ \/ guard' \in {guard, NoEdge}
         \/ /\ guard' = [guard EXCEPT !.word = "confirmed"]
            /\ guard.word = "candidate" => captured.progress > guard.progress
         \/ /\ captured.recent
            /\ guard' = [word |-> "candidate", progress |-> captured.progress,
                         heard |-> FALSE]
  BY <1>2, PassFacts
<1>4. stable # stability_passes /\ (Running => loop = "waiting")
  BY <1>1 DEF ControlInv, Running
<1>5. TranscriberTypeOK'
  <2>0. guard' \in [word : {"none", "candidate", "confirmed"},
                    progress : 0 .. window_seconds, heard : BOOLEAN]
    <3>1. CASE guard' \in {guard, NoEdge}
      BY <3>1, NoEdgeType DEF TranscriberTypeOK, TextTypeOK
    <3>2. CASE guard' = [guard EXCEPT !.word = "confirmed"]
      BY <3>2 DEF TranscriberTypeOK, TextTypeOK
    <3>3. CASE guard' = [word |-> "candidate", progress |-> captured.progress,
                         heard |-> FALSE]
      <4>1. captured.progress \in 0 .. window_seconds
        BY DEF TranscriberTypeOK, LoopTypeOK
      <4> QED
        BY <3>3, <4>1
    <3> QED
      BY <1>3, <3>1, <3>2, <3>3
  <2>1. LoopTypeOK'
    BY <1>1, <1>2, NoEdgeType DEF TranscriberTypeOK, LoopTypeOK
  <2>2. AudioTypeOK'
    BY <1>1 DEF TranscriberTypeOK, AudioTypeOK
  <2>3. StreamTypeOK'
    BY <1>1 DEF TranscriberTypeOK, StreamTypeOK
  <2>4. TextTypeOK'
    BY <1>1, <1>2, <2>0 DEF TranscriberTypeOK, TextTypeOK
  <2>5. OperatorTypeOK'
    BY <1>1 DEF TranscriberTypeOK, OperatorTypeOK
  <2>6. FlagTypeOK'
    BY <1>1 DEF TranscriberTypeOK, FlagTypeOK
  <2> QED
    BY <2>1, <2>2, <2>3, <2>4, <2>5, <2>6 DEF TranscriberTypeOK
<1>6. ControlInv' /\ StreamInv'
  BY <1>1, <1>2, <1>4 DEF ControlInv, StreamInv, OneStream, Running
<1>7. PrivateAudioDiscarded' /\ ReplayInv'
  <2>1. "stalled" \notin text
    BY <1>3 DEF ReplayInv
  <2> QED
    BY <1>1, <1>2, <1>4, <2>1 DEF PrivateAudioDiscarded, ReplayInv, Running,
       NoReplayAfterRecovery, NoPass
<1>8. EdgeInv'
  <2>1. Reach' = Reach
    BY <1>1 DEF Reach, LatestAudio
  <2>2. CASE guard' = guard
    BY <1>1, <2>1, <2>2 DEF EdgeInv
  <2>3. CASE guard' = NoEdge
    BY <1>1, <2>3 DEF EdgeInv, NoEdge
  <2>4. CASE guard' = [guard EXCEPT !.word = "confirmed"]
    <3>1. guard'.word = "confirmed"
      BY <2>4 DEF TranscriberTypeOK, TextTypeOK
    <3> QED
      BY <1>1, <3>1 DEF EdgeInv
  <2>5. CASE /\ captured.recent
             /\ guard' = [word |-> "candidate", progress |-> captured.progress,
                          heard |-> FALSE]
    BY <1>1, <2>1, <2>5 DEF EdgeInv
  <2> QED
    BY <1>3, <2>2, <2>3, <2>4, <2>5
<1> QED
  BY <1>5, <1>6, <1>7, <1>8

LEMMA YieldPartialStep ==
    ASSUME TranscriberInv, YieldPartial
    PROVE  TranscriberInv'
<1> USE DEF TranscriberInv
<1>1. /\ loop = "partial" /\ loop' = "checking"
      /\ shown' \in {shown, shown \union (pending \ {"open"})}
      /\ UNCHANGED <<executor, captured, due, buffer, voiceAge, callbackAge,
                     attemptAge, failures, held, opened, delivering, pending,
                     candidate, stable, guard, newVoice, blanked, resuming,
                     ignoring>>
  BY DEF YieldPartial, Publish, audioVars, streamVars, textVars, operatorVars
<1>2. executor = "idle" /\ stable # stability_passes /\ "stalled" \notin pending
  BY <1>1 DEF ControlInv, ReplayInv, Running, TranscriberTypeOK, LoopTypeOK
<1>3. TranscriberTypeOK'
  <2>0. shown' \in Text
    BY <1>1 DEF TranscriberTypeOK, TextTypeOK, Text
  <2>1. LoopTypeOK'
    BY <1>1 DEF TranscriberTypeOK, LoopTypeOK
  <2>2. AudioTypeOK'
    BY <1>1 DEF TranscriberTypeOK, AudioTypeOK
  <2>3. StreamTypeOK'
    BY <1>1 DEF TranscriberTypeOK, StreamTypeOK
  <2>4. TextTypeOK'
    BY <1>1, <2>0 DEF TranscriberTypeOK, TextTypeOK
  <2>5. OperatorTypeOK'
    BY <1>1 DEF TranscriberTypeOK, OperatorTypeOK
  <2>6. FlagTypeOK'
    BY <1>1 DEF TranscriberTypeOK, FlagTypeOK
  <2> QED
    BY <2>1, <2>2, <2>3, <2>4, <2>5, <2>6 DEF TranscriberTypeOK
<1>4. ControlInv' /\ StreamInv'
  BY <1>1, <1>2 DEF ControlInv, StreamInv, OneStream, Running
<1>5. PrivateAudioDiscarded' /\ ReplayInv'
  BY <1>1, <1>2 DEF PrivateAudioDiscarded, ReplayInv, Running,
     NoReplayAfterRecovery
<1>6. EdgeInv'
  BY <1>1, EdgeQuiet
<1> QED
  BY <1>3, <1>4, <1>5, <1>6

LEMMA CheckFinalStep ==
    ASSUME TranscriberInv, CheckFinal
    PROVE  TranscriberInv'
<1> USE DEF TranscriberInv
<1>1. /\ loop = "checking"
      /\ \/ /\ candidate' \in {candidate, pending} /\ stable' \in {stable + 1, 1}
            /\ loop' = IF stable' >= stability_passes THEN "final" ELSE "sleeping"
         \/ loop' = "sleeping" /\ UNCHANGED <<candidate, stable>>
      /\ UNCHANGED <<executor, captured, due, buffer, voiceAge, callbackAge,
                     attemptAge, failures, held, opened, delivering, pending,
                     guard, newVoice, blanked, resuming, ignoring, shown>>
  BY DEF CheckFinal, Agreement, audioVars, streamVars, operatorVars
<1>2. executor = "idle" /\ stable # stability_passes /\ "stalled" \notin pending
  BY <1>1 DEF ControlInv, ReplayInv, Running, TranscriberTypeOK, LoopTypeOK
<1>3. TranscriberTypeOK'
  <2>1. LoopTypeOK'
    BY <1>1 DEF TranscriberTypeOK, LoopTypeOK
  <2>2. AudioTypeOK'
    BY <1>1 DEF TranscriberTypeOK, AudioTypeOK
  <2>3. StreamTypeOK'
    BY <1>1 DEF TranscriberTypeOK, StreamTypeOK
  <2>4. TextTypeOK'
    BY <1>1, <1>2, DurationAssumption DEF TranscriberTypeOK, TextTypeOK
  <2>5. OperatorTypeOK'
    BY <1>1 DEF TranscriberTypeOK, OperatorTypeOK
  <2>6. FlagTypeOK'
    BY <1>1 DEF TranscriberTypeOK, FlagTypeOK
  <2> QED
    BY <2>1, <2>2, <2>3, <2>4, <2>5, <2>6 DEF TranscriberTypeOK
<1>4. ControlInv' /\ StreamInv'
  <2>1. stable' = stability_passes => loop' = "final"
    BY <1>1, <1>2, DurationAssumption
  <2> QED
    BY <1>1, <1>2, <2>1 DEF ControlInv, StreamInv, OneStream, Running
<1>5. PrivateAudioDiscarded' /\ ReplayInv'
  BY <1>1, <1>2 DEF PrivateAudioDiscarded, ReplayInv, Running,
     NoReplayAfterRecovery
<1>6. EdgeInv'
  BY <1>1, EdgeQuiet
<1> QED
  BY <1>3, <1>4, <1>5, <1>6

LEMMA YieldFinalStep ==
    ASSUME TranscriberInv, YieldFinal
    PROVE  TranscriberInv'
<1> USE DEF TranscriberInv
<1>1. /\ loop = "final" /\ loop' = "sleeping"
      /\ shown' \in {shown, shown \union (candidate \ {"open"})}
      /\ pending' = {} /\ candidate' = {} /\ stable' = 0 /\ guard' = NoEdge
      /\ UNCHANGED <<executor, captured, due, buffer, voiceAge, callbackAge,
                     attemptAge, failures, held, opened, delivering, newVoice,
                     blanked, resuming, ignoring>>
  <2>1. ASSUME NEW text \in Deduplicated(candidate), Publish(text)
        PROVE  shown' \in {shown, shown \union (candidate \ {"open"})}
    BY <2>1 DEF Publish, Deduplicated
  <2> QED
    BY <2>1 DEF YieldFinal, audioVars, streamVars, operatorVars
<1>2. executor = "idle" /\ "stalled" \notin candidate
  BY <1>1 DEF ControlInv, ReplayInv, Running, TranscriberTypeOK, LoopTypeOK
<1>3. TranscriberTypeOK'
  <2>0. shown' \in Text
    BY <1>1 DEF TranscriberTypeOK, TextTypeOK, Text
  <2>1. LoopTypeOK'
    BY <1>1 DEF TranscriberTypeOK, LoopTypeOK
  <2>2. AudioTypeOK'
    BY <1>1 DEF TranscriberTypeOK, AudioTypeOK
  <2>3. StreamTypeOK'
    BY <1>1 DEF TranscriberTypeOK, StreamTypeOK
  <2>4. TextTypeOK'
    BY <1>1, <2>0, NeverType, NoEdgeType, DurationAssumption DEF TranscriberTypeOK, TextTypeOK
  <2>5. OperatorTypeOK'
    BY <1>1 DEF TranscriberTypeOK, OperatorTypeOK
  <2>6. FlagTypeOK'
    BY <1>1 DEF TranscriberTypeOK, FlagTypeOK
  <2> QED
    BY <2>1, <2>2, <2>3, <2>4, <2>5, <2>6 DEF TranscriberTypeOK
<1>4. ControlInv' /\ StreamInv'
  BY <1>1, <1>2, DurationAssumption DEF ControlInv, StreamInv, OneStream, Running
<1>5. PrivateAudioDiscarded' /\ ReplayInv'
  BY <1>1, <1>2 DEF PrivateAudioDiscarded, ReplayInv, Running,
     NoReplayAfterRecovery
<1>6. EdgeInv'
  <2>1. Reach' = Reach
    BY <1>1 DEF Reach, LatestAudio
  <2> QED
    BY <1>1, <1>2, <2>1 DEF EdgeInv, NoEdge
<1> QED
  BY <1>3, <1>4, <1>5, <1>6

(* Requests, each of which forgets the audio, and the devices.             *)
LEMMA BlankStep ==
    ASSUME TranscriberInv, Blank
    PROVE  TranscriberInv'
<1> USE DEF TranscriberInv
<1>1. /\ buffer' = <<>> /\ voiceAge' = Never /\ candidate' = {} /\ stable' = 0
      /\ guard' = NoEdge
      /\ blanked' = TRUE /\ ignoring' = 0
      /\ UNCHANGED <<loop, executor, captured, due, callbackAge, attemptAge,
                     failures, held, opened, delivering, pending, newVoice,
                     resuming, shown>>
  BY DEF Blank, ResetBuffer, Emptied, streamVars
<1>2. TranscriberTypeOK'
  <2>1. LoopTypeOK'
    BY <1>1 DEF TranscriberTypeOK, LoopTypeOK
  <2>2. AudioTypeOK'
    BY <1>1, NeverType, DurationAssumption DEF TranscriberTypeOK, AudioTypeOK
  <2>3. StreamTypeOK'
    BY <1>1 DEF TranscriberTypeOK, StreamTypeOK
  <2>4. TextTypeOK'
    BY <1>1, NeverType, NoEdgeType, DurationAssumption DEF TranscriberTypeOK, TextTypeOK
  <2>5. OperatorTypeOK'
    BY <1>1, DurationAssumption DEF TranscriberTypeOK, OperatorTypeOK
  <2>6. FlagTypeOK'
    BY <1>1 DEF TranscriberTypeOK, FlagTypeOK
  <2> QED
    BY <2>1, <2>2, <2>3, <2>4, <2>5, <2>6 DEF TranscriberTypeOK
<1>3. ControlInv' /\ StreamInv'
  BY <1>1, DurationAssumption DEF ControlInv, StreamInv, OneStream, Running
<1>4. PrivateAudioDiscarded' /\ ReplayInv'
  BY <1>1 DEF PrivateAudioDiscarded, ReplayInv, Running, NoReplayAfterRecovery
<1>5. EdgeInv'
  BY <1>1, EdgeReset
<1> QED
  BY <1>2, <1>3, <1>4, <1>5

LEMMA ResumeResetStep ==
    ASSUME TranscriberInv, ResumeReset
    PROVE  TranscriberInv'
<1> USE DEF TranscriberInv
<1>1. /\ buffer' = <<>> /\ voiceAge' = Never /\ candidate' = {} /\ stable' = 0
      /\ guard' = NoEdge
      /\ resuming' = "reset"
      /\ UNCHANGED <<loop, executor, captured, due, callbackAge, attemptAge,
                     failures, held, opened, delivering, pending, newVoice,
                     blanked, ignoring, shown>>
  BY DEF ResumeReset, ResetBuffer, Emptied, streamVars
<1>2. TranscriberTypeOK'
  <2>1. LoopTypeOK'
    BY <1>1 DEF TranscriberTypeOK, LoopTypeOK
  <2>2. AudioTypeOK'
    BY <1>1, NeverType, DurationAssumption DEF TranscriberTypeOK, AudioTypeOK
  <2>3. StreamTypeOK'
    BY <1>1 DEF TranscriberTypeOK, StreamTypeOK
  <2>4. TextTypeOK'
    BY <1>1, NeverType, NoEdgeType, DurationAssumption DEF TranscriberTypeOK, TextTypeOK
  <2>5. OperatorTypeOK'
    BY <1>1, DurationAssumption DEF TranscriberTypeOK, OperatorTypeOK
  <2>6. FlagTypeOK'
    BY <1>1 DEF TranscriberTypeOK, FlagTypeOK
  <2> QED
    BY <2>1, <2>2, <2>3, <2>4, <2>5, <2>6 DEF TranscriberTypeOK
<1>3. ControlInv' /\ StreamInv'
  BY <1>1, DurationAssumption DEF ControlInv, StreamInv, OneStream, Running
<1>4. PrivateAudioDiscarded' /\ ReplayInv'
  BY <1>1 DEF PrivateAudioDiscarded, ReplayInv, Running, NoReplayAfterRecovery
<1>5. EdgeInv'
  BY <1>1, EdgeReset
<1> QED
  BY <1>2, <1>3, <1>4, <1>5

LEMMA ResumeEndStep ==
    ASSUME TranscriberInv, ResumeEnd
    PROVE  TranscriberInv'
<1> USE DEF TranscriberInv
<1>1. /\ buffer' = <<>> /\ voiceAge' = Never /\ candidate' = {} /\ stable' = 0
      /\ guard' = NoEdge
      /\ resuming' = "no"
      /\ UNCHANGED <<loop, executor, captured, due, callbackAge, attemptAge,
                     failures, held, opened, delivering, pending, newVoice,
                     blanked, ignoring, shown>>
  BY DEF ResumeEnd, ResetBuffer, Emptied, streamVars
<1>2. TranscriberTypeOK'
  <2>1. LoopTypeOK'
    BY <1>1 DEF TranscriberTypeOK, LoopTypeOK
  <2>2. AudioTypeOK'
    BY <1>1, NeverType, DurationAssumption DEF TranscriberTypeOK, AudioTypeOK
  <2>3. StreamTypeOK'
    BY <1>1 DEF TranscriberTypeOK, StreamTypeOK
  <2>4. TextTypeOK'
    BY <1>1, NeverType, NoEdgeType, DurationAssumption DEF TranscriberTypeOK, TextTypeOK
  <2>5. OperatorTypeOK'
    BY <1>1, DurationAssumption DEF TranscriberTypeOK, OperatorTypeOK
  <2>6. FlagTypeOK'
    BY <1>1 DEF TranscriberTypeOK, FlagTypeOK
  <2> QED
    BY <2>1, <2>2, <2>3, <2>4, <2>5, <2>6 DEF TranscriberTypeOK
<1>3. ControlInv' /\ StreamInv'
  BY <1>1, DurationAssumption DEF ControlInv, StreamInv, OneStream, Running
<1>4. PrivateAudioDiscarded' /\ ReplayInv'
  BY <1>1 DEF PrivateAudioDiscarded, ReplayInv, Running, NoReplayAfterRecovery
<1>5. EdgeInv'
  BY <1>1, EdgeReset
<1> QED
  BY <1>2, <1>3, <1>4, <1>5

LEMMA ResumeLiftStep ==
    ASSUME TranscriberInv, ResumeLift
    PROVE  TranscriberInv'
<1> USE DEF TranscriberInv
<1>1. /\ resuming' = "sending" /\ blanked' = FALSE /\ ignoring' = drain_seconds
      /\ UNCHANGED <<loop, executor, captured, due, buffer, voiceAge, callbackAge,
                     attemptAge, failures, held, opened, delivering, pending,
                     candidate, stable, guard, newVoice, shown>>
  BY DEF ResumeLift, audioVars, streamVars, textVars
<1>2. TranscriberTypeOK'
  <2>1. LoopTypeOK'
    BY <1>1 DEF TranscriberTypeOK, LoopTypeOK
  <2>2. AudioTypeOK'
    BY <1>1 DEF TranscriberTypeOK, AudioTypeOK
  <2>3. StreamTypeOK'
    BY <1>1 DEF TranscriberTypeOK, StreamTypeOK
  <2>4. TextTypeOK'
    BY <1>1 DEF TranscriberTypeOK, TextTypeOK
  <2>5. OperatorTypeOK'
    BY <1>1, DurationAssumption DEF TranscriberTypeOK, OperatorTypeOK
  <2>6. FlagTypeOK'
    BY <1>1 DEF TranscriberTypeOK, FlagTypeOK
  <2> QED
    BY <2>1, <2>2, <2>3, <2>4, <2>5, <2>6 DEF TranscriberTypeOK
<1>3. ControlInv' /\ StreamInv'
  BY <1>1 DEF ControlInv, StreamInv, OneStream, Running
<1>4. PrivateAudioDiscarded' /\ ReplayInv'
  BY <1>1 DEF PrivateAudioDiscarded, ReplayInv, Running, NoReplayAfterRecovery
<1>5. EdgeInv'
  BY <1>1, EdgeQuiet
<1> QED
  BY <1>2, <1>3, <1>4, <1>5

LEMMA StopStep ==
    ASSUME TranscriberInv, Awaiting, Stop
    PROVE  TranscriberInv'
<1> USE DEF TranscriberInv
<1>1. /\ loop' = "ended" /\ held' = FALSE /\ loop # "final"
      /\ opened' = IF held THEN opened - 1 ELSE opened
      /\ UNCHANGED <<executor, captured, due, buffer, voiceAge, callbackAge,
                     attemptAge, failures, delivering, pending, candidate, stable,
                     guard, newVoice, blanked, resuming, ignoring, shown>>
  BY DEF Stop, CloseStream, Awaiting, audioVars, textVars, operatorVars
<1>2. opened' \in 0 .. 1 /\ (executor = "opening" => opened' = 0)
  BY <1>1 DEF StreamInv, TranscriberTypeOK, StreamTypeOK
<1>3. TranscriberTypeOK'
  <2>1. LoopTypeOK'
    BY <1>1 DEF TranscriberTypeOK, LoopTypeOK
  <2>2. AudioTypeOK'
    BY <1>1 DEF TranscriberTypeOK, AudioTypeOK
  <2>3. StreamTypeOK'
    BY <1>1, <1>2 DEF TranscriberTypeOK, StreamTypeOK
  <2>4. TextTypeOK'
    BY <1>1 DEF TranscriberTypeOK, TextTypeOK
  <2>5. OperatorTypeOK'
    BY <1>1 DEF TranscriberTypeOK, OperatorTypeOK
  <2>6. FlagTypeOK'
    BY <1>1 DEF TranscriberTypeOK, FlagTypeOK
  <2> QED
    BY <2>1, <2>2, <2>3, <2>4, <2>5, <2>6 DEF TranscriberTypeOK
<1>4. ControlInv' /\ StreamInv'
  BY <1>1, <1>2 DEF ControlInv, StreamInv, OneStream, Running
<1>5. PrivateAudioDiscarded' /\ ReplayInv'
  BY <1>1 DEF PrivateAudioDiscarded, ReplayInv, Running, NoReplayAfterRecovery
<1>6. EdgeInv'
  BY <1>1, EdgeQuiet
<1> QED
  BY <1>3, <1>4, <1>5, <1>6

LEMMA DriverStallsStep ==
    ASSUME TranscriberInv, DriverStalls
    PROVE  TranscriberInv'
<1> USE DEF TranscriberInv
<1>1. /\ delivering' = FALSE
      /\ UNCHANGED <<loop, executor, captured, due, buffer, voiceAge, callbackAge,
                     attemptAge, failures, held, opened, pending, candidate, stable,
                     guard, newVoice, blanked, resuming, ignoring, shown>>
  BY DEF DriverStalls, audioVars, textVars, operatorVars
<1>2. TranscriberTypeOK'
  <2>1. LoopTypeOK'
    BY <1>1 DEF TranscriberTypeOK, LoopTypeOK
  <2>2. AudioTypeOK'
    BY <1>1 DEF TranscriberTypeOK, AudioTypeOK
  <2>3. StreamTypeOK'
    BY <1>1 DEF TranscriberTypeOK, StreamTypeOK
  <2>4. TextTypeOK'
    BY <1>1 DEF TranscriberTypeOK, TextTypeOK
  <2>5. OperatorTypeOK'
    BY <1>1 DEF TranscriberTypeOK, OperatorTypeOK
  <2>6. FlagTypeOK'
    BY <1>1 DEF TranscriberTypeOK, FlagTypeOK
  <2> QED
    BY <2>1, <2>2, <2>3, <2>4, <2>5, <2>6 DEF TranscriberTypeOK
<1>3. ControlInv' /\ StreamInv'
  BY <1>1 DEF ControlInv, StreamInv, OneStream, Running
<1>4. PrivateAudioDiscarded' /\ ReplayInv'
  BY <1>1 DEF PrivateAudioDiscarded, ReplayInv, Running, NoReplayAfterRecovery
<1>5. EdgeInv'
  BY <1>1, EdgeQuiet
<1> QED
  BY <1>2, <1>3, <1>4, <1>5

LEMMA TranscriberStep ==
    TranscriberInv /\ [Next]_vars => TranscriberInv'
<1> SUFFICES ASSUME TranscriberInv, [Next]_vars
             PROVE  TranscriberInv'
  OBVIOUS
<1>1. CASE Tick
  BY <1>1, TickStep
<1>2. CASE Executor
  BY <1>2, LoadModelStep, ReopenStep, FinishPassStep DEF Executor
<1>3. CASE Loop
  BY <1>3, StartStreamStep, AbortStep, StartPassStep, YieldPartialStep,
     CheckFinalStep, YieldFinalStep DEF Loop
<1>4. CASE Requests
  BY <1>4, BlankStep, ResumeResetStep, ResumeLiftStep, ResumeEndStep, StopStep
  DEF Requests
<1>5. CASE DriverStalls
  BY <1>5, DriverStallsStep
<1>6. CASE UNCHANGED vars
  <2>1. UNCHANGED <<loop, executor, captured, due, buffer, voiceAge, callbackAge,
                    attemptAge, failures, held, opened, delivering, pending,
                    candidate, stable, guard, newVoice, blanked, resuming,
                    ignoring, shown>>
    BY <1>6 DEF vars, audioVars, streamVars, textVars, operatorVars
  <2>2. TranscriberTypeOK' /\ ControlInv' /\ StreamInv'
    BY <2>1 DEF TranscriberInv, TranscriberTypeOK, LoopTypeOK, AudioTypeOK,
       StreamTypeOK, TextTypeOK, OperatorTypeOK, FlagTypeOK, ControlInv,
       StreamInv, OneStream, Running
  <2>3. PrivateAudioDiscarded' /\ ReplayInv'
    BY <2>1 DEF TranscriberInv, PrivateAudioDiscarded, ReplayInv, Running,
       NoReplayAfterRecovery
  <2>4. EdgeInv'
    BY <2>1, EdgeQuiet DEF TranscriberInv
  <2> QED
    BY <2>2, <2>3, <2>4 DEF TranscriberInv
<1> QED
  BY <1>1, <1>2, <1>3, <1>4, <1>5, <1>6 DEF Next

LEMMA TranscriberAlways == Spec => []TranscriberInv
<1> QED
  BY TranscriberInit, TranscriberStep, PTL DEF Spec

-----------------------------------------------------------------------------
(* Buffers, ages, failures and the stability count keep to their bounds.   *)
THEOREM TranscriberTypeCorrect == Spec => []TranscriberTypeOK
<1>1. TranscriberInv => TranscriberTypeOK
  BY DEF TranscriberInv
<1> QED
  BY <1>1, TranscriberAlways, PTL

(* Start, Stop and the watchdog between them never hold two input streams  *)
(* open, and while captions run the open one is the one _stream names.     *)
THEOREM OneInputStream == Spec => []OneStream
<1>1. TranscriberInv => OneStream
  BY DEF TranscriberInv, StreamInv
<1> QED
  BY <1>1, TranscriberAlways, PTL

(* After a resume has ended, whatever arrived while it was under way, the  *)
(* rolling buffer holds nothing of the private moment.                     *)
THEOREM PrivateMomentForgotten == Spec => []PrivateAudioDiscarded
<1>1. TranscriberInv => PrivateAudioDiscarded
  BY DEF TranscriberInv
<1> QED
  BY <1>1, TranscriberAlways, PTL

(* No word from before a recovery of the input is published after it.      *)
THEOREM RecoveryForgets == Spec => []NoReplayAfterRecovery
<1>1. TranscriberInv => NoReplayAfterRecovery
  BY DEF TranscriberInv, ReplayInv
<1> QED
  BY <1>1, TranscriberAlways, PTL

(* A withheld weak word is confirmed only after new voice was heard.       *)
THEOREM WeakWordWaits == Spec => WeakWordNeedsNewSpeech
<1> DEFINE Evidence ==
             guard.word = "candidate" /\ guard'.word = "confirmed" => guard.heard
<1>1. TranscriberInv /\ [Next]_vars => [Evidence]_vars
  <2> SUFFICES ASSUME TranscriberInv, Next, guard.word = "candidate",
                      guard'.word = "confirmed"
               PROVE  guard.heard
    OBVIOUS
  <2>0. /\ guard \in [word : {"none", "candidate", "confirmed"},
                      progress : 0 .. window_seconds, heard : BOOLEAN]
        /\ captured.progress \in 0 .. window_seconds /\ window_seconds \in Nat
    BY DurationAssumption DEF TranscriberInv, TranscriberTypeOK, LoopTypeOK,
       TextTypeOK
  <2>1. guard' # guard /\ guard' # NoEdge
    BY DEF NoEdge
  <2>2. CASE FinishPass
    <3>1. executor = "transcribing"
      BY <2>2 DEF FinishPass
    <3>2. PICK text \in Text : Transcribed(text)
      BY <2>2 DEF FinishPass
    <3>3. captured.progress > guard.progress
      BY <2>1, <3>2, PassFacts
    <3>4. ~guard.heard => captured.progress <= guard.progress
      BY <3>1 DEF TranscriberInv, EdgeInv
    <3> QED
      BY <2>0, <3>3, <3>4
  <2>3. CASE StartPass
    <3>1. guard'.word = guard.word
      BY <2>0, <2>3 DEF StartPass
    <3> QED
      BY <3>1
  <2>4. CASE ~FinishPass /\ ~StartPass
    BY <2>1, <2>4 DEF Next, Tick, Executor, Loop, Requests, DriverStalls,
       LoadModel, Reopen, StartStream, AbortStalledStream, YieldPartial,
       CheckFinal, YieldFinal, Blank, ResumeReset, ResumeLift, ResumeEnd, Stop,
       ResetBuffer, textVars
  <2> QED
    BY <2>2, <2>3, <2>4
<1> QED
  BY <1>1, TranscriberAlways, PTL DEF Spec, WeakWordNeedsNewSpeech

=============================================================================

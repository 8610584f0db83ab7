------------------------- MODULE SpeechManagerProofs -------------------------
(***************************************************************************)
(* Proofs about SpeechManager, for any languages and listeners, any bound  *)
(* on the queues and on the cues.                                          *)
(***************************************************************************)
EXTENDS SpeechManager, SequenceTheorems, TLAPS

(* While speech is off or a private moment lasts, nothing waits.           *)
QuietInv == sensitive \/ ~enabled => turns = <<>>

(* The cues of a language grow from what its listeners have heard, over    *)
(* the job at hand, along the queue, to the last one offered.              *)
Ahead(cue, l) ==
    /\ cue <= offered[l]
    /\ \A i \in 1 .. Len(queues[l]) : cue < queues[l][i]

OrderInv ==
    /\ \A l \in Languages :
         /\ \A i \in 1 .. Len(queues[l]) : queues[l][i] <= offered[l]
         /\ \A i, j \in 1 .. Len(queues[l]) :
                i < j => queues[l][i] < queues[l][j]
    /\ \A w \in Listeners :
         clients[w] # None => Ahead(heard[w], clients[w])

(* The job is one of a language, and new to those it is being sent to;     *)
(* nobody among them has changed the language meanwhile.                   *)
JobInv ==
    /\ worker \in {"synthesising", "sending", "reporting"}
         => /\ job.language \in Languages /\ job.cue >= 1
            /\ Ahead(job.cue, job.language)
    /\ worker = "synthesising"
         => \A w \in Heard(job.language) : heard[w] < job.cue
    /\ worker = "sending"
         => \A w \in receivers :
              clients[w] # None
                 => clients[w] = job.language /\ heard[w] < job.cue

SpeechInv ==
    SpeechTypeOK /\ TurnsMatchQueues /\ QuietInv /\ OrderInv /\ JobInv

-----------------------------------------------------------------------------
(* Sequences without repetition, at their ends.                            *)
LEMMA AppendFacts ==
    ASSUME NEW S, NEW s \in Seq(S), NEW e \in S
    PROVE  /\ Append(s, e) \in Seq(S)
           /\ ToSet(Append(s, e)) = ToSet(s) \union {e}
           /\ IsInjective(s) /\ e \notin ToSet(s) => IsInjective(Append(s, e))
<1> DEFINE longer == Append(s, e)
<1>1. /\ longer \in Seq(S) /\ Len(longer) = Len(s) + 1
      /\ \A i \in 1 .. Len(s) : longer[i] = s[i]
      /\ longer[Len(s) + 1] = e
  OBVIOUS
<1> HIDE DEF longer
<1>2. ToSet(longer) = ToSet(s) \union {e}
  <2>1. ToSet(longer) = {longer[i] : i \in 1 .. Len(s) + 1}
    BY <1>1 DEF ToSet
  <2>2. ToSet(s) = {s[i] : i \in 1 .. Len(s)}
    BY DEF ToSet
  <2>3. 1 .. Len(s) + 1 = (1 .. Len(s)) \union {Len(s) + 1}
    OBVIOUS
  <2> QED
    BY <1>1, <2>1, <2>2, <2>3
<1>3. ASSUME IsInjective(s), e \notin ToSet(s)
      PROVE  IsInjective(longer)
  <2> SUFFICES ASSUME NEW i \in 1 .. Len(s) + 1, NEW j \in 1 .. Len(s) + 1,
                      longer[i] = longer[j]
               PROVE  i = j
    BY <1>1 DEF IsInjective
  <2>1. \A k \in 1 .. Len(s) : s[k] # e
    BY <1>3 DEF ToSet
  <2> QED
    BY <1>1, <1>3, <2>1 DEF IsInjective
<1> QED
  BY <1>1, <1>2, <1>3 DEF longer

LEMMA TailFacts ==
    ASSUME NEW S, NEW s \in Seq(S), s # <<>>
    PROVE  /\ Head(s) \in S /\ Head(s) = s[1] /\ Head(s) \in ToSet(s)
           /\ Tail(s) \in Seq(S) /\ Len(Tail(s)) = Len(s) - 1
           /\ \A i \in 1 .. Len(s) - 1 : Tail(s)[i] = s[i + 1]
           /\ IsInjective(s) => /\ IsInjective(Tail(s))
                                /\ ToSet(Tail(s)) = ToSet(s) \ {Head(s)}
<1>1. /\ Head(s) \in S /\ Head(s) = s[1] /\ Head(s) \in ToSet(s)
      /\ Tail(s) \in Seq(S) /\ Len(Tail(s)) = Len(s) - 1
      /\ \A i \in 1 .. Len(s) - 1 : Tail(s)[i] = s[i + 1]
  BY DEF ToSet
<1>2. ASSUME IsInjective(s)
      PROVE  IsInjective(Tail(s))
  BY <1>1, <1>2 DEF IsInjective
<1>3. ASSUME IsInjective(s)
      PROVE  ToSet(Tail(s)) = ToSet(s) \ {Head(s)}
  <2>1. ASSUME NEW i \in 1 .. Len(s) - 1
        PROVE  Tail(s)[i] \in ToSet(s) \ {Head(s)}
    BY <1>1, <1>3 DEF ToSet, IsInjective
  <2>2. ASSUME NEW i \in 1 .. Len(s), s[i] # Head(s)
        PROVE  s[i] \in ToSet(Tail(s))
    <3> DEFINE rest == Tail(s)
    <3>1. /\ i - 1 \in 1 .. Len(s) - 1 /\ rest[i - 1] = s[i]
          /\ rest \in Seq(S) /\ Len(rest) = Len(s) - 1
      BY <1>1, <2>2
    <3> HIDE DEF rest
    <3>2. i - 1 \in DOMAIN rest
      BY <3>1
    <3> QED
      BY <3>1, <3>2 DEF ToSet, rest
  <2> QED
    BY <1>1, <2>1, <2>2 DEF ToSet
<1> QED
  BY <1>1, <1>2, <1>3

(* The queue after it made room and took a cue.                            *)
LEMMA RoomFacts ==
    ASSUME NEW queue \in Seq(1 .. MaxCues), NEW cue \in 1 .. MaxCues,
           Len(queue) <= max_pending_per_language
    PROVE  LET longer == Append(Room(queue), cue) IN
           /\ longer \in Seq(1 .. MaxCues) /\ longer # <<>>
           /\ Len(longer) <= max_pending_per_language
           /\ Len(longer) = Len(Room(queue)) + 1
           /\ longer[Len(longer)] = cue
           /\ \E d \in {0, 1} : /\ Len(longer) = Len(queue) - d + 1
                                /\ \A i \in 1 .. Len(longer) - 1 :
                                       longer[i] = queue[i + d]
<1>1. CASE Len(queue) < max_pending_per_language
  BY <1>1, SpeechAssumption DEF Room
<1>2. CASE Len(queue) = max_pending_per_language
  <2>1. queue # <<>> /\ Room(queue) = Tail(queue)
    BY <1>2, SpeechAssumption DEF Room
  <2> DEFINE rest == Tail(queue)
  <2>2. /\ rest \in Seq(1 .. MaxCues) /\ Len(rest) = Len(queue) - 1
        /\ \A i \in 1 .. Len(rest) : rest[i] = queue[i + 1]
    BY <2>1, TailFacts
  <2> HIDE DEF rest
  <2> DEFINE after == Append(rest, cue)
  <2>3. /\ after \in Seq(1 .. MaxCues) /\ Len(after) = Len(queue)
        /\ after[Len(queue)] = cue
        /\ \A i \in 1 .. Len(queue) - 1 : after[i] = queue[i + 1]
    BY <2>2
  <2>4. Append(Room(queue), cue) = after /\ Room(queue) = rest
    BY <2>1 DEF rest
  <2>5. after # <<>> /\ Len(queue) \in Nat \ {0}
    BY <2>1, <2>2, <2>3
  <2> HIDE DEF after
  <2>6. \E d \in {0, 1} : /\ Len(after) = Len(queue) - d + 1
                          /\ \A i \in 1 .. Len(after) - 1 :
                                 after[i] = queue[i + d]
    <3>1. /\ Len(after) = Len(queue) - 1 + 1
          /\ \A i \in 1 .. Len(after) - 1 : after[i] = queue[i + 1]
      BY <2>3, <2>5
    <3> QED
      BY <3>1
  <2>7. Len(after) = Len(rest) + 1
    BY <2>2, <2>3, <2>5
  <2>8. /\ after \in Seq(1 .. MaxCues) /\ after # <<>>
        /\ Len(after) <= max_pending_per_language
        /\ Len(after) = Len(Room(queue)) + 1
        /\ after[Len(after)] = cue
    BY <1>2, <2>3, <2>4, <2>5, <2>7
  <2> QED
    BY <2>4, <2>6, <2>8, Zenon
<1>3. \/ Len(queue) < max_pending_per_language
      \/ Len(queue) = max_pending_per_language
  <2>1. Len(queue) \in Nat
    OBVIOUS
  <2> QED
    BY <2>1, SpeechAssumption
<1> QED
  BY <1>1, <1>2, <1>3, Zenon

-----------------------------------------------------------------------------
(* What a step does to the queues and the turns.                           *)

(* The steps that leave the queues and the cues offered as they are.       *)
Elsewhere ==
    \/ \E w \in Listeners : (\E l \in Languages : Connect(w, l))
                            \/ Disconnect(w) \/ Send(w)
    \/ ReloadManifest \/ WakeUp \/ Synthesised \/ SynthesisFails \/ JobDone
    \/ UNCHANGED vars

LEMMA ElsewhereFacts ==
    ASSUME Elsewhere
    PROVE  /\ UNCHANGED <<queues, turns, offered, enabled, sensitive>>
           /\ worker' # "none" \/ UNCHANGED worker
           /\ worker' = "waiting" => UNCHANGED <<worker, event>>
<1> QED
  BY DEF Elsewhere, Connect, Disconnect, Send, ReloadManifest, WakeUp,
         Synthesised, SynthesisFails, JobDone, Broadcast, vars, controlVars,
         queueVars, workerVars

(* The steps that clear them.                                              *)
Clearing ==
    \/ SetOperatorEnabled /\ enabled
    \/ SetSensitiveMode /\ ~sensitive
    \/ Shutdown

LEMMA ClearingFacts ==
    ASSUME Clearing
    PROVE  queues' = AllEmpty /\ turns' = <<>>
<1> QED
  BY DEF Clearing, SetOperatorEnabled, SetSensitiveMode, Shutdown, ClearQueues

Lifting ==
    \/ SetOperatorEnabled /\ ~enabled
    \/ SetSensitiveMode /\ sensitive

LEMMA Steps ==
    ASSUME [Next]_vars
    PROVE  \/ Elsewhere \/ Clearing \/ Lifting \/ TakeJob
           \/ \E l \in Languages : QueueTranslation(l)
<1> QED
  BY DEF Next, Worker, Elsewhere, Clearing, Lifting, SetOperatorEnabled,
         SetSensitiveMode

(* A job is taken from the head of its queue: its language has the turn.   *)
LEMMA TakeFacts ==
    ASSUME SpeechTypeOK, TurnsMatchQueues, TakeJob, turns # <<>>
    PROVE  LET l == Head(turns) IN
           /\ l \in Languages /\ queues[l] # <<>>
           /\ queues[l] \in Seq(1 .. MaxCues)
           /\ queues' = [queues EXCEPT ![l] = Tail(queues[l])]
           /\ turns' = TurnsAfter(l, Tail(turns))
           /\ UNCHANGED offered
<1>1. turns \in Seq(Languages) /\ queues \in [Languages -> Seq(1 .. MaxCues)]
  BY DEF SpeechTypeOK
<1>2. Head(turns) \in Languages /\ Head(turns) \in ToSet(turns)
  BY <1>1, TailFacts
<1> QED
  BY <1>1, <1>2 DEF TurnsMatchQueues, TakeJob

(* A cue is queued as the last of its language.                            *)
LEMMA QueueFacts ==
    ASSUME SpeechTypeOK, NEW l \in Languages, QueueTranslation(l), Accepted(l)
    PROVE  LET longer == Append(Room(queues[l]), offered[l] + 1) IN
           /\ queues' = [queues EXCEPT ![l] = longer]
           /\ offered' = [offered EXCEPT ![l] = offered[l] + 1]
           /\ offered[l] \in Nat /\ offered[l] + 1 \in 1 .. MaxCues
           /\ longer \in Seq(1 .. MaxCues) /\ longer # <<>>
           /\ Len(longer) <= max_pending_per_language
           /\ longer[Len(longer)] = offered[l] + 1
           /\ \E d \in {0, 1} : /\ Len(longer) = Len(queues[l]) - d + 1
                                /\ \A i \in 1 .. Len(longer) - 1 :
                                       longer[i] = queues[l][i + d]
<1>1. /\ queues[l] \in Seq(1 .. MaxCues)
      /\ Len(queues[l]) <= max_pending_per_language
      /\ offered[l] \in Nat /\ offered[l] + 1 \in 1 .. MaxCues
  BY SpeechAssumption DEF SpeechTypeOK, QueueTranslation
<1>2. /\ queues' = [queues EXCEPT
                      ![l] = Append(Room(queues[l]), offered[l] + 1)]
      /\ offered' = [offered EXCEPT ![l] = offered[l] + 1]
  BY DEF QueueTranslation
<1> QED
  BY <1>1, <1>2, RoomFacts

-----------------------------------------------------------------------------
(* The types.                                                              *)
FlagTypes == enabled \in BOOLEAN /\ sensitive \in BOOLEAN /\ event \in BOOLEAN

LEMMA FlagsKept ==
    ASSUME SpeechTypeOK, [Next]_vars
    PROVE  FlagTypes'
<1>1. FlagTypes
  BY DEF SpeechTypeOK, FlagTypes
<1>2. CASE Elsewhere
  BY <1>1, <1>2 DEF FlagTypes, Elsewhere, Connect, Disconnect, Send,
         ReloadManifest, WakeUp, Synthesised, SynthesisFails, JobDone, vars,
         controlVars, queueVars, workerVars
<1>3. CASE Clearing \/ Lifting
  BY <1>1, <1>3 DEF FlagTypes, Clearing, Lifting, SetOperatorEnabled,
         SetSensitiveMode, Shutdown, workerVars, controlVars
<1>4. CASE TakeJob
  BY <1>1, <1>4 DEF FlagTypes, TakeJob, controlVars
<1>5. ASSUME NEW l \in Languages, QueueTranslation(l)
      PROVE  FlagTypes'
  BY <1>1, <1>5 DEF FlagTypes, QueueTranslation, controlVars
<1> QED
  BY <1>2, <1>3, <1>4, <1>5, Steps

QueueTypes ==
    /\ queues \in [Languages -> Seq(1 .. MaxCues)]
    /\ \A l \in Languages : Len(queues[l]) <= max_pending_per_language
    /\ turns \in Seq(Languages)
    /\ offered \in [Languages -> 0 .. MaxCues]

LEMMA QueueTypesKept ==
    ASSUME SpeechTypeOK, TurnsMatchQueues, [Next]_vars
    PROVE  QueueTypes'
<1>1. QueueTypes
  BY DEF SpeechTypeOK, QueueTypes
<1>2. CASE Elsewhere
  BY <1>1, <1>2, ElsewhereFacts DEF QueueTypes
<1>3. CASE Clearing
  <2>1. AllEmpty \in [Languages -> Seq(1 .. MaxCues)]
        /\ \A l \in Languages : Len(AllEmpty[l]) <= max_pending_per_language
    BY SpeechAssumption DEF AllEmpty
  <2>2. offered' \in [Languages -> 0 .. MaxCues]
    BY <1>1, <1>3, SpeechAssumption DEF QueueTypes, Clearing, Shutdown,
       SetOperatorEnabled, SetSensitiveMode
  <2> QED
    BY <1>3, <2>1, <2>2, ClearingFacts DEF QueueTypes
<1>4. CASE Lifting
  BY <1>1, <1>4 DEF QueueTypes, Lifting, SetOperatorEnabled,
     SetSensitiveMode, queueVars
<1>5. CASE TakeJob
  <2>1. CASE turns = <<>>
    BY <1>1, <1>5, <2>1 DEF QueueTypes, TakeJob, queueVars
  <2>2. CASE turns # <<>>
    <3> DEFINE l == Head(turns)
    <3>1. /\ l \in Languages /\ queues[l] # <<>>
          /\ queues[l] \in Seq(1 .. MaxCues)
          /\ queues' = [queues EXCEPT ![l] = Tail(queues[l])]
          /\ turns' = TurnsAfter(l, Tail(turns)) /\ UNCHANGED offered
      BY <1>5, <2>2, TakeFacts
    <3>2. Tail(turns) \in Seq(Languages)
      BY <1>1, <2>2, TailFacts DEF QueueTypes
    <3>3. /\ Tail(queues[l]) \in Seq(1 .. MaxCues)
          /\ Len(Tail(queues[l])) = Len(queues[l]) - 1
      BY <3>1, TailFacts
    <3> HIDE DEF l
    <3>4. turns' \in Seq(Languages)
      BY <3>1, <3>2 DEF TurnsAfter
    <3>5. Len(queues[l]) \in Nat /\ Len(queues[l]) <= max_pending_per_language
      BY <1>1, <3>1 DEF QueueTypes
    <3> QED
      BY <1>1, <3>1, <3>3, <3>4, <3>5, SpeechAssumption DEF QueueTypes
  <2> QED
    BY <2>1, <2>2
<1>6. ASSUME NEW l \in Languages, QueueTranslation(l)
      PROVE  QueueTypes'
  <2>1. offered[l] + 1 \in 0 .. MaxCues
        /\ offered' = [offered EXCEPT ![l] = offered[l] + 1]
    BY <1>1, <1>6, SpeechAssumption DEF QueueTypes, QueueTranslation
  <2>2. CASE ~Accepted(l)
    BY <1>1, <1>6, <2>1, <2>2 DEF QueueTypes, QueueTranslation, queueVars
  <2>3. CASE Accepted(l)
    <3> DEFINE longer == Append(Room(queues[l]), offered[l] + 1)
    <3>1. /\ queues' = [queues EXCEPT ![l] = longer]
          /\ longer \in Seq(1 .. MaxCues)
          /\ Len(longer) <= max_pending_per_language
      BY <1>6, <2>3, QueueFacts
    <3> HIDE DEF longer
    <3>2. turns' = turns \/ turns' = Append(turns, l)
      BY <1>6, <2>3 DEF QueueTranslation
    <3>3. turns \in Seq(Languages) /\ Append(turns, l) \in Seq(Languages)
      BY <1>1, AppendFacts DEF QueueTypes
    <3> QED
      BY <1>1, <2>1, <3>1, <3>2, <3>3 DEF QueueTypes
  <2> QED
    BY <2>2, <2>3
<1> QED
  BY <1>2, <1>3, <1>4, <1>5, <1>6, Steps

OtherTypes ==
    /\ packs \subseteq Languages
    /\ clients \in [Listeners -> Languages \union {None}]
    /\ worker \in Stages
    /\ job \in [language : Languages \union {None}, cue : 0 .. MaxCues]
    /\ receivers \subseteq Listeners /\ dead \subseteq Listeners
    /\ heard \in [Listeners -> 0 .. MaxCues]

LEMMA OtherTypesKept ==
    ASSUME SpeechTypeOK, TurnsMatchQueues, [Next]_vars
    PROVE  OtherTypes'
<1>1. OtherTypes
  BY DEF SpeechTypeOK, OtherTypes
<1>2. NoJob \in [language : Languages \union {None}, cue : 0 .. MaxCues]
      /\ \A l : Heard(l) \subseteq Listeners
  BY SpeechAssumption DEF NoJob, Heard
<1>3. ASSUME NEW w \in Listeners, NEW l \in Languages, Connect(w, l)
      PROVE  OtherTypes'
  BY <1>1, <1>3, SpeechAssumption DEF OtherTypes, Connect, controlVars,
     workerVars
<1>4. ASSUME NEW w \in Listeners, Disconnect(w)
      PROVE  OtherTypes'
  BY <1>1, <1>4 DEF OtherTypes, Disconnect, controlVars, workerVars
<1>5. ASSUME NEW w \in Listeners, Send(w)
      PROVE  OtherTypes'
  <2>1. heard' \in [Listeners -> 0 .. MaxCues]
    BY <1>1, <1>5 DEF OtherTypes, Send
  <2> QED
    BY <1>1, <1>5, <2>1 DEF OtherTypes, Send, controlVars
<1>6. CASE ReloadManifest \/ SetOperatorEnabled \/ SetSensitiveMode
           \/ UNCHANGED vars
  BY <1>1, <1>6 DEF OtherTypes, ReloadManifest, SetOperatorEnabled,
     SetSensitiveMode, vars, controlVars, workerVars
<1>7. CASE WakeUp \/ Synthesised \/ SynthesisFails
  BY <1>1, <1>2, <1>7 DEF OtherTypes, WakeUp, Synthesised, SynthesisFails,
     Broadcast, Stages, controlVars
<1>8. CASE JobDone \/ Shutdown
  BY <1>1, <1>2, <1>8, SpeechAssumption DEF OtherTypes, JobDone, Shutdown,
     Stages, controlVars
<1>9. CASE TakeJob
  <2>1. CASE turns = <<>>
    BY <1>1, <1>9, <2>1 DEF OtherTypes, TakeJob, Stages, controlVars
  <2>2. CASE turns # <<>>
    <3> DEFINE l == Head(turns)
    <3>1. l \in Languages /\ Head(queues[l]) \in 1 .. MaxCues
      BY <1>9, <2>2, TakeFacts, TailFacts
    <3>2. [language |-> l, cue |-> Head(queues[l])]
             \in [language : Languages \union {None}, cue : 0 .. MaxCues]
      BY <3>1
    <3> QED
      BY <1>1, <1>9, <2>2, <3>2 DEF OtherTypes, TakeJob, Stages, controlVars
  <2> QED
    BY <2>1, <2>2
<1>10. ASSUME NEW l \in Languages, QueueTranslation(l)
       PROVE  OtherTypes'
  BY <1>1, <1>10 DEF OtherTypes, QueueTranslation, Stages, controlVars
<1> QED
  BY <1>3, <1>4, <1>5, <1>6, <1>7, <1>8, <1>9, <1>10 DEF Next, Worker

LEMMA TypesKept ==
    ASSUME SpeechTypeOK, TurnsMatchQueues, [Next]_vars
    PROVE  SpeechTypeOK'
<1> QED
  BY FlagsKept, QueueTypesKept, OtherTypesKept
     DEF SpeechTypeOK, FlagTypes, QueueTypes, OtherTypes

-----------------------------------------------------------------------------
(* Every language with a job has its turn.                                 *)
LEMMA TurnsKept ==
    ASSUME SpeechTypeOK, TurnsMatchQueues, [Next]_vars
    PROVE  TurnsMatchQueues'
<1>1. /\ turns \in Seq(Languages)
      /\ queues \in [Languages -> Seq(1 .. MaxCues)]
      /\ ToSet(turns) = {l \in Languages : queues[l] # <<>>}
      /\ IsInjective(turns)
  BY DEF SpeechTypeOK, TurnsMatchQueues
<1>2. CASE Elsewhere
  BY <1>2, ElsewhereFacts DEF TurnsMatchQueues
<1>3. CASE Clearing
  <2>1. ToSet(<<>>) = {} /\ IsInjective(<<>>)
    BY DEF ToSet, IsInjective
  <2> QED
    BY <1>3, <2>1, ClearingFacts DEF TurnsMatchQueues, AllEmpty
<1>4. CASE Lifting
  BY <1>4 DEF TurnsMatchQueues, Lifting, SetOperatorEnabled,
     SetSensitiveMode, queueVars, workerVars
<1>5. CASE TakeJob
  <2>1. CASE turns = <<>>
    BY <1>5, <2>1 DEF TurnsMatchQueues, TakeJob, queueVars
  <2>2. CASE turns # <<>>
    <3> DEFINE l == Head(turns)
               rest == Tail(turns)
    <3>1. /\ l \in Languages /\ queues[l] # <<>>
          /\ queues[l] \in Seq(1 .. MaxCues)
          /\ queues' = [queues EXCEPT ![l] = Tail(queues[l])]
          /\ turns' = TurnsAfter(l, rest)
      BY <1>5, <2>2, TakeFacts
    <3>2. /\ rest \in Seq(Languages) /\ IsInjective(rest)
          /\ ToSet(rest) = ToSet(turns) \ {l}
      BY <1>1, <2>2, TailFacts
    <3>3. worker' \notin {"waiting", "none"}
      BY <1>5, <2>2 DEF TakeJob
    <3>4. Tail(queues[l]) \in Seq(1 .. MaxCues)
          /\ Len(Tail(queues[l])) = Len(queues[l]) - 1
      BY <3>1, TailFacts
    <3> HIDE DEF l, rest
    <3>5. CASE Len(queues[l]) > 1
      <4>1. turns' = Append(rest, l)
        BY <3>1, <3>5 DEF TurnsAfter
      <4>2. IsInjective(turns') /\ ToSet(turns') = ToSet(rest) \union {l}
        BY <3>1, <3>2, <4>1, AppendFacts
      <4> DEFINE left == Tail(queues[l])
      <4>3. left # <<>>
        <5>1. left \in Seq(1 .. MaxCues) /\ Len(left) > 0
          BY <3>4, <3>5
        <5> HIDE DEF left
        <5> QED
          BY <5>1
      <4> QED
        BY <1>1, <3>1, <3>2, <3>3, <4>2, <4>3 DEF TurnsMatchQueues
    <3>6. CASE Len(queues[l]) = 1
      <4>1. turns' = rest
        BY <3>1, <3>6 DEF TurnsAfter
      <4> DEFINE left == Tail(queues[l])
      <4>2. left = <<>>
        <5>1. left \in Seq(1 .. MaxCues) /\ Len(left) = 0
          BY <3>4, <3>6
        <5> HIDE DEF left
        <5> QED
          BY <5>1
      <4> QED
        BY <1>1, <3>1, <3>2, <3>3, <4>1, <4>2 DEF TurnsMatchQueues
    <3>7. Len(queues[l]) > 1 \/ Len(queues[l]) = 1
      <4> DEFINE queue == queues[l]
      <4>1. queue \in Seq(1 .. MaxCues) /\ queue # <<>>
        BY <3>1
      <4> HIDE DEF queue
      <4>2. Len(queue) > 1 \/ Len(queue) = 1
        BY <4>1
      <4> QED
        BY <4>2 DEF queue
    <3> QED
      BY <3>5, <3>6, <3>7
  <2> QED
    BY <2>1, <2>2
<1>6. ASSUME NEW l \in Languages, QueueTranslation(l)
      PROVE  TurnsMatchQueues'
  <2>1. CASE ~Accepted(l)
    BY <1>6, <2>1 DEF TurnsMatchQueues, QueueTranslation, queueVars
  <2>2. CASE Accepted(l)
    <3> DEFINE longer == Append(Room(queues[l]), offered[l] + 1)
    <3>1. queues' = [queues EXCEPT ![l] = longer] /\ longer # <<>>
      BY <1>6, <2>2, QueueFacts
    <3> HIDE DEF longer
    <3>2. /\ turns' = IF Contains(turns, l) THEN turns ELSE Append(turns, l)
          /\ event' /\ worker' # "none"
      BY <1>6, <2>2 DEF QueueTranslation
    <3>3. Contains(turns, l) <=> l \in ToSet(turns)
      BY <1>1 DEF Contains, ToSet
    <3>4. IsInjective(turns') /\ ToSet(turns') = ToSet(turns) \union {l}
      BY <1>1, <3>2, <3>3, AppendFacts
    <3> QED
      BY <1>1, <3>1, <3>2, <3>4 DEF TurnsMatchQueues
  <2> QED
    BY <2>1, <2>2
<1> QED
  BY <1>2, <1>3, <1>4, <1>5, <1>6, Steps

-----------------------------------------------------------------------------
(* Nothing waits in a private moment.                                      *)
LEMMA QuietKept ==
    ASSUME QuietInv, [Next]_vars
    PROVE  QuietInv'
<1>1. CASE Elsewhere
  BY <1>1, ElsewhereFacts DEF QuietInv
<1>2. CASE Clearing
  BY <1>2, ClearingFacts DEF QuietInv
<1>3. CASE Lifting
  BY <1>3 DEF QuietInv, Lifting, SetOperatorEnabled, SetSensitiveMode,
     queueVars
<1>4. CASE TakeJob
  BY <1>4 DEF QuietInv, TakeJob, queueVars, controlVars
<1>5. ASSUME NEW l \in Languages, QueueTranslation(l)
      PROVE  QuietInv'
  BY <1>5 DEF QuietInv, QueueTranslation, Accepted, queueVars, controlVars
<1> QED
  BY <1>1, <1>2, <1>3, <1>4, <1>5, Steps

-----------------------------------------------------------------------------
(* What is ahead of a cue stays ahead of it while cues are offered, taken  *)
(* and cleared.                                                            *)
LEMMA AheadKept ==
    ASSUME SpeechTypeOK, TurnsMatchQueues, [Next]_vars,
           NEW cue \in 0 .. MaxCues, NEW m \in Languages, Ahead(cue, m)
    PROVE  /\ cue <= offered'[m]
           /\ \A i \in 1 .. Len(queues'[m]) : cue < queues'[m][i]
<1>1. /\ queues \in [Languages -> Seq(1 .. MaxCues)]
      /\ offered \in [Languages -> 0 .. MaxCues]
      /\ cue \in Nat /\ cue <= MaxCues /\ MaxCues \in Nat
  BY SpeechAssumption DEF SpeechTypeOK
<1>2. CASE Elsewhere
  BY <1>2, ElsewhereFacts DEF Ahead
<1>3. CASE Clearing
  <2>1. queues'[m] = <<>>
    BY <1>3, ClearingFacts DEF AllEmpty
  <2>2. cue <= offered'[m]
    BY <1>1, <1>3 DEF Ahead, Clearing, SetOperatorEnabled, SetSensitiveMode,
       Shutdown
  <2> QED
    BY <2>1, <2>2
<1>4. CASE Lifting
  BY <1>4 DEF Ahead, Lifting, SetOperatorEnabled, SetSensitiveMode, queueVars
<1>5. CASE TakeJob
  <2>1. CASE turns = <<>>
    BY <1>5, <2>1 DEF Ahead, TakeJob, queueVars
  <2>2. CASE turns # <<>>
    <3> DEFINE l == Head(turns)
               rest == Tail(queues[l])
    <3>1. /\ l \in Languages /\ queues[l] # <<>>
          /\ queues[l] \in Seq(1 .. MaxCues)
          /\ queues' = [queues EXCEPT ![l] = rest]
          /\ UNCHANGED offered
      BY <1>5, <2>2, TakeFacts
    <3>2. /\ rest \in Seq(1 .. MaxCues) /\ Len(rest) = Len(queues[l]) - 1
          /\ \A i \in 1 .. Len(queues[l]) - 1 : rest[i] = queues[l][i + 1]
      BY <3>1, TailFacts
    <3> HIDE DEF l, rest
    <3>3. CASE m # l
      BY <1>1, <3>1, <3>3 DEF Ahead
    <3>4. CASE m = l
      <4>1. queues'[m] = rest
        BY <1>1, <3>1, <3>4
      <4> QED
        BY <3>1, <3>2, <3>4, <4>1 DEF Ahead
    <3> QED
      BY <3>3, <3>4
  <2> QED
    BY <2>1, <2>2
<1>6. ASSUME NEW l \in Languages, QueueTranslation(l)
      PROVE  /\ cue <= offered'[m]
             /\ \A i \in 1 .. Len(queues'[m]) : cue < queues'[m][i]
  <2>1. offered' = [offered EXCEPT ![l] = offered[l] + 1]
    BY <1>6 DEF QueueTranslation
  <2>2. cue <= offered'[m]
    BY <1>1, <2>1 DEF Ahead
  <2>3. CASE ~Accepted(l)
    BY <1>6, <2>2, <2>3 DEF Ahead, QueueTranslation, queueVars
  <2>4. CASE Accepted(l)
    <3> DEFINE longer == Append(Room(queues[l]), offered[l] + 1)
    <3>1. /\ queues' = [queues EXCEPT ![l] = longer]
          /\ longer \in Seq(1 .. MaxCues)
          /\ longer[Len(longer)] = offered[l] + 1
          /\ \E d \in {0, 1} : /\ Len(longer) = Len(queues[l]) - d + 1
                               /\ \A i \in 1 .. Len(longer) - 1 :
                                      longer[i] = queues[l][i + d]
      BY <1>6, <2>4, QueueFacts
    <3> HIDE DEF longer
    <3>2. CASE m # l
      BY <1>1, <2>2, <3>1, <3>2 DEF Ahead
    <3>3. CASE m = l
      <4>1. PICK d \in {0, 1} :
              /\ Len(longer) = Len(queues[l]) - d + 1
              /\ \A i \in 1 .. Len(longer) - 1 : longer[i] = queues[l][i + d]
        BY <3>1
      <4>2. queues'[m] = longer /\ queues[l] \in Seq(1 .. MaxCues)
        BY <1>1, <3>1, <3>3
      <4>3. ASSUME NEW i \in 1 .. Len(longer)
            PROVE  cue < longer[i]
        <5>1. CASE i = Len(longer)
          <6>1. longer[i] = offered[l] + 1 /\ cue <= offered[l]
            BY <3>1, <3>3, <5>1 DEF Ahead
          <6>2. offered[l] \in Nat
            BY <1>1
          <6> QED
            BY <1>1, <6>1, <6>2
        <5>2. CASE i # Len(longer)
          <6>1. i \in 1 .. Len(longer) - 1
            BY <3>1, <5>2
          <6>2. longer[i] = queues[l][i + d]
            BY <4>1, <6>1
          <6>3. Len(queues[l]) \in Nat
            BY <4>2
          <6>4. i + d \in 1 .. Len(queues[l])
            BY <4>1, <6>1, <6>3
          <6> QED
            BY <3>3, <6>2, <6>4 DEF Ahead
        <5> QED
          BY <5>1, <5>2
      <4> QED
        BY <2>2, <4>2, <4>3
    <3> QED
      BY <3>2, <3>3
  <2> QED
    BY <2>3, <2>4
<1> QED
  BY <1>2, <1>3, <1>4, <1>5, <1>6, Steps

-----------------------------------------------------------------------------
(* The order of the cues.                                                  *)
QueuesGrow ==
    \A l \in Languages :
      /\ \A i \in 1 .. Len(queues[l]) : queues[l][i] <= offered[l]
      /\ \A i, j \in 1 .. Len(queues[l]) :
             i < j => queues[l][i] < queues[l][j]

LEMMA QueuesGrowKept ==
    ASSUME SpeechTypeOK, TurnsMatchQueues, QueuesGrow, [Next]_vars
    PROVE  QueuesGrow'
<1>1. /\ queues \in [Languages -> Seq(1 .. MaxCues)]
      /\ offered \in [Languages -> 0 .. MaxCues]
  BY DEF SpeechTypeOK
<1>2. CASE Elsewhere
  BY <1>2, ElsewhereFacts DEF QueuesGrow
<1>3. CASE Clearing
  BY <1>3, ClearingFacts DEF QueuesGrow, AllEmpty
<1>4. CASE Lifting
  BY <1>4 DEF QueuesGrow, Lifting, SetOperatorEnabled, SetSensitiveMode,
     queueVars
<1>5. CASE TakeJob
  <2>1. CASE turns = <<>>
    BY <1>5, <2>1 DEF QueuesGrow, TakeJob, queueVars
  <2>2. CASE turns # <<>>
    <3> DEFINE l == Head(turns)
               rest == Tail(queues[l])
    <3>1. /\ l \in Languages /\ queues[l] # <<>>
          /\ queues[l] \in Seq(1 .. MaxCues)
          /\ queues' = [queues EXCEPT ![l] = rest]
          /\ UNCHANGED offered
      BY <1>5, <2>2, TakeFacts
    <3>2. /\ rest \in Seq(1 .. MaxCues) /\ Len(rest) = Len(queues[l]) - 1
          /\ \A i \in 1 .. Len(queues[l]) - 1 : rest[i] = queues[l][i + 1]
      BY <3>1, TailFacts
    <3> HIDE DEF l, rest
    <3>3. Len(queues[l]) \in Nat
      BY <3>1
    <3>4. /\ \A i \in 1 .. Len(rest) : rest[i] <= offered[l]
          /\ \A i, j \in 1 .. Len(rest) : i < j => rest[i] < rest[j]
      BY <3>1, <3>2, <3>3 DEF QueuesGrow
    <3>5. ASSUME NEW m \in Languages
          PROVE  queues'[m] = IF m = l THEN rest ELSE queues[m]
      BY <1>1, <3>1
    <3> QED
      BY <3>1, <3>4, <3>5 DEF QueuesGrow
  <2> QED
    BY <2>1, <2>2
<1>6. ASSUME NEW l \in Languages, QueueTranslation(l)
      PROVE  QueuesGrow'
  <2>1. offered' = [offered EXCEPT ![l] = offered[l] + 1]
    BY <1>6 DEF QueueTranslation
  <2>2. ASSUME NEW m \in Languages
        PROVE  /\ offered[m] \in Nat
               /\ offered'[m] = IF m = l THEN offered[l] + 1 ELSE offered[m]
               /\ \A i \in 1 .. Len(queues[m]) : queues[m][i] \in Nat
    BY <1>1, <2>1, SpeechAssumption
  <2>3. CASE ~Accepted(l)
    <3>1. UNCHANGED queues
      BY <1>6, <2>3 DEF QueueTranslation, queueVars
    <3> QED
      BY <2>2, <3>1 DEF QueuesGrow
  <2>4. CASE Accepted(l)
    <3> DEFINE longer == Append(Room(queues[l]), offered[l] + 1)
    <3>1. /\ queues' = [queues EXCEPT ![l] = longer]
          /\ longer \in Seq(1 .. MaxCues)
          /\ longer[Len(longer)] = offered[l] + 1
          /\ \E d \in {0, 1} : /\ Len(longer) = Len(queues[l]) - d + 1
                               /\ \A i \in 1 .. Len(longer) - 1 :
                                      longer[i] = queues[l][i + d]
      BY <1>6, <2>4, QueueFacts
    <3> HIDE DEF longer
    <3>2. PICK d \in {0, 1} :
            /\ Len(longer) = Len(queues[l]) - d + 1
            /\ \A i \in 1 .. Len(longer) - 1 : longer[i] = queues[l][i + d]
      BY <3>1
    <3>3. Len(longer) \in Nat /\ Len(queues[l]) \in Nat
      BY <1>1, <3>1
    <3>4. ASSUME NEW i \in 1 .. Len(longer) - 1
          PROVE  /\ i + d \in 1 .. Len(queues[l])
                 /\ longer[i] = queues[l][i + d]
                 /\ longer[i] \in Nat /\ longer[i] <= offered[l]
      BY <2>2, <3>2, <3>3 DEF QueuesGrow
    <3>5. ASSUME NEW i \in 1 .. Len(longer)
          PROVE  longer[i] <= offered[l] + 1
      <4>1. CASE i = Len(longer)
        BY <2>2, <3>1, <4>1
      <4>2. CASE i # Len(longer)
        <5>1. i \in 1 .. Len(longer) - 1
          BY <3>3, <4>2
        <5> QED
          BY <2>2, <3>4, <5>1
      <4> QED
        BY <4>1, <4>2
    <3>6. ASSUME NEW i \in 1 .. Len(longer), NEW j \in 1 .. Len(longer), i < j
          PROVE  longer[i] < longer[j]
      <4>1. i \in 1 .. Len(longer) - 1
        BY <3>3, <3>6
      <4>2. CASE j = Len(longer)
        <5>1. longer[i] \in Nat /\ longer[i] <= offered[l]
          BY <3>4, <4>1
        <5>2. longer[j] = offered[l] + 1
          BY <3>1, <4>2
        <5>3. offered[l] \in Nat
          BY <2>2
        <5> QED
          BY <5>1, <5>2, <5>3
      <4>3. CASE j # Len(longer)
        <5>1. j \in 1 .. Len(longer) - 1
          BY <3>3, <4>3
        <5>2. /\ i + d \in 1 .. Len(queues[l]) /\ longer[i] = queues[l][i + d]
              /\ j + d \in 1 .. Len(queues[l]) /\ longer[j] = queues[l][j + d]
          BY <3>4, <4>1, <5>1
        <5>3. i + d < j + d
          BY <3>2, <3>6
        <5> QED
          BY <5>2, <5>3 DEF QueuesGrow
      <4> QED
        BY <4>2, <4>3
    <3>7. ASSUME NEW m \in Languages
          PROVE  queues'[m] = IF m = l THEN longer ELSE queues[m]
      BY <1>1, <3>1
    <3> QED
      BY <2>2, <3>5, <3>6, <3>7 DEF QueuesGrow
  <2> QED
    BY <2>3, <2>4
<1> QED
  BY <1>2, <1>3, <1>4, <1>5, <1>6, Steps

ListenersBehind ==
    \A w \in Listeners : clients[w] # None => Ahead(heard[w], clients[w])

(* What the steps other than those named do to the listeners.              *)
LEMMA ListenersUntouched ==
    ASSUME [Next]_vars
    PROVE  \/ UNCHANGED <<clients, heard>>
           \/ JobDone \/ \E w \in Listeners : Disconnect(w) \/ Send(w)
           \/ \E w \in Listeners, l \in Languages : Connect(w, l)
<1> QED
  BY DEF Next, Worker, ReloadManifest, SetOperatorEnabled, SetSensitiveMode,
     QueueTranslation, WakeUp, TakeJob, Synthesised, SynthesisFails, Shutdown,
     vars

LEMMA ListenersBehindKept ==
    ASSUME SpeechTypeOK, TurnsMatchQueues, ListenersBehind, JobInv,
           [Next]_vars
    PROVE  ListenersBehind'
<1>1. /\ clients \in [Listeners -> Languages \union {None}]
      /\ heard \in [Listeners -> 0 .. MaxCues]
      /\ queues \in [Languages -> Seq(1 .. MaxCues)]
      /\ offered \in [Languages -> 0 .. MaxCues]
  BY DEF SpeechTypeOK
<1>2. ASSUME NEW w \in Listeners, clients'[w] # None,
             clients'[w] = clients[w], heard'[w] = heard[w]
      PROVE  Ahead(heard[w], clients[w])'
  <2>1. heard[w] \in 0 .. MaxCues /\ clients[w] \in Languages
    BY <1>1, <1>2
  <2>2. Ahead(heard[w], clients[w])
    BY <1>2 DEF ListenersBehind
  <2> DEFINE cue == heard[w]
             m == clients[w]
  <2>3. /\ cue <= offered'[m]
        /\ \A i \in 1 .. Len(queues'[m]) : cue < queues'[m][i]
    BY <2>1, <2>2, AheadKept
  <2> QED
    BY <1>2, <2>3 DEF Ahead
<1>3. CASE UNCHANGED <<clients, heard>>
  BY <1>2, <1>3 DEF ListenersBehind
<1>4. CASE JobDone
  <2>1. \A w \in Listeners : /\ clients'[w] = clients[w] \/ clients'[w] = None
                             /\ heard'[w] = heard[w]
    BY <1>4 DEF JobDone
  <2> QED
    BY <1>2, <2>1 DEF ListenersBehind
<1>5. ASSUME NEW v \in Listeners, Disconnect(v)
      PROVE  ListenersBehind'
  <2>1. \A w \in Listeners : /\ clients'[w] = clients[w] \/ clients'[w] = None
                             /\ heard'[w] = heard[w]
    BY <1>1, <1>5 DEF Disconnect
  <2> QED
    BY <1>2, <2>1 DEF ListenersBehind
<1>6. ASSUME NEW v \in Listeners, Send(v)
      PROVE  ListenersBehind'
  <2>1. UNCHANGED <<clients, queues, offered>>
    BY <1>6 DEF Send, queueVars
  <2>2. ASSUME NEW w \in Listeners, heard'[w] # heard[w], clients'[w] # None
        PROVE  Ahead(heard[w], clients[w])'
    <3>1. worker = "sending" /\ w = v /\ v \in receivers /\ heard'[w] = job.cue
      BY <1>1, <1>6, <2>2 DEF Send
    <3>2. clients[w] = job.language /\ Ahead(job.cue, job.language)
      BY <2>1, <2>2, <3>1 DEF JobInv
    <3> QED
      BY <2>1, <3>1, <3>2 DEF Ahead
  <2> QED
    BY <1>2, <2>1, <2>2 DEF ListenersBehind
<1>7. ASSUME NEW v \in Listeners, NEW l \in Languages, Connect(v, l)
      PROVE  ListenersBehind'
  <2>1. /\ clients' = [clients EXCEPT ![v] = l]
        /\ heard' = [heard EXCEPT ![v] = 0]
        /\ UNCHANGED <<queues, offered>>
    BY <1>7 DEF Connect, queueVars
  <2>2. clients'[v] = l /\ heard'[v] = 0
    BY <1>1, <2>1
  <2>3. /\ 0 <= offered[l]
        /\ \A i \in 1 .. Len(queues[l]) : 0 < queues[l][i]
    <3>1. queues[l] \in Seq(1 .. MaxCues) /\ offered[l] \in 0 .. MaxCues
      BY <1>1
    <3>2. \A i \in 1 .. Len(queues[l]) : queues[l][i] \in 1 .. MaxCues
      BY <3>1, ElementOfSeq
    <3> QED
      BY <3>1, <3>2
  <2>4. Ahead(heard[v], clients[v])'
    BY <2>1, <2>2, <2>3 DEF Ahead
  <2>5. ASSUME NEW w \in Listeners, w # v
        PROVE  clients'[w] = clients[w] /\ heard'[w] = heard[w]
    BY <1>1, <2>1, <2>5
  <2> QED
    BY <1>2, <2>4, <2>5 DEF ListenersBehind
<1> QED
  BY <1>3, <1>4, <1>5, <1>6, <1>7, ListenersUntouched

-----------------------------------------------------------------------------
(* The job.                                                                *)
Busy == {"synthesising", "sending", "reporting"}

JobSound ==
    worker \in Busy => /\ job.language \in Languages /\ job.cue >= 1
                       /\ Ahead(job.cue, job.language)

JobNew ==
    /\ worker = "synthesising"
         => \A w \in Heard(job.language) : heard[w] < job.cue
    /\ worker = "sending"
         => \A w \in receivers :
              clients[w] # None
                 => clients[w] = job.language /\ heard[w] < job.cue

LEMMA JobParts == JobInv <=> JobSound /\ JobNew
<1> QED
  BY DEF JobInv, JobSound, JobNew, Busy

LEMMA JobUntouched ==
    ASSUME [Next]_vars
    PROVE  \/ TakeJob \/ worker' \notin Busy
           \/ UNCHANGED job /\ worker \in Busy
<1> QED
  BY DEF Next, Worker, Connect, Disconnect, ReloadManifest, Send, JobDone,
     SetOperatorEnabled, SetSensitiveMode, QueueTranslation, WakeUp,
     Synthesised, SynthesisFails, Broadcast, Shutdown, Busy, vars, workerVars

(* The cue at the head of a queue is behind what follows it and beyond     *)
(* what was heard.                                                         *)
LEMMA HeadFacts ==
    ASSUME SpeechTypeOK, TurnsMatchQueues, OrderInv, TakeJob, turns # <<>>
    PROVE  LET l == Head(turns)
               cue == Head(queues[l])
           IN  /\ l \in Languages /\ cue \in 1 .. MaxCues
               /\ cue <= offered'[l]
               /\ \A i \in 1 .. Len(queues'[l]) : cue < queues'[l][i]
               /\ \A w \in Heard(l) : heard[w] < cue
<1> DEFINE l == Head(turns)
           queue == queues[l]
<1>1. /\ l \in Languages /\ queue # <<>>
      /\ queue \in Seq(1 .. MaxCues)
      /\ queues' = [queues EXCEPT ![l] = Tail(queue)]
      /\ UNCHANGED offered
  BY TakeFacts
<1>2. queues'[l] = Tail(queue)
  BY <1>1 DEF SpeechTypeOK
<1>3. /\ Head(queue) \in 1 .. MaxCues /\ Head(queue) = queue[1]
      /\ Len(Tail(queue)) = Len(queue) - 1
      /\ \A i \in 1 .. Len(queue) - 1 : Tail(queue)[i] = queue[i + 1]
  BY <1>1, TailFacts
<1>4. /\ \A i \in 1 .. Len(queue) : queue[i] <= offered[l]
      /\ \A i, j \in 1 .. Len(queue) : i < j => queue[i] < queue[j]
      /\ \A w \in Heard(l) : \A i \in 1 .. Len(queue) : heard[w] < queue[i]
  BY <1>1, SpeechAssumption DEF OrderInv, Ahead, Heard
<1> HIDE DEF l, queue
<1>5. Len(queue) \in Nat /\ 1 \in 1 .. Len(queue)
  BY <1>1
<1>6. \A i \in 1 .. Len(queue) - 1 : Head(queue) < Tail(queue)[i]
  BY <1>3, <1>4, <1>5
<1>7. /\ l \in Languages /\ Head(queue) \in 1 .. MaxCues
      /\ Head(queue) <= offered'[l]
      /\ \A i \in 1 .. Len(queues'[l]) : Head(queue) < queues'[l][i]
      /\ \A w \in Heard(l) : heard[w] < Head(queue)
  BY <1>1, <1>2, <1>3, <1>4, <1>5, <1>6
<1> QED
  BY <1>7 DEF l, queue

LEMMA JobSoundKept ==
    ASSUME SpeechTypeOK, TurnsMatchQueues, OrderInv, JobSound, [Next]_vars
    PROVE  JobSound'
<1>1. CASE TakeJob
  <2>1. SUFFICES ASSUME worker' \in Busy
                 PROVE  JobSound'
    BY DEF JobSound
  <2>2. turns # <<>> /\ job' = [language |-> Head(turns),
                                cue |-> Head(queues[Head(turns)])]
    BY <1>1, <2>1 DEF TakeJob, Busy
  <2> DEFINE l == Head(turns)
             cue == Head(queues[l])
  <2>3. /\ l \in Languages /\ cue \in 1 .. MaxCues
        /\ cue <= offered'[l]
        /\ \A i \in 1 .. Len(queues'[l]) : cue < queues'[l][i]
    BY <1>1, <2>2, HeadFacts
  <2>4. job'.language = l /\ job'.cue = cue
    BY <2>2
  <2> HIDE DEF l, cue
  <2> QED
    BY <2>3, <2>4, SpeechAssumption DEF JobSound, Ahead
<1>2. CASE worker' \notin Busy
  BY <1>2 DEF JobSound
<1>3. CASE UNCHANGED job /\ worker \in Busy
  <2> DEFINE cue == job.cue
             m == job.language
  <2>1. cue \in 0 .. MaxCues /\ m \in Languages /\ cue >= 1 /\ Ahead(cue, m)
    BY <1>3 DEF JobSound, SpeechTypeOK
  <2>2. /\ cue <= offered'[m]
        /\ \A i \in 1 .. Len(queues'[m]) : cue < queues'[m][i]
    BY <2>1, AheadKept
  <2> QED
    BY <1>3, <2>1, <2>2 DEF JobSound, Ahead
<1> QED
  BY <1>1, <1>2, <1>3, JobUntouched

LEMMA JobNewKept ==
    ASSUME SpeechTypeOK, TurnsMatchQueues, OrderInv, JobSound, JobNew,
           [Next]_vars
    PROVE  JobNew'
<1>1. /\ clients \in [Listeners -> Languages \union {None}]
      /\ heard \in [Listeners -> 0 .. MaxCues]
      /\ job.cue \in Nat
  BY SpeechAssumption DEF SpeechTypeOK
<1>2. CASE TakeJob
  <2>1. CASE turns = <<>> \/ Heard(Head(turns)) = {}
    BY <1>2, <2>1 DEF TakeJob, JobNew
  <2>2. CASE turns # <<>> /\ Heard(Head(turns)) # {}
    <3> DEFINE l == Head(turns)
               cue == Head(queues[l])
    <3>1. job' = [language |-> l, cue |-> cue] /\ worker' = "synthesising"
          /\ UNCHANGED <<clients, heard>>
      BY <1>2, <2>2 DEF TakeJob
    <3>2. \A w \in Heard(l) : heard[w] < cue
      BY <1>2, <2>2, HeadFacts
    <3>3. job'.language = l /\ job'.cue = cue
      BY <3>1
    <3> HIDE DEF l, cue
    <3> QED
      BY <3>1, <3>2, <3>3 DEF JobNew, Heard
  <2> QED
    BY <2>1, <2>2
<1>3. CASE Synthesised \/ SynthesisFails
  <2>1. CASE worker' = "sending"
    <3>1. /\ worker = "synthesising" /\ UNCHANGED <<job, clients, heard>>
          /\ receivers' = Heard(job.language)
      BY <1>3, <2>1 DEF Synthesised, SynthesisFails, Broadcast
    <3> QED
      BY <2>1, <3>1 DEF JobNew, Heard
  <2>2. CASE worker' # "sending"
    <3>1. worker' # "synthesising"
      BY <1>3 DEF Synthesised, SynthesisFails, Broadcast
    <3> QED
      BY <2>2, <3>1 DEF JobNew
  <2> QED
    BY <2>1, <2>2
<1>4. ASSUME NEW v \in Listeners, Send(v)
      PROVE  JobNew'
  <2>1. /\ receivers' = receivers \ {v}
        /\ UNCHANGED <<worker, job, clients>>
        /\ worker # "synthesising"
        /\ \A w \in Listeners \ {v} : heard'[w] = heard[w]
    BY <1>1, <1>4 DEF Send
  <2>2. receivers \subseteq Listeners
    BY DEF SpeechTypeOK
  <2> QED
    BY <2>1, <2>2 DEF JobNew
<1>5. ASSUME NEW v \in Listeners, Disconnect(v)
      PROVE  JobNew'
  <2>1. /\ UNCHANGED <<worker, job, receivers, heard>>
        /\ \A w \in Listeners :
             clients'[w] = None \/ clients'[w] = clients[w]
    BY <1>1, <1>5 DEF Disconnect, workerVars
  <2>2. worker \in Busy => job.language # None
    BY SpeechAssumption DEF JobSound
  <2>3. receivers \subseteq Listeners
    BY DEF SpeechTypeOK
  <2> QED
    BY <2>1, <2>2, <2>3 DEF JobNew, Heard, Busy
<1>6. ASSUME NEW v \in Listeners, NEW l \in Languages, Connect(v, l)
      PROVE  JobNew'
  <2>1. /\ UNCHANGED <<worker, job, receivers>> /\ v \notin receivers
        /\ clients'[v] = l /\ heard'[v] = 0
        /\ \A w \in Listeners \ {v} :
             clients'[w] = clients[w] /\ heard'[w] = heard[w]
    BY <1>1, <1>6 DEF Connect, workerVars
  <2>2. worker \in Busy => job.cue >= 1
    BY DEF JobSound
  <2>3. receivers \subseteq Listeners
    BY DEF SpeechTypeOK
  <2> QED
    BY <1>1, <2>1, <2>2, <2>3 DEF JobNew, Heard, Busy
<1>7. CASE JobDone \/ Shutdown \/ WakeUp
  BY <1>7 DEF JobDone, Shutdown, WakeUp, JobNew
<1>8. ASSUME \/ ReloadManifest \/ SetOperatorEnabled \/ SetSensitiveMode
             \/ UNCHANGED vars
             \/ \E l \in Languages : QueueTranslation(l)
      PROVE  JobNew'
  <2>1. /\ UNCHANGED <<job, clients, receivers, heard>>
        /\ UNCHANGED worker \/ worker' = "waiting"
    BY <1>8 DEF ReloadManifest, SetOperatorEnabled, SetSensitiveMode,
       QueueTranslation, vars, workerVars
  <2> QED
    BY <2>1 DEF JobNew, Heard
<1> QED
  BY <1>2, <1>3, <1>4, <1>5, <1>6, <1>7, <1>8 DEF Next, Worker

-----------------------------------------------------------------------------
LEMMA SpeechInit == Init => SpeechInv
<1> SUFFICES ASSUME Init
             PROVE  SpeechInv
  OBVIOUS
<1>1. ToSet(<<>>) = {} /\ IsInjective(<<>>)
  BY DEF ToSet, IsInjective
<1>2. SpeechTypeOK
  <2>1. FlagTypes
    BY DEF Init, FlagTypes
  <2>2. QueueTypes
    BY SpeechAssumption DEF Init, QueueTypes, AllEmpty
  <2>3. OtherTypes
    <3>1. NoJob \in [language : Languages \union {None}, cue : 0 .. MaxCues]
      BY SpeechAssumption DEF NoJob
    <3> QED
      BY <3>1, SpeechAssumption DEF Init, OtherTypes, Stages
  <2> QED
    BY <2>1, <2>2, <2>3 DEF SpeechTypeOK, FlagTypes, QueueTypes, OtherTypes
<1>3. TurnsMatchQueues
  BY <1>1 DEF Init, TurnsMatchQueues, AllEmpty
<1>4. QuietInv /\ OrderInv /\ JobInv
  BY DEF Init, QuietInv, OrderInv, JobInv, AllEmpty
<1> QED
  BY <1>2, <1>3, <1>4 DEF SpeechInv

LEMMA SpeechStep == SpeechInv /\ [Next]_vars => SpeechInv'
<1> SUFFICES ASSUME SpeechInv, [Next]_vars
             PROVE  SpeechInv'
  OBVIOUS
<1>1. /\ SpeechTypeOK /\ TurnsMatchQueues /\ QuietInv /\ OrderInv /\ JobInv
      /\ JobSound /\ JobNew
  BY JobParts DEF SpeechInv
<1>2. QueuesGrow /\ ListenersBehind
  BY <1>1 DEF OrderInv, QueuesGrow, ListenersBehind
<1>3. SpeechTypeOK' /\ TurnsMatchQueues' /\ QuietInv'
  BY <1>1, TypesKept, TurnsKept, QuietKept
<1>4. OrderInv'
  BY <1>1, <1>2, QueuesGrowKept, ListenersBehindKept
     DEF OrderInv, QueuesGrow, ListenersBehind
<1>5. JobInv'
  BY <1>1, JobSoundKept, JobNewKept DEF JobInv, JobSound, JobNew, Busy
<1> QED
  BY <1>3, <1>4, <1>5 DEF SpeechInv

LEMMA SpeechAlways == Spec => []SpeechInv
<1> QED
  BY SpeechInit, SpeechStep, PTL DEF Spec

(* _queues, _round_robin and the worker keep their types, and no queue     *)
(* outgrows max_pending_per_language.                                      *)
THEOREM SpeechTypeCorrect == Spec => []SpeechTypeOK
<1>1. SpeechInv => SpeechTypeOK
  BY DEF SpeechInv
<1> QED
  BY <1>1, SpeechAlways, PTL

(* No queue is forgotten by _round_robin, and the worker does not sleep on *)
(* a job.                                                                  *)
THEOREM NoQueueForgotten == Spec => []TurnsMatchQueues
<1>1. SpeechInv => TurnsMatchQueues
  BY DEF SpeechInv
<1> QED
  BY <1>1, SpeechAlways, PTL

(* A private moment, or the operator's switch, empties the queues and lets *)
(* no synthesis under way reach the listeners.                             *)
THEOREM QuietOnceAsked == Spec => QuietWhenAsked
<1> DEFINE Quiet ==
             /\ (sensitive \/ ~enabled)' => (turns = <<>>)'
             /\ worker = "synthesising" /\ worker' = "sending"
                  => enabled /\ ~sensitive
<1>1. SpeechInv /\ SpeechInv' /\ [Next]_vars => [Quiet]_vars
  <2> SUFFICES ASSUME SpeechInv, SpeechInv', Next
               PROVE  Quiet
    OBVIOUS
  <2>1. (sensitive \/ ~enabled)' => (turns = <<>>)'
    BY DEF SpeechInv, QuietInv
  <2>2. ASSUME worker = "synthesising", worker' = "sending"
        PROVE  enabled /\ ~sensitive
    BY <2>2 DEF Next, Worker, Connect, Disconnect, ReloadManifest, Send,
       JobDone, SetOperatorEnabled, SetSensitiveMode, QueueTranslation,
       WakeUp, TakeJob, Synthesised, SynthesisFails, Broadcast, Shutdown,
       workerVars
  <2> QED
    BY <2>1, <2>2
<1> QED
  BY <1>1, SpeechAlways, PTL DEF Spec, QuietWhenAsked

(* Each listener is sent the cues of its language in their order and none  *)
(* twice, across jobs, reconnections and cleared queues.                   *)
THEOREM CuesHeardInOrder == Spec => HeardInOrder
<1> DEFINE Later == \A w \in Listeners :
             heard'[w] # heard[w] => heard'[w] > heard[w] \/ heard'[w] = 0
<1>1. SpeechInv /\ [Next]_vars => [Later]_vars
  <2> SUFFICES ASSUME SpeechInv, Next, NEW w \in Listeners,
                      heard'[w] # heard[w]
               PROVE  heard'[w] > heard[w] \/ heard'[w] = 0
    OBVIOUS
  <2>1. /\ heard \in [Listeners -> 0 .. MaxCues] /\ job.cue \in 0 .. MaxCues
        /\ heard[w] \in Nat /\ job.cue \in Nat
    BY SpeechAssumption DEF SpeechInv, SpeechTypeOK
  <2>2. ASSUME NEW v \in Listeners, NEW l \in Languages, Connect(v, l)
        PROVE  heard'[w] = 0
    BY <2>1, <2>2 DEF Connect
  <2>3. ASSUME NEW v \in Listeners, Send(v)
        PROVE  heard'[w] > heard[w]
    <3>1. /\ w = v /\ w \in receivers /\ worker = "sending"
          /\ clients[w] # None /\ heard'[w] = job.cue
      BY <2>1, <2>3 DEF Send
    <3>2. heard[w] < job.cue
      BY <3>1 DEF SpeechInv, JobInv
    <3> QED
      BY <2>1, <3>1, <3>2
  <2>4. \/ \E v \in Listeners : Send(v) \/ Disconnect(v)
        \/ \E v \in Listeners, l \in Languages : Connect(v, l)
        \/ JobDone
    BY ListenersUntouched
  <2> QED
    BY <2>2, <2>3, <2>4 DEF Disconnect, JobDone
<1> QED
  BY <1>1, SpeechAlways, PTL DEF Spec, HeardInOrder

=============================================================================

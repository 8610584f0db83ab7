---------------------------- MODULE SpeechManager ----------------------------
(***************************************************************************)
(* TranslationSpeechManager: final translated cues are read aloud to those *)
(* who listen. One worker takes the languages in turn and hands each job   *)
(* to a synthesis thread; the queues are bounded and lose their oldest     *)
(* job. Requests, listeners and the worker share the event loop; they      *)
(* interleave at the synthesis and at every send.                          *)
(*                                                                         *)
(* The hub offers each cue of a language once, in their order (CaptionHub: *)
(* TranslationsInOrder), so that a cue here is a number, and _queued_cues  *)
(* and _recent_cues, which refuse a cue offered again, never do.           *)
(***************************************************************************)
EXTENDS Integers, Sequences, FiniteSets, SequencesExt

CONSTANTS
    Languages,
    Listeners,      \* audio sockets
    None,
    max_pending_per_language,
    MaxCues         \* bound on the cues offered in each language

ASSUME SpeechAssumption ==
    /\ None \notin Languages
    /\ max_pending_per_language \in Nat \ {0} /\ MaxCues \in Nat

VARIABLES
    packs,          \* languages with an installed voice
    enabled,        \* _operator_enabled
    sensitive,      \* _sensitive_mode
    clients,        \* of each listener: its language, or None
    queues,         \* of each language: the cues to speak
    turns,          \* _round_robin
    worker,         \* "none", "waiting", or what it does with its job
    event,          \* _worker_event is set
    job,            \* _active_job
    receivers,      \* those the payload is still to be sent to
    dead,           \* those a send to has failed
    offered,        \* of each language: the last cue the hub offered
    heard           \* history: the last cue each listener was sent

controlVars == <<packs, enabled, sensitive>>
queueVars == <<queues, turns>>
workerVars == <<worker, event, job, receivers, dead>>
vars == <<controlVars, clients, queueVars, workerVars, offered, heard>>

NoJob == [language |-> None, cue |-> 0]
Heard(language) == {w \in Listeners : clients[w] = language}
AllEmpty == [l \in Languages |-> <<>>]
Stages == {"none", "waiting", "ready", "synthesising", "sending", "reporting"}

Init ==
    /\ packs = Languages /\ enabled = TRUE /\ sensitive = FALSE
    /\ clients = [w \in Listeners |-> None]
    /\ queues = AllEmpty /\ turns = <<>>
    /\ worker = "none" /\ event = FALSE /\ job = NoJob
    /\ receivers = {} /\ dead = {}
    /\ offered = [l \in Languages |-> 0]
    /\ heard = [w \in Listeners |-> 0]

-----------------------------------------------------------------------------
(* Requests and sockets.                                                   *)

(* Without a voice the socket is told so, and kept out.                    *)
Connect(w, l) ==
    /\ clients[w] = None /\ w \notin receivers \union dead
    /\ l \in packs /\ enabled
    /\ clients' = [clients EXCEPT ![w] = l]
    /\ heard' = [heard EXCEPT ![w] = 0]
    /\ UNCHANGED <<controlVars, queueVars, workerVars, offered>>

Disconnect(w) ==
    /\ clients[w] # None
    /\ clients' = [clients EXCEPT ![w] = None]
    /\ UNCHANGED <<controlVars, queueVars, workerVars, offered, heard>>

(* The manifest is read again after an installation or a removal.          *)
ReloadManifest ==
    /\ packs' \in SUBSET Languages
    /\ UNCHANGED <<enabled, sensitive, clients, queueVars, workerVars, offered,
                   heard>>

ClearQueues == queues' = AllEmpty /\ turns' = <<>>

SetOperatorEnabled ==
    /\ enabled' = ~enabled
    /\ IF enabled THEN ClearQueues ELSE UNCHANGED queueVars
    /\ UNCHANGED <<packs, sensitive, clients, workerVars, offered, heard>>

SetSensitiveMode ==
    /\ sensitive' = ~sensitive
    /\ IF sensitive THEN UNCHANGED queueVars ELSE ClearQueues
    /\ UNCHANGED <<packs, enabled, clients, workerVars, offered, heard>>

-----------------------------------------------------------------------------
(* Mutant of Room: the newest is dropped, and replaced. *)
RoomAtTheEnd(queue) ==
    IF Len(queue) < max_pending_per_language THEN queue
    ELSE SubSeq(queue, 2, Len(queue)) \o <<Head(queue)>>

Room(queue) ==
    IF Len(queue) < max_pending_per_language THEN queue ELSE Tail(queue)

Accepted(l) == enabled /\ ~sensitive /\ l \in packs /\ Heard(l) # {}

QueueTranslation(l) ==
    /\ offered[l] < MaxCues
    /\ offered' = [offered EXCEPT ![l] = @ + 1]
    /\ IF Accepted(l)
       THEN /\ queues' = [queues EXCEPT
                            ![l] = Append(Room(@), offered[l] + 1)]
            /\ turns' = IF Contains(turns, l) THEN turns ELSE Append(turns, l)
            /\ worker' = IF worker = "none" THEN "waiting" ELSE worker
            /\ event' = TRUE
       ELSE UNCHANGED <<queueVars, worker, event>>
    /\ UNCHANGED <<controlVars, clients, job, receivers, dead, heard>>

-----------------------------------------------------------------------------
(* The worker.                                                             *)

WakeUp ==
    /\ worker = "waiting" /\ event
    /\ worker' = "ready" /\ event' = FALSE
    /\ UNCHANGED <<controlVars, clients, queueVars, job, receivers, dead,
                   offered, heard>>

(* Mutant of TurnsAfter: a language with more to say loses its turn. *)
TurnsSpent(l, rest) == rest

TurnsAfter(l, rest) ==
    IF Len(queues[l]) > 1 THEN Append(rest, l) ELSE rest

(* _pop_next; a job nobody listens to is dropped on the spot.              *)
TakeJob ==
    /\ worker = "ready"
    /\ IF turns = <<>>
       THEN worker' = "waiting" /\ UNCHANGED <<queueVars, job>>
       ELSE LET l == Head(turns) IN
            /\ turns' = TurnsAfter(l, Tail(turns))
            /\ queues' = [queues EXCEPT ![l] = Tail(@)]
            /\ IF Heard(l) = {} THEN UNCHANGED <<worker, job>>
               ELSE /\ worker' = "synthesising"
                    /\ job' = [language |-> l, cue |-> Head(queues[l])]
    /\ UNCHANGED <<controlVars, clients, event, receivers, dead, offered,
                   heard>>

(* Of the listeners of this moment.                                        *)
Broadcast(stage) ==
    IF Heard(job.language) = {}
    THEN worker' = "ready" /\ job' = NoJob /\ UNCHANGED receivers
    ELSE /\ worker' = stage /\ receivers' = Heard(job.language)
         /\ UNCHANGED job

(* Mutant of Synthesised: the result is sent whatever happened meanwhile. *)
SynthesisedUnchecked ==
    /\ worker = "synthesising"
    /\ Broadcast("sending")
    /\ UNCHANGED <<controlVars, clients, queueVars, event, dead, offered,
                   heard>>

(* The flags are looked at when the thread comes back.                     *)
Synthesised ==
    /\ worker = "synthesising"
    /\ IF sensitive \/ ~enabled
       THEN worker' = "ready" /\ job' = NoJob /\ UNCHANGED receivers
       ELSE Broadcast("sending")
    /\ UNCHANGED <<controlVars, clients, queueVars, event, dead, offered,
                   heard>>

(* The voice fails, or has been removed: the listeners are told.           *)
SynthesisFails ==
    /\ worker = "synthesising"
    /\ Broadcast("reporting")
    /\ UNCHANGED <<controlVars, clients, queueVars, event, dead, offered,
                   heard>>

Send(w) ==
    /\ worker \in {"sending", "reporting"} /\ w \in receivers
    /\ receivers' = receivers \ {w}
    /\ \/ /\ clients[w] # None
          /\ heard' = IF worker = "sending"
                      THEN [heard EXCEPT ![w] = job.cue] ELSE heard
          /\ UNCHANGED dead
       \/ dead' = dead \union {w} /\ UNCHANGED heard
    /\ UNCHANGED <<controlVars, clients, queueVars, worker, event, job,
                   offered>>

JobDone ==
    /\ worker \in {"sending", "reporting"} /\ receivers = {}
    /\ worker' = "ready" /\ job' = NoJob /\ dead' = {}
    /\ clients' = [w \in Listeners |->
                      IF w \in dead THEN None ELSE clients[w]]
    /\ UNCHANGED <<controlVars, queueVars, event, receivers, offered, heard>>

Shutdown ==
    /\ ClearQueues
    /\ worker' = "none" /\ event' = FALSE /\ job' = NoJob
    /\ receivers' = {} /\ dead' = {}
    /\ offered' = [l \in Languages |-> MaxCues]
    /\ UNCHANGED <<controlVars, clients, heard>>

-----------------------------------------------------------------------------
Worker ==
    \/ WakeUp \/ TakeJob \/ Synthesised \/ SynthesisFails \/ JobDone
    \/ \E w \in Listeners : Send(w)

Next ==
    \/ \E w \in Listeners : (\E l \in Languages : Connect(w, l))
                            \/ Disconnect(w)
    \/ \E l \in Languages : QueueTranslation(l)
    \/ ReloadManifest \/ SetOperatorEnabled \/ SetSensitiveMode \/ Shutdown
    \/ Worker

Spec == Init /\ [][Next]_vars
(* The loop runs what is ready, a synthesis returns and a send ends.       *)
FairSpec == Spec /\ WF_vars(Worker)

-----------------------------------------------------------------------------
SpeechTypeOK ==
    /\ packs \subseteq Languages
    /\ enabled \in BOOLEAN /\ sensitive \in BOOLEAN /\ event \in BOOLEAN
    /\ clients \in [Listeners -> Languages \union {None}]
    /\ queues \in [Languages -> Seq(1 .. MaxCues)]
    /\ \A l \in Languages : Len(queues[l]) <= max_pending_per_language
    /\ turns \in Seq(Languages)
    /\ worker \in Stages
    /\ job \in [language : Languages \union {None}, cue : 0 .. MaxCues]
    /\ receivers \subseteq Listeners /\ dead \subseteq Listeners
    /\ offered \in [Languages -> 0 .. MaxCues]
    /\ heard \in [Listeners -> 0 .. MaxCues]

(* No queue is forgotten: a language has a turn, and one turn only, as     *)
(* long as it has a job, and the worker is awake or about to be.           *)
TurnsMatchQueues ==
    /\ IsInjective(turns)
    /\ ToSet(turns) = {l \in Languages : queues[l] # <<>>}
    /\ worker = "waiting" /\ turns # <<>> => event
    /\ worker = "none" => turns = <<>>

(* In a private moment, or once the operator has turned speech off,        *)
(* nothing is waiting and no job reaches its listeners, but for the sends  *)
(* that had begun.                                                         *)
QuietWhenAsked ==
    [][/\ (sensitive \/ ~enabled)' => (turns = <<>>)'
       /\ worker = "synthesising" /\ worker' = "sending"
              => enabled /\ ~sensitive]_vars

(* A listener hears the cues of a language in their order, none twice,     *)
(* whatever was dropped between them.                                      *)
HeardInOrder ==
    [][\A w \in Listeners :
          heard'[w] # heard[w] => heard'[w] > heard[w] \/ heard'[w] = 0]_vars

(* A cue that was queued is spoken, dropped or cleared: it does not wait   *)
(* behind other languages for ever.                                        *)
QueuesEmpty == \A l \in Languages : queues[l] # <<>> ~> queues[l] = <<>>

=============================================================================

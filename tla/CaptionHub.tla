----------------------------- MODULE CaptionHub -----------------------------
(***************************************************************************)
(* CaptionHub (app/broadcast.py): the tasks of one asyncio event loop that *)
(* share the hub. A task runs without interruption until it awaits, and    *)
(* the awaits that matter are the sends: a socket with a full buffer       *)
(* suspends the sender after its message was written, and every other task *)
(* may run before the sender goes on to the next client.                   *)
(*                                                                         *)
(*   publisher  the transcription task, one publish() at a time            *)
(*   worker     the translation worker task                                *)
(*   notices    requests of the operator or the service leader: blank,     *)
(*              resume, clear; several may be running                      *)
(*   Stop       cancels the publisher, then drains the worker              *)
(*   clients    WebSockets that connect, break and disconnect              *)
(*                                                                         *)
(* One publish carries one cue revision, there is one translated language, *)
(* and the operator's language limits leave it active.                     *)
(***************************************************************************)
EXTENDS TranslationQueues, Subsequences

CONSTANTS
    Clients,        \* WebSocket connections
    LangOf,         \* the language each connection asked for
    Source, Target, \* English, and the translated language
    Requests,       \* bound: operator requests running at once
    NoJob, NoCue, NoCaption,
    MaxRevision,    \* bound: revisions of a cue
    MaxEra,         \* bound: blanks, resumes and clears
    MaxGeneration   \* bound: scheduler clears, drain timeouts included

ASSUME HubAssumption ==
    /\ Languages = {Target} /\ Source # Target
    /\ LangOf \in [Clients -> {Source, Target}]
    /\ NoJob \notin Job /\ NoCue \notin Units

VARIABLES
    clients,        \* _clients, in connection order
    viewers,        \* _viewer_clients
    broken,         \* connections on which a send now raises
    received,       \* history: what each connection was last sent
    mode,           \* _sensitive_mode
    resumeWindow,   \* inside _sensitive_resume_ignore_until
    ledger,         \* SourceUnitBuilder: the open cue and its revision
    era,            \* history: how often blank, resume or clear ran
    born,           \* history: the era each cue was opened in, 0 before
    current,        \* _current
    running,        \* the transcription task is alive
    pub,            \* the publisher's progress
    worker,         \* the translation worker's progress
    inFlight,       \* _translation_in_flight
    awake,          \* _translation_worker_event is set
    idle,           \* _translation_idle_event is set
    drain,          \* drain_translation_work: "waiting", "done", or "cut"
                    \* short by a second Stop
    notices         \* progress of each operator request

audienceVars == <<clients, viewers, broken>>
privacyVars == <<mode, resumeWindow, ledger, era, born, current>>
workerVars == <<worker, inFlight, awake, idle>>
vars == <<schedulerVars, audienceVars, received, privacyVars, running, pub,
          workerVars, drain, notices>>

(* What a connection can have been sent last. A translated client gets the *)
(* state snapshot on connecting and afterwards only translations.          *)
Caption == [unit : Units, rev : 1 .. MaxRevision, final : BOOLEAN]
Message(kind, caption) == [kind |-> kind, caption |-> caption]
Absent == Message("absent", NoCaption)
Paused == Message("paused", NoCaption)
Resumed == Message("resumed", NoCaption)
Cleared == Message("cleared", NoCaption)
Blank == Message("blank", NoCaption)

ClientsOf(cs, lang) == Filter(cs, {c \in Clients : LangOf[c] = lang})

(* A task that sends one message to a list of clients. *)
NoTask == [phase |-> "none", todo |-> <<>>, dead |-> {}, message |-> Blank,
           translate |-> FALSE]
Sending(to, message) ==
    [phase |-> "sending", todo |-> to, dead |-> {}, message |-> message,
     translate |-> ClientsOf(to, Target) # <<>>]

(* ws.send_json to the next client: written, or the client found dead. *)
AfterSend(task) ==
    LET c == Head(task.todo) IN
    [task EXCEPT !.todo = Tail(@),
                 !.dead = IF c \in broken THEN @ \cup {c} ELSE @]

ReceivedAfter(task) ==
    LET c == Head(task.todo) IN
    IF c \in broken \/ task.message = Blank THEN received
    ELSE [received EXCEPT ![c] = task.message]

(* _remove_dead_clients and the end of _broadcast: _clients only. *)
Without(cs, dead) == Filter(cs, Clients \ dead)

(* _broadcast_caption goes language by language, first come first. *)
GroupedByLanguage(cs) ==
    IF cs = <<>> THEN <<>>
    ELSE LET first == LangOf[Head(cs)] IN
         ClientsOf(cs, first)
            \o Filter(cs, {c \in Clients : LangOf[c] # first})

-----------------------------------------------------------------------------
(* The translation worker.                                                 *)

Rest ==
    /\ inFlight' = NoJob
    /\ worker' = NoTask
    /\ idle' = TRUE

(* The inner loop of _translation_worker_loop up to its next await: start  *)
(* translating, or skip every job when the language has no viewer, or rest.*)
RunLoop(cs) ==
    \/ /\ ~HasJobs
       /\ Rest
       /\ UNCHANGED schedulerVars
    \/ /\ HasJobs
       /\ ClientsOf(cs, Target) # <<>>
       /\ \E i \in 1 .. Len(roundRobin) :
            /\ IsNextTurn(i)
            /\ IsCurrent(Head(queues[roundRobin[i]]))
            /\ inFlight' = Head(queues[roundRobin[i]])
            /\ PopAt(i)
       /\ worker' = [NoTask EXCEPT !.phase = "translating"]
       /\ UNCHANGED idle
    \/ /\ HasJobs
       /\ ClientsOf(cs, Target) = <<>>
       /\ queues' = [lang \in Languages |-> <<>>]
       /\ roundRobin' = <<>>
       /\ degraded' = {}
       /\ Rest
       /\ UNCHANGED <<latest, generation>>

WorkerWake ==
    /\ worker.phase = "none"
    /\ awake
    /\ awake' = FALSE
    /\ RunLoop(clients)
    /\ UNCHANGED <<audienceVars, received, privacyVars, running, pub,
                   drain, notices>>

(* translate_async returned: drop the result, or send it to the first      *)
(* viewer. A draft that could not be translated only sends a status.       *)
WorkerTranslated ==
    /\ worker.phase = "translating"
    /\ LET to == ClientsOf(clients, Target)
           caption == [unit |-> inFlight.unit, rev |-> inFlight.rev,
                       final |-> inFlight.final]
       IN  \/ /\ ~IsCurrent(inFlight) \/ to = <<>>
              /\ RunLoop(clients)
              /\ UNCHANGED received
           \/ /\ IsCurrent(inFlight) /\ to # <<>>
              /\ \E applied \in BOOLEAN :
                   LET task == Sending(to,
                                  IF applied \/ inFlight.final
                                  THEN Message("translation", caption)
                                  ELSE Blank)
                   IN  /\ received' = ReceivedAfter(task)
                       /\ worker' = AfterSend(task)
              /\ UNCHANGED <<schedulerVars, inFlight, idle>>
    /\ UNCHANGED <<audienceVars, privacyVars, running, pub, awake, drain,
                   notices>>

WorkerSend ==
    /\ worker.phase = "sending"
    /\ worker.todo # <<>>
    /\ received' = ReceivedAfter(worker)
    /\ worker' = AfterSend(worker)
    /\ UNCHANGED <<schedulerVars, audienceVars, privacyVars, running, pub,
                   inFlight, awake, idle, drain, notices>>

WorkerFinish ==
    /\ worker.phase = "sending"
    /\ worker.todo = <<>>
    /\ clients' = Without(clients, worker.dead)
    /\ RunLoop(Without(clients, worker.dead))
    /\ UNCHANGED <<viewers, broken, received, privacyVars, running, pub,
                   awake, drain, notices>>

-----------------------------------------------------------------------------
(* The publisher.                                                          *)

(* Mutant of NextRevision: the revision is not counted up. *)
SameRevision(unit) == IF unit = ledger.unit THEN ledger.rev ELSE 1

(* ingest: a further revision of the open cue, or a fresh cue. *)
NextRevision(unit) == IF unit = ledger.unit THEN ledger.rev + 1 ELSE 1

MayRevise(unit) ==
    \/ unit = ledger.unit
    \/ ledger.unit = NoCue /\ born[unit] = 0

(* publish() up to its first await. Everything but the sends is done here. *)
PublishSegment(unit, final) ==
    LET caption == [unit |-> unit, rev |-> NextRevision(unit),
                    final |-> final]
        to == GroupedByLanguage(clients)
    IN
    /\ running /\ pub.phase = "none"
    /\ mode = "live" /\ ~resumeWindow
    /\ MayRevise(unit)
    /\ NextRevision(unit) <= MaxRevision
    /\ ledger' = IF final THEN [unit |-> NoCue, rev |-> 0]
                 ELSE [unit |-> unit, rev |-> NextRevision(unit)]
    /\ born' = [born EXCEPT ![unit] = IF @ = 0 THEN era ELSE @]
    /\ current' = Message("caption", caption)
    /\ IF to = <<>> THEN UNCHANGED <<pub, received>>
       ELSE LET task == Sending(to, Message("caption", caption)) IN
            /\ pub' = AfterSend(task)
            /\ received' = IF LangOf[Head(to)] = Source
                           THEN ReceivedAfter(task) ELSE received
    /\ UNCHANGED <<schedulerVars, audienceVars, mode, resumeWindow, era,
                   running, workerVars, drain, notices>>

PublishSend ==
    /\ pub.phase = "sending"
    /\ pub.todo # <<>>
    /\ pub' = AfterSend(pub)
    /\ received' = IF LangOf[Head(pub.todo)] = Source
                   THEN ReceivedAfter(pub) ELSE received
    /\ UNCHANGED <<schedulerVars, audienceVars, privacyVars, running,
                   workerVars, drain, notices>>

(* Mutant of QueueTranslation: the worker is not woken. *)
QueueWithoutWaking(caption) ==
    /\ Enqueue([lang |-> Target, unit |-> caption.unit, rev |-> caption.rev,
                final |-> caption.final, gen |-> generation])
    /\ idle' = FALSE
    /\ UNCHANGED awake

(* Pacing: a draft is left out when it has too few stable words, or comes  *)
(* too soon or with too little news after the last; a sealed cue never is. *)
MayLeaveOut(caption) == ~caption.final

(* After the last send: queue the translation, under the generation of     *)
(* now.                                                                    *)
QueueTranslation(caption) ==
    /\ Enqueue([lang |-> Target, unit |-> caption.unit, rev |-> caption.rev,
                final |-> caption.final, gen |-> generation])
    /\ awake' = TRUE
    /\ idle' = FALSE

PublishQueue ==
    LET caption == pub.message.caption IN
    /\ pub.phase = "sending"
    /\ pub.todo = <<>>
    /\ clients' = Without(clients, pub.dead)
    /\ \/ /\ pub.translate
          /\ QueueTranslation(caption)
       \/ /\ ~pub.translate \/ MayLeaveOut(caption)
          /\ UNCHANGED <<schedulerVars, awake, idle>>
    /\ pub' = NoTask
    /\ UNCHANGED <<viewers, broken, received, privacyVars, running, worker,
                   inFlight, drain, notices>>

-----------------------------------------------------------------------------
(* Blank, resume and clear.                                                *)

(* _broadcast of a notice, up to the first send. *)
StartNotice(k, message) ==
    IF clients = <<>> THEN UNCHANGED <<notices, received>>
    ELSE LET task == Sending(clients, message) IN
         /\ notices' = [notices EXCEPT ![k] = AfterSend(task)]
         /\ received' = ReceivedAfter(task)

(* Mutant of EraseCueState: the open cue survives. *)
EraseKeepingCue ==
    /\ ClearScheduler
    /\ era' = era + 1
    /\ UNCHANGED ledger

(* What blank, resume and clear erase before they announce themselves. *)
EraseCueState ==
    /\ ledger' = [unit |-> NoCue, rev |-> 0]
    /\ ClearScheduler
    /\ era' = era + 1

SetSensitive(k, enabled) ==
    /\ notices[k].phase = "none"
    /\ era < MaxEra
    /\ mode' = IF enabled THEN "sensitive" ELSE "live"
    /\ resumeWindow' = ~enabled
    /\ EraseCueState
    /\ current' = IF enabled THEN Paused ELSE Resumed
    /\ StartNotice(k, IF enabled THEN Paused ELSE Resumed)
    /\ UNCHANGED <<audienceVars, born, running, pub, workerVars, drain>>

ClearCaptions(k) ==
    /\ notices[k].phase = "none"
    /\ era < MaxEra
    /\ EraseCueState
    /\ current' = Blank
    /\ StartNotice(k, Cleared)
    /\ UNCHANGED <<audienceVars, mode, resumeWindow, born, running, pub,
                   workerVars, drain>>

NoticeSend(k) ==
    /\ notices[k].phase = "sending"
    /\ notices[k].todo # <<>>
    /\ received' = ReceivedAfter(notices[k])
    /\ notices' = [notices EXCEPT ![k] = AfterSend(@)]
    /\ UNCHANGED <<schedulerVars, audienceVars, privacyVars, running, pub,
                   workerVars, drain>>

NoticeEnd(k) ==
    /\ notices[k].phase = "sending"
    /\ notices[k].todo = <<>>
    /\ clients' = Without(clients, notices[k].dead)
    /\ notices' = [notices EXCEPT ![k] = NoTask]
    /\ UNCHANGED <<schedulerVars, viewers, broken, received, privacyVars,
                   running, pub, workerVars, drain>>

(* Three seconds after the resume. *)
ResumeWindowEnds ==
    /\ resumeWindow
    /\ resumeWindow' = FALSE
    /\ UNCHANGED <<schedulerVars, audienceVars, received, mode, ledger, era,
                   born, current, running, pub, workerVars, drain, notices>>

-----------------------------------------------------------------------------
(* Stop and Start.                                                         *)

Outstanding == HasJobs \/ inFlight # NoJob

(* The transcription task is cancelled inside publish, or between two      *)
(* segments; its finally clause drains the translation work.               *)
Stop ==
    /\ running
    /\ running' = FALSE
    /\ pub' = NoTask
    /\ IF Outstanding
       THEN /\ drain' = "waiting"
            /\ awake' = (awake \/ HasJobs)
            /\ idle' = FALSE
       ELSE UNCHANGED <<drain, awake, idle>>
    /\ UNCHANGED <<schedulerVars, audienceVars, received, privacyVars, worker,
                   inFlight, notices>>

(* The worker reported idle in time, and nothing is left. *)
DrainDone ==
    /\ drain = "waiting"
    /\ idle
    /\ ~Outstanding
    /\ drain' = "done"
    /\ UNCHANGED <<schedulerVars, audienceVars, received, privacyVars,
                   running, pub, workerVars, notices>>

(* Mutant of DrainTimeout: the worker is cancelled, its queue kept. *)
DrainTimeoutKeepingQueue ==
    /\ drain = "waiting"
    /\ generation < MaxGeneration
    /\ drain' = "done"
    /\ generation' = generation + 1
    /\ inFlight' = NoJob
    /\ worker' = NoTask
    /\ awake' = FALSE
    /\ idle' = FALSE
    /\ UNCHANGED <<queues, roundRobin, latest, degraded, audienceVars,
                   received, privacyVars, running, pub, notices>>

(* Two seconds are over: the worker is cancelled wherever it awaits, and   *)
(* what is left is dropped.                                                *)
DrainTimeout ==
    /\ drain = "waiting"
    /\ generation < MaxGeneration
    /\ drain' = "done"
    /\ ClearScheduler
    /\ inFlight' = NoJob
    /\ worker' = NoTask
    /\ awake' = FALSE
    /\ idle' = FALSE
    /\ UNCHANGED <<audienceVars, received, privacyVars, running, pub, notices>>

(* Stop pressed again while the first waits (the operator and the service  *)
(* leader both can): the cancellation ends the drain, which leaves the     *)
(* worker and its queue as they are.                                       *)
StopAgain ==
    /\ drain = "waiting"
    /\ drain' = "cut"
    /\ UNCHANGED <<schedulerVars, audienceVars, received, privacyVars,
                   running, pub, workerVars, notices>>

(* start_captions_action; the cue ledger carries over. *)
Start ==
    /\ ~running /\ drain # "waiting"
    /\ running' = TRUE
    /\ drain' = "done"
    /\ UNCHANGED <<schedulerVars, audienceVars, received, privacyVars, pub,
                   workerVars, notices>>

-----------------------------------------------------------------------------
(* The audience. A reconnecting device is a new WebSocket.                 *)

Connect(c) ==
    /\ received[c] = Absent
    /\ clients' = Append(clients, c)
    /\ viewers' = viewers \cup {c}
    /\ received' = [received EXCEPT ![c] =
                        [current EXCEPT !.kind =
                            IF @ = "caption" THEN "snapshot" ELSE @]]
    /\ UNCHANGED <<schedulerVars, broken, privacyVars, running, pub,
                   workerVars, drain, notices>>

(* The network drops the connection; nobody has noticed yet. *)
Break(c) ==
    /\ received[c] # Absent
    /\ c \notin broken
    /\ broken' = broken \cup {c}
    /\ UNCHANGED <<schedulerVars, clients, viewers, received, privacyVars,
                   running, pub, workerVars, drain, notices>>

(* The receive loop of the connection ends. *)
Disconnect(c) ==
    /\ c \in broken
    /\ c \in viewers
    /\ clients' = Without(clients, {c})
    /\ viewers' = viewers \ {c}
    /\ UNCHANGED <<schedulerVars, broken, received, privacyVars, running,
                   pub, workerVars, drain, notices>>

-----------------------------------------------------------------------------
Init ==
    /\ SchedulerInit
    /\ clients = <<>> /\ viewers = {} /\ broken = {}
    /\ received = [c \in Clients |-> Absent]
    /\ mode = "live" /\ resumeWindow = FALSE
    /\ ledger = [unit |-> NoCue, rev |-> 0]
    /\ era = 1 /\ born = [unit \in Units |-> 0]
    /\ current = Blank
    /\ running = FALSE
    /\ pub = NoTask /\ worker = NoTask
    /\ inFlight = NoJob
    /\ awake = FALSE /\ idle = FALSE
    /\ drain = "done"
    /\ notices = [k \in Requests |-> NoTask]

Worker == WorkerWake \/ WorkerTranslated \/ WorkerSend \/ WorkerFinish

Publisher ==
    \/ \E unit \in Units, final \in BOOLEAN : PublishSegment(unit, final)
    \/ PublishSend
    \/ PublishQueue

Operator ==
    \/ \E k \in Requests : \/ \E enabled \in BOOLEAN : SetSensitive(k, enabled)
                           \/ ClearCaptions(k)
                           \/ NoticeSend(k)
                           \/ NoticeEnd(k)
    \/ ResumeWindowEnds
    \/ Stop \/ StopAgain \/ DrainDone \/ DrainTimeout \/ Start

Audience == \E c \in Clients : Connect(c) \/ Break(c) \/ Disconnect(c)

Next == Worker \/ Publisher \/ Operator \/ Audience

Spec == Init /\ [][Next]_vars
-----------------------------------------------------------------------------
(* Properties.                                                             *)

Task == [phase : {"none", "sending", "translating"}, todo : Seq(Clients),
         dead : SUBSET Clients,
         message : [kind : {"caption", "translation", "snapshot", "paused",
                            "resumed", "cleared", "blank"},
                    caption : Caption \cup {NoCaption}],
         translate : BOOLEAN]

(* Every variable has the shape the code gives it. *)
HubTypeOK ==
    /\ clients \in Seq(Clients)
    /\ viewers \in SUBSET Clients /\ broken \in SUBSET Clients
    /\ mode \in {"live", "sensitive"} /\ resumeWindow \in BOOLEAN
    /\ ledger \in [unit : Units \cup {NoCue}, rev : 0 .. MaxRevision]
    /\ born \in [Units -> 0 .. era]
    /\ pub \in Task /\ worker \in Task
    /\ \A k \in Requests : notices[k] \in Task
    /\ inFlight \in Job \cup {NoJob}
    /\ <<awake, idle, running>> \in [1 .. 3 -> BOOLEAN]
    /\ drain \in {"waiting", "done", "cut"}

(* A queued job always finds the worker either running or about to be      *)
(* woken: no interleaving of enqueueing, clearing, skipping, draining and  *)
(* restarting the worker loses the wakeup.                                 *)
NoLostWakeup == HasJobs => awake \/ worker.phase # "none"

(* The idle event, which Stop relies on, is only set while no translation  *)
(* is queued or in flight.                                                 *)
IdleMeansIdle == idle => ~Outstanding

(* Once Stop has returned nothing is left to publish, whichever of the     *)
(* drain's outcomes occurred and however it raced with blanks and clears,  *)
(* unless a second Stop cut the drain short; the next Start and Stop make  *)
(* up for that.                                                            *)
StoppedIsQuiet == ~running /\ drain = "done" => ~Outstanding

(* A translated client is sent the revisions of a cue in growing order and *)
(* none twice: there is one worker, also across Stop and restart.          *)
TranslationsInOrder ==
    [][\A c \in Clients :
          LET before == received[c]
              after == received'[c]
          IN  /\ before # after
              /\ before.kind = "translation" /\ after.kind = "translation"
              /\ before.caption.unit = after.caption.unit
              => before.caption.rev < after.caption.rev
      ]_vars

(* The open cue was opened after the last blank, resume or clear, so text  *)
(* from before it is never revised into what is published after it.        *)
FreshCueAfterErase ==
    ledger.unit # NoCue => born[ledger.unit] = era

=============================================================================

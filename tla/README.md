# Church Cap in TLA+

A verification development for Church Cap (live church captions with translation): specifications of
its stateful parts in TLA+, configurations that let TLC check them on small instances, and theorems
checked by TLAPS. All modules were written from the source; `PROJECT.json` maps each definition to the
lines it stands for, and lists the runs, the mutants that each property rejects, the hazards, the
findings and the theorems.

## 1. The system

Church Cap is a Python server (FastAPI on one asyncio event loop) that listens to a microphone,
recognises English speech, and sends captions and their translations to browsers over WebSockets. A Rust
desktop application (Tauri) starts, watches, stops and updates the server process, the *engine*.

| Component | State it keeps | Operations | Talks to |
|---|---|---|---|
| Translation scheduler `app/translation_scheduler.py` | a queue per language, service order, newest version per cue, degraded languages, generation | enqueue, pop_next, is_current, clear | called by the hub only |
| Caption hub `app/broadcast.py` | clients, current caption, private mode, cue ledger, history, worker task, wake and idle events | publish, blank/resume, clear, connect/disconnect, drain, worker loop | scheduler, source units, store, speech, WebSockets |
| Source units `app/source_units.py` | confirmed and last tokens, open cue and revision, sealed audio end | ingest, break_cue, reset | called by publish, blank, clear |
| Transcript store `app/transcript_store.py` | two cache files (encrypted, plaintext) and a temporary one | load, save, clear, prune | called by the hub from the loop and from threads |
| Caption session `app/main.py`, `app/service_context.py`, `app/metrics.py` | transcription task, approved context and its lock, the reports of runs and their file | start, stop, error end, analyse, approve, re-arm, clear, shutdown | hub, transcriber |
| Transcribers and audio watchdog `app/transcription/` | audio buffer, pending text, stability counters, edge guard, stream, retry back-off | callback, stream, reset_buffer, reopen | feed publish |
| Translated speech `app/tts.py` | queues per language, recent cues, one worker, listeners | queue, blank, synthesise in a thread | fed by the translation worker |
| Service-leader access `app/service_leader_auth.py` | pending pairing, sessions with two expiries | pair, exchange, verify, extend, revoke | HTTP handlers |
| Operator authentication `app/auth.py`, `desktop/.../recovery.rs` | primary and backup store, failures per address | load with repair, save, sign in, throttle, reset | HTTP handlers, supervisor |
| Resource installers `app/main.py`, `app/resource_installer.py`, `scripts/install-tts-voices.py`, `app/windows_cuda_runtime.py`, `app/updater.py` | a status and a child process per kind, voices and their manifest, CUDA runtime | start, poll, install, remove | operator page, speech |
| Desktop supervisor `desktop/src-tauri/src/lifecycle.rs` | snapshot (phase, PID, restart attempts), sender of the current controller | start, stop, restart, reset, update, quit, resume | engine over stdin, stdout and HTTP |
| Engine host `engine/entrypoint.py` | two listeners, shutdown flag, caption state | boot, obey, report, watch its parent | supervisor |

What else the repository contains (configuration, text filters, networking, hardware detection, pages,
localisation, packaging) is listed with its reason in `PROJECT.json`.

How the parts interact. The transcription task publishes a segment: the cue ledger turns it into cue
revisions, the history is saved in a thread, the caption is sent client by client, and one translation job
per language is queued *after* those sends. The worker task takes jobs in turn, translates, checks that
the result is current, and sends it client by client. Requests of the operator and of the service leader
(blank, resume, clear, stop) run as tasks of the same loop between any two awaits. The supervisor and the
engine only exchange lines and health requests; every supervisor thread reads the snapshot, decides, and
publishes later under a new lock.

What is hard, and what correctness means there:

* **Backpressure** (scheduler): drafts may be dropped, sealed cues never; a stale revision must not stay
  queued; no language starves.
* **Sends are awaits** (hub): everything read before a send may be stale after it: the private mode, the
  scheduler's generation, a revision's currency, the list of clients. The worker must not sleep on work,
  and Stop must leave nothing running.
* **A store without a lock** (transcript): threads and the loop interleave file operations, threads
  outlive the task that waits for them, and the process can die anywhere. The cache must catch up with the
  transcript, must be deleted when it should be, and must not exist in two formats.
* **Checks and publications under separate locks** (supervisor): start, stop, exit, late lines, late health
  answers, back-off and restart threads interleave. One engine at a time, *Stopped* only when it is gone,
  stops that end, restarts that are bounded.
* **Overlapping windows** (source units): the recogniser hears each word several times, mishears the newest
  and reports inexact times; no word may be repeated or lost, and what was shown as stable must stay, though
  the text of a cue is searched for loops of the recogniser, which are cut out of it.
* **Four threads of control on one object** (transcriber): the audio callback, the executor, the stream
  coroutine and the requests share buffer and pending text without a common lock. Nothing private and nothing
  from before a stall may come back; a dead input must be tried again.
* **Cancellation** (session): what a Stop does depends on the await at which it meets the task. A run must
  keep its context, be reported once, also over a crash, and end.
* **Flags and queues around a thread** (speech): a synthesis takes as long as it takes.
* **Two files, two limits, one-time codes** (access): a crash between two writes must not bring an old
  password back; a session must end however it is extended; a code must open one session.
* **Checks before an await, children that outlive the server** (installers): two requests may both pass a
  check; a failed installation or removal must leave what worked.

## 2. Plan

Order: what the audience and the operator depend on first. All modules of the plan are written.

1. `TranslationQueues`, `TranslationScheduler`, `NewestRevisionDelivery` with proofs.
2. `CaptionHub`: the tasks around the scheduler; it EXTENDS `TranslationQueues`, so both specifications use
   the same queue operators.
3. `TranscriptRetention`: memory, cache files, crash and restart.
4. `EngineSupervisor`: supervisor and engine.
5. `SourceUnits`, 6. `LiveTranscriber`: from sound to cues. 7. `CaptionSession`. 8. `SpeechManager`.
9. `AppAccess`. 10. `ResourceInstalls`.

11. A `...Proofs` module for each of them; `CaptionHubProofs` holds those of the hub, of the source units and
   of the transcript, which belong to the hub and rest on the same lemmas about sequences (section 5).

Type invariants and the lemmas of an inductive invariant (`HubTypeOK`, `IdleMeansIdle`, `SenderHasReceiver`,
`OneStream`, `TurnsMatchQueues`, `DegradedIsFull` and the other `...TypeOK`) are stated in the modules; TLC
agreed with each of them in the instances below. They belong to the proofs rather than to the runs: section 5
says which of them are proved.

What the plan has left: the type invariants of the hub, the access files and the installers (section 5).

## 3. The modules

### TranslationQueues, TranslationScheduler, NewestRevisionDelivery

`TranslationQueues` translates `BoundedFairTranslationScheduler`: `queues`, `roundRobin`, `latest`,
`degraded` and `generation` are its fields of the same names (`latest` gives revision 0 where the
dictionary has no key). `Enqueue` is the whole method: it removes older revisions of the cue and then has
room, drops the oldest draft, goes over capacity with a sealed cue, or rejects a draft. `PopAt(i)` takes
the head of the i-th language of the service order, and `IsNextTurn(i)` says that this is the first one
with work. `ClearScheduler` is `clear`.

`TranslationScheduler` adds the two callers: `Submit` (`_queue_translation_batch` for one language), `Take`
(the worker's pop, and dropping a stale job), `Publish` and `DropStale` (the check before publishing) and
`Clear`. `shown` and `passedOver` are history variables. Every language has a viewer all the time here.

`NewestRevisionDelivery` is the abstract specification: per language and cue one newest accepted version;
only that is delivered; a sealed one is delivered eventually; a clear forgets everything. There is no
queue, turn or capacity in it. The refinement mapping is `accepted <- latest, delivered <- shown`.

### CaptionHub

The tasks of the event loop. A step of the model is what a task does from one awaited `send_json` to the
next: the message to the client at the head of `todo` is written, then the task is suspended (a client
with a full buffer) and any other task may run. A send that does not suspend is the same steps in a row.

| Model | Code |
|---|---|
| `PublishSegment`, `PublishSend`, `PublishQueue` | `publish`, `_broadcast_caption`: up to the first await; one send; the rest, with `_queue_translation_batch` |
| `WorkerWake`, `WorkerTranslated`, `WorkerSend`, `WorkerFinish` | `_translation_worker_loop`, `_broadcast_translated_caption` |
| `SetSensitive`, `ClearCaptions`, `NoticeSend`, `NoticeEnd` | `set_sensitive_mode`, `clear`, `_broadcast` |
| `Stop`, `StopAgain`, `DrainDone`, `DrainTimeout`, `Start` | `stop_captions_action`, `drain_translation_work`, `start_captions_action` |
| `Connect`, `Break`, `Disconnect`, `ResumeWindowEnds` | `connect`, the network, `disconnect`, the three seconds after a resume |

Pacing (`_should_translate_partial`) is the choice `MayLeaveOut`: any draft may be left out, a sealed cue never.

`_lock` is never held across an await, so it needs no variable. `received` (what a connection was sent
last), `era` and `born` (which blanks and clears a cue was opened after) and `drain = "cut"` are history.
Abstractions: one translated language, one publisher (`/api/test-caption` could be a second), one cue
revision per publish, language limits that leave the language active. Viewer-count broadcasts are left
out: they carry no caption and change no state of the hub. A timing-mode change, which also clears the scheduler, is
in `TranslationScheduler.Clear` only.

### TranscriptRetention

`memory` is the transcript held by the hub; `encrypted`, `plaintext` and `strays` are the cache files as
sets of cues; `task[w]` is where each writer stands: the event loop (`Loop`), which saves or deletes during
a poll, a clear or a change of the retention, and the executor threads that `publish` saves from. Each file
operation (`Save`, `Replace`, `UnlinkOther`, `UnlinkEncrypted`, `UnlinkPlaintext`), each copy of history
and of the draft (`CopyHistory`, `CopyDraft`) and each assignment after them (`MarkWritten`) is a step.
`StopCaptions` cancels the publisher while its thread goes on. `Crash` ends all writers at any point;
`Restart` comes with or without the cryptography package and runs the start-up pruning.
Abstractions: a cue is a number and its revisions are one; one length of the retention window (`Expire`
moves its edge); corrupt files and lost keys are left out.

### EngineSupervisor

The supervisor's snapshot (`status`), the sender of the current controller (`control`), and everything that
reads or writes them: the main thread with the commands of window and tray, one at a time; one back-off
thread after another; the update task; restart threads; for each engine a controller, an output reader, a
health thread and a budget thread. Snapshot and sender have separate locks, and so every check and every
publication is a step of its own (`CheckStart`, `Spawn`, `PublishStart`; `RequestStop`, `PublishStopping`,
`SendStop`; `SeeExit`, `ClearControl`, `PublishExit`; `ReadEvent`, `PublishEvent`; `HealthAnswers`,
`PublishHealth`; ...). An engine boots, listens (two engines share the ports, so the second one fails),
prints lines, may run captions, may obey or ignore the shutdown line, may crash, and ends when its parent is
gone. A health request is answered by whichever engine listens.
Left out: opening browsers, the log tail, tray texts, the self-test, the download of an update, threads that
cannot be created, a wait that fails. Reading the snapshot twice in one health condition is one step.

### SourceUnits

`SourceUnitBuilder`. `Ingest` is one whole call of `ingest` with one hypothesis: tokens with times
(`TokenAt`, `Hypothesis`), stripping of what was confirmed before (`StripCommittedOverlap`, by times or by
words), local agreement (`CanAlign`, `TimedAlignment`, `Agreement`), `Confirm`, sealing at a `Boundary`
(`SealReady`), and the new draft (`DraftUpdate`). What is sent is the text of the tokens (`Text`, the code's
`_join`): if a text of at least `loopWords` words holds a phrase that is said `loopRepeats` times in a row and covers enough of
it (`Loops`), one phrase is left of the loop (`Collapse`). The stable words are counted in tokens, before
that, as in the code; the tests against the minimum and the text sent last are made after it. `Reset` is a blank or clear. The speaker and the
recogniser are external: each pass hears a window of the last words, may take the newest one for another
word, and may be repeated over the same audio. A word carries its position in the speech (`pos`), which the
code does not see: the properties compare the confirmed words with what was said. Loops over tokens are
recursive functions and `Filter`.
Abstractions: a word is its normal form and whether it ends a sentence; the wall clock is a count of ticks. Only
hypotheses that keep their words and times are modelled: a hypothesis of ten words or more that holds a loop is
collapsed by the transcriber too, and the builder then has one time range for the whole text; the window of the run is
shorter than `loopWords`. `Collapse` is `collapse_repeated_phrase`: its values on a few hundred random texts
were compared with the function's and agree.

`Subsequences` holds `Filter(s, kept)`, the program's list comprehension `[x for x in s if ...]`, which the
ledger and the hub's lists of clients share. What is kept is given as a set: the provers can reason about that.

### LiveTranscriber

`FasterWhisperTranscriber` and `WhisperLiveTranscriber` share a structure and are modelled once; `map` names
lines of either. The callback (`AudioCallback`, inside `Tick`), the executor (`LoadModel`, `Reopen`,
`FinishPass`), the coroutine (`StartStream`, `StartPass`, `AbortStalledStream`, `YieldPartial`, `CheckFinal`,
`YieldFinal`) and the requests (`Blank`, `ResumeReset`, `ResumeLift`, `ResumeEnd`, `Stop`) interleave. Time is counted in
update intervals; a tick brings silence, noise or a word. Of a word only its origin is kept: heard in the open,
in a private moment, or before the input was reopened. The edge guard keeps a weak last word back until it
is heard again with new speech (`ReleasedEdge`, `WithheldEdge`). `Publish` is the hub's check: private mode
and the three seconds after a resume. Which device is opened, sample rates and the silent-input warning are
left out; `DriverStalls` is the audio driver.

### CaptionSession

The transcription task (`created`, `running`, `failing`, `closing`, `draining`, `abandoning`), the requests
that wait for it, the service context, and the reports with their file. An action is what runs between two
awaits. A cancellation is delivered where the task is: before the first step (`NeverRuns`), in the stream
(`Unwind`), while the sampler is awaited (`Close`), in the drain (`DrainCut`). `AnalyseContext` checks, then
`BeginAnalysis`, `EndAnalysis`, `CompleteAnalysis` take the manager's lock in turn; `ApproveContext` checks before it
awaits its body. `Persist` may fail at any write, `Exit` and `Boot` are a crash or a shutdown and the next
start. The text of a context is one value; the counters of a report are left out.

### SpeechManager

`TranslationSpeechManager`: bounded queues, round robin, one worker, the synthesis thread, listeners that
come, go and die during a send, the operator's switch, blanks, and the reloaded manifest. The hub offers each
final of a language once and in order (`CaptionHub!TranslationsInOrder`), which is why `_recent_cues` never
refuses one here.

### AppAccess

The operator's two files, the pause after wrong passwords, pairing codes and leader sessions, with the
handlers that use them. `SaveStore` and `WriteBackup` are the two writes with a crash between them;
`Bootstrap` is the start with its repairs; `ResetBackup`, `ResetPrimary` and `ResetFails` are the desktop's reset;
`Authorise` is the sign-in check that a thread runs before the handler (`Handle`), with other requests in
between. The copy of an old installation's file into a missing first file (`auth.py:323`) is left out. Clocks are ages
in ticks. Hashing, signing and the origin checks of a form are one comparison each.

### ResourceInstalls

Per kind a status, the tracked child, and requests between their check and their start; the children with
what they change step by step (`FetchVoice`, `ClearPlace`, `PlaceVoice`, `ReadList`, `WriteList`; `SetAside`, `SwapIn`,
`SwapFails`); the
removal of voices in its steps (`StageVoice`, `PrepareManifest`, `ReplaceManifest`, `Undo`, `ClearStaged`); the polls;
`Kill` and `Restart`. There is one handler definition per kind, for its start and for its failure. What is
downloaded and the percentages shown are abstracted. `Ready` does not ask whether the speech runtime can be imported
(`main.py:3570`): an installer that ends with zero has installed it. `Undo` does not fail: a second failure while
the first is undone is left out.

## 4. The runs

| Run | Instance | What it shows |
|---|---|---|
| `Scheduler` | 1 language and 3 cues, or 2 languages and 2 cues; capacity 2, 2 revisions, 1 clear (0.5M states) | Queue rules, service order, bounded overtaking, and the whole refinement with its fairness. |
| `HubWorker` | two translated clients, 1 cue, 2 revisions, 1 request at a time, 2 eras (1.8M states) | Wakeups, Stop, a second Stop and the timeout, erased cues, order of revisions. |
| `Retention` | 1 thread and a crash, 1 thread and an ageing transcript, or 2 saving threads; 2 cues (0.4M states) | One cache format after every start; the cache catches up; disabling saving leaves nothing. |
| `RetentionErasePoll` | 1 cue, 1 request | **violated:** a cleared transcript stays on disk for ever. |
| `SupervisorOwned` | starts and stops, any one command, or automatic restarts; 2 or 3 engines, 1 or 2 crashes (1.5M states) | One engine; Stopped means gone; the restart budget holds. |
| `SupervisorEnds` | restart and Start, 3 engines, fairness | Stops end engines; an engine that lost its sender ends. |
| `SourceUnits` | 5 words with one said three times (a loop here), a sentence end and confusable neighbours, window of 4, 2 passes, 1 reset, cues of 2 to 5 words | The confirmed words spell the speech; only a loop takes stable words back. |
| `Transcriber` | window and buffer 2, silence 1, stall 2, back-off 1 to 2, drain 2, 2 stability passes (0.5M states) | No private audio kept, no replay, weak words wait for speech, stalls end. |
| `CaptionSession` | 1 context, 2 analyses, 2 runs, 2 generations, 2 waiting Stops, 1 kept report | A run keeps its context; reports follow runs; each run is told of once; Stops return. |
| `Speech` | 2 languages, 1 listener, queues of 2, 3 cues each | Quiet when asked; heard in order; queues empty. |
| `AppAccess` | 2 passwords, 3 secrets, 2 codes, 2 sessions, 1 lost file; limits of 1 to 3 ticks | The last password is read; one loss is survived; codes open once; sessions end. |
| `ResourceInstalls` | one kind at a time, 2 packages, 2 requests, 2 children, 1 restart, 1 kill (0.2M states) | Failed removals and installations leave what worked; reports agree with the result; installations settle. |

Why the bounds are enough. The scheduler's branches depend on one cue against the queue of its language and
on the next language in order: three cues overflow a capacity of two (a draft, a sealed cue, and the one
that arrives), and two languages exchange turns; the theorems cover the other sizes. In the hub one
send is enough to be overtaken, so two clients make one before and one after the interruption, and two
eras make a before and an after. In the store two threads and the loop are all the writers that can overlap
within a Stop and a Start, and two cues distinguish an old copy from a new one. In the supervisor the
hazards need two engines: the one that ends and the one that starts; three let a restart follow a restart.
In the source units five words are more than a window, a sealed cue, its overlap and the next cue fit in
them, and the limits of a loop are small enough that drafts and sealed cues are collapsed. In the transcriber every limit is the smallest that tells before, at and after apart, and the back-off
doubles once. In the session two runs give a report to lose and one to confuse it with, and two Stops are
the first and the one that cuts it short. In speech three cues overflow a queue of two. In access each limit
is shorter than the next one, so each of them ends a session or a code first in some behaviour. In the
installers two requests are a check and the one that overtakes it (three requests were checked too, for
safety: 4.0M states). `StopEnds` and `LostEnginesEnd` were checked in the situations of `SupervisorOwned` as
well; those runs take longer than the project's five minutes together.
Each bound is a constant or a situation, named in its module where it limits a guard.

Several runs are about alternative *situations* (a variable that never changes): one run then explores each
alternative with its own bounds, rather than their product.

`CHECK_DEADLOCK FALSE` is set where the system rests legitimately: nobody speaks, the user gives no further
command, or the stream has ended, and the bounded counters are used up. `Retention` leaves it on.

### Fairness

* `TranslationScheduler.FairSpec`: weak fairness of the single worker's steps; the asyncio loop schedules
  a ready task, and an external translation returns or raises.
* `TranscriptRetention.FairSpec`: weak fairness of each writer's next file operation. Strong fairness of
  `StartThread`, `ThreadDone` and `Poll`: asyncio serves its ready queue first come first served, so none of
  them is passed over for ever by other callbacks, and both control pages poll the state
  (`operator.html:4758` each 1.5 s, `service_leader.html:1205` each 2.5 s). `CacheCatchesUp`,
  `DisabledLeavesNoCache` and `ErasedLeavesCache` therefore speak of a server with a control page open.
* `EngineSupervisor.FairSpec`: weak fairness of the supervisor's threads that have work, of the reception of
  control messages, of the two kill paths, and of the parent watchdog. The engine need not obey, print or
  crash, and the user need not act.
* `LiveTranscriber.FairSpec`: the clock runs, the executor and the coroutine go on (WF), and an input that is
  opened again and again can be opened at last (SF of `Reopen(TRUE)`): without it no code could recover.
* `CaptionSession.FairSpec`: the task's next step, and the return of a Stop whose task has ended.
* `SpeechManager.FairSpec`: the worker; a synthesis returns or raises and a send ends.
* `AppAccess.Spec`: time passes.
* `ResourceInstalls.FairSpec`: the steps of a child that is not killed, and the polls of the open operator page.

### Finding

Listed in `PROJECT.json` with the sentence it contradicts. `RetentionErasePoll`: the poll's
`_session_cache_written = False` can follow the thread's `True` (`broadcast.py:266`); the cache with the
cleared transcript then stays, across a restart too.

### Statements the code does not keep

The models reach more behaviours that a document, a comment or a test name excludes, or that a reader may expect not to
happen. They are not runs of the project; each can be checked by adding the formula to the module named.

| Module, instance | Formula | Interleaving |
|---|---|---|
| `CaptionHub`, two requests, two translated clients | `(mode = "sensitive" /\ \A k \in Requests : notices[k].phase = "none") => \A i \in 1 .. Len(clients) : received[clients[i]] # Resumed` | a resume held up at a slow client overtakes the next blank (`broadcast.py:1170`; docs/security_privacy_networking.md:69) |
| `CaptionHub` | `\A i \in 1 .. Len(queues[Target]) : born[queues[Target][i].unit] = era` | a cue published before a clear is queued after it, under the new generation (`broadcast.py:778`; docs/translation.md:188) |
| `CaptionHub`, two translated clients | `[][\A c \in Clients : received'[c] # received[c] /\ received'[c].kind = "translation" => IsCurrent(inFlight)]_vars` | a translation is checked once and then sent client by client (`broadcast.py:1035`; docs/translation.md:188) |
| `CaptionHub` | `~running /\ drain # "waiting" => ~Outstanding` | a second Stop cancels the drain; the worker goes on (`main.py:2936`) |
| `TranscriptRetention` | `Running => OnDisk \cap erased = {}` | a thread writes the transcript it copied before the clear (`broadcast.py:373`; docs/security_privacy_networking.md:83) |
| `TranscriptRetention` | `[][task[Loop].mark = "start" /\ task'[Loop] = Idle /\ alive' => (OnDisk' \cup strays') \cap Expired = {}]_vars` | a crash before the rename leaves a temporary copy that no start prunes (`transcript_store.py:162`; docs/user/quick-start.md:185) |
| `EngineSupervisor`, `Restarting`, one restart thread | `OneEngine` | the restart thread and Start both pass `start()`'s check before either has stored a sender (`lifecycle.rs:97`; docs/project/V0.8.0_IMPLEMENTATION.md:53) |
| `EngineSupervisor`, stop while booting | `[][status.phase = "Stopping" /\ status'.phase # "Stopping" => \E p \in Pids : controller[p].at = "cleared" /\ controller'[p].at = "done"]_vars` | a `ready` line printed before the engine obeyed sets Starting (`lifecycle.rs:540`; V0.8.0_IMPLEMENTATION.md:54) |
| the same, one restart attempt | `[][\A p \in Pids : controller[p].at = "cleared" /\ controller'[p].at = "done" /\ p \in stdin => recovery'.sleeping \subseteq recovery.sleeping]_vars` | after that line, an engine killed by the deadline is restarted although its user stopped it (`lifecycle.rs:879`; test name at `lifecycle.rs:1260`) |
| `EngineSupervisor`, update and Start | `job[Updater].at = "install" => \A p \in Pids : engine[p] \notin Alive` | Start is accepted while Updating (`lifecycle.rs:329`, `main.js:73`; test name at `lifecycle.rs:1314`) |
| `CaptionHub`, two English clients | `[][\A c \in Clients : received'[c] # received[c] /\ received'[c].kind \in {"caption", "translation"} => mode = "live"]_vars` | `publish` reads the private mode once and then awaits each send (`broadcast.py:916`), so clients late in the list get the caption after the notice (docs/security_privacy_networking.md:67) |
| `EngineSupervisor`, `StartStop` | `[][\A p \in Pids : status'.pid = p /\ status.pid # p => p \in Pids /\ engine[p] \in Alive]_vars` | a line whose PID was checked before the exit was published brings the dead engine's PID back (`lifecycle.rs:485`, `:518`); start, stop and reset refuse from then on (V0.8.0_IMPLEMENTATION.md:54) |
| `LiveTranscriber` | `"private" \notin shown` | a recognition under way, or `pending_final_text` (`faster_whisper_live.py:539`), outlasts the reset and the hub's three seconds (docs/architecture.md:100) |
| `LiveTranscriber` | `loop = "ended" /\ executor = "idle" => opened = 0` | Stop between `AbortStalledStream` and `Reopen`: the new stream is never closed (`audio_watchdog.py:94-100`) |
| `CaptionSession` | `task \in {"none", "done"} => context.state # "locked"` | a Stop cancels the task before its first step (`main.py:2925`) |
| `CaptionSession` | `MetricsFollowTask` without `cut` | a second Stop during the drain abandons the clean-up (`main.py:1754`) |
| `SourceUnits`, the response | `[][timed /\ resets' = resets => \A i \in 1 .. Len(updates') : updates'[i].cue = cue => IsPrefix(SubSeq(Text(draft.tokens), 1, draft.stable), Text(updates'[i].tokens))]_unitsVars` | the text of the cue is collapsed at its twelfth word (`source_units.py:143`): three words after eleven, ten of them stable (docs/architecture.md:86; :96 tells of the collapse, not of what it does to stable words) |
| the same | `\A i \in 1 .. Len(updates) : timed /\ ~updates[i].final => LET text == Text(updates[i].tokens) IN \A k \in 1 .. Smallest({updates[i].stable, Len(text)}) : \E j \in 1 .. Len(confirmed) : text[k].norm = confirmed[j].norm` | the next revision, "praise the lord come", counts the twelve confirmed tokens from before the collapse (`source_units.py:254`), so the hub (`broadcast.py:724`) and the display pages (`client.js:818`) let "come" pass, which one hypothesis only has (docs/architecture.md:94) |

*The response* is `SourceUnits` with the limits of the code: "praise the lord" four times, then "come in", nothing misheard,
a window of 9 words of 3 ticks, one pass for each word; cues of 2, 5 (punctuation) and 14 words or 38 ticks; `loopWords` 10,
`loopRepeats` 4, `loopCovers` 8, `phraseWords` 18, `loopTail` 8. The program itself, given the two behaviours TLC finds, sends
the same revisions. `StableWordsStay` states what does hold of every cue: only a loop takes stable words back.

`OneEngine` and `StoppedMeansGone` hold under the condition they state (`OneStarter`): one thread at a time starts
engines, either on the user's command or by itself after a failure. `RestartsBounded` needs that condition too
(the theorem of section 5 states it): where the user may press Start between a back-off thread's check and its
`start()`, the refilled budget is charged with the failures of two engines, and TLC finds two automatic restarts
out of one allowed (commands start and restart, two crashes, one attempt). `SupervisorOwned` checks it in the
situations where engines restart only by themselves.

Also seen while modelling, and outside a formula of the modules:

* Source units: a draft whose final text falls below the minimum number of words is never sealed
  (`source_units.py:232`). Without word times (text only) `SpeechSpelt` fails: repeated words are taken for an
  overlap; the property says `timed`.
* Transcriber: once the selected input has failed, `audio_device` is `None` and later recoveries open the
  system default (`faster_whisper_live.py:220`).
* Session: a failed analysis leaves the old terms in state *empty*, without an expiry; an approval does not
  look at the expiry; the performance and audio-device requests check and then await (`main.py:2476`); a blank
  while stopped counts as running.
* Speech: a blank and a resume within one synthesis leave no trace and its speech is sent (`tts.py:610`;
  docs/architecture.md:52). A reload during a synthesis leaves a removed voice loaded (`tts.py:581`). A cue
  offered again while it is spoken would be spoken twice (docs/translation.md:218); the hub does not offer it again.
* Access: a spare one change behind after a crash is not refreshed at the next start, so the earlier password
  returns if the primary is then lost; a corrupt spare (rather than a missing one) is not written again;
  a request authorised before a password change still runs; the first-start page does not revoke leader
  sessions. Beside an old source installation's `data/operator_auth.json`, a password file that disappears is
  replaced by that old one (`auth.py:323`) before the spare is looked at (the repository's README.md:230).
* Installers: two of a kind can start (`main.py:3611`, `:2804`, `:2876`); a removal that finishes sets *idle* over a running
  installation (`main.py:3717`); two removals can lose a manifest update; a crash during a removal leaves a
  folder set aside that blocks later removals; a kill between the two renames leaves no CUDA runtime; off
  Windows a successful CUDA installation is reported as an error (`main.py:985-992`).

## 5. What is proved

Every module named here is checked by TLAPS without assumptions beyond the ASSUMEs of the module it is about,
which TLC evaluates in every run. Each inductive invariant was checked by TLC on the instance of its run first.

`TranslationSchedulerProofs` proves about `TranslationScheduler`, for every finite set of languages, every set of cues, every
capacity of at least two (the constructor enforces it, `translation_scheduler.py:44`) and every bound on revisions and
clears:

| Theorem | Property |
|---|---|
| `TypeCorrect` | `TypeOK` |
| `ServiceOrderComplete` | `RoundRobinActive`: the service order lists the languages with work, each once |
| `BackpressureSparesFinals` | `OverCapacityOnlyFinals` |
| `QueuesHoldNewest` | `QueuedJobsCurrent`: each queued job is the newest version of its cue and the only one |
| `DegradationEnds` | `DegradedIsFull` |
| `SealedCuesDurable` | `FinalsDurable`: a sealed cue leaves its queue by the worker or a clear only |
| `FairService` | `BoundedOvertaking`: between two turns of a waiting language any other gets at most one |
| `DeliversNewestRevision` | `Spec` implements `NewestRevisionDelivery!Spec` |

The inductive invariant `Inv` is the conjunction of the five invariants, and they lean on each other. All
need the types. `EnqueueStep` uses `QueuedJobsCurrent` to know that the arriving revision replaces at most
one queued job (which is also why `Coalesced` may remove a single position where the code loops), and with it
how long the queue is when its four outcomes are told apart: that length decides `OverCapacityOnlyFinals`
and `DegradedIsFull`. `PopStep` uses `RoundRobinActive` (through `TurnIsFirst`: the next turn is always that
of the first language listed, so `pop_next` finds a job at once). The proof follows the operators: what
`RemoveAt` returns (`RemoveAtValue`), then one lemma for `Enqueue` (`EnqueueStep`) over its four outcomes,
one for `PopAt` (`PopStep`), then one lemma per action and `StepInv`. `FairService` needs one more invariant, `OvertakeInv`: the
language at position i of the service order has been passed over at most |Languages| - i times, since each
turn of another language moves it one position forward. `DeliversNewestRevision` maps `Submit` to `AcceptVersion` or a stutter (a
rejected draft), `Publish` to `Deliver`, `Clear` to `Forget` and the rest to stuttering.

### The other components

| Module, theorem | Property | For every |
|---|---|---|
| `CaptionHubProofs` `WakeupsKept` | `NoLostWakeup` | number of clients, cues, revisions, requests and eras |
| `IdleEventTrue` | `IdleMeansIdle` | |
| `QuietAfterStop` | `StoppedIsQuiet` | |
| `ErasedCueStaysClosed` | `FreshCueAfterErase` | |
| `TranslationsKeptInOrder` | `TranslationsInOrder` | |
| `UnitsTypeCorrect` | `UnitsTypeOK` | speech, jitter, window, limits, number of passes and resets |
| `StableWordsKept` | `StableWordsStay`, loops included | |
| `SpeechIsSpelt` | `SpeechSpelt` | the same, where `HeardClearly` |
| `RetentionTypeCorrect` | `RetentionTypeOK` | set of saving threads, history limit, number of crashes |
| `OneFormatOnDisk` | `OneCacheFormat` | |
| `LiveTranscriberProofs` `TranscriberTypeCorrect` | `TranscriberTypeOK` | window, buffer, silence, stall, back-off, drain and stability passes |
| `OneInputStream` | `OneStream` | |
| `PrivateMomentForgotten` | `PrivateAudioDiscarded` | |
| `RecoveryForgets` | `NoReplayAfterRecovery` | |
| `WeakWordWaits` | `WeakWordNeedsNewSpeech` | |
| `EngineSupervisorProofs` `SupervisorTypeCorrect` | `SupervisorTypeOK` | situation: commands, engines, crashes, attempts |
| `OneEngineAtATime` | `OneEngine` | situation with one starter |
| `StoppedIsGone` | `StoppedMeansGone` | the same |
| `RestartBudgetHolds` | `RestartsBounded`, where `OneStarter` | the same, any number of attempts |
| `CaptionSessionProofs` `SessionTypeCorrect` | `SessionTypeOK` | contexts, analyses, runs, Stops, kept reports |
| `ContextKept` | `RunKeepsContext` | |
| `ReportOfTheTask` | `MetricsFollowTask` | |
| `ToldOnce` | `RunsReportedOnce` | |
| `SpeechManagerProofs` `SpeechTypeCorrect` | `SpeechTypeOK` | languages, listeners, queue length, cues |
| `NoQueueForgotten` | `TurnsMatchQueues` | |
| `QuietOnceAsked` | `QuietWhenAsked` | |
| `CuesHeardInOrder` | `HeardInOrder` | |
| `AppAccessProofs` `EstablishedStoreIsRead` | `PasswordKept` | passwords, secrets, limits and durations |
| `OneLossIsSurvived` | `LossSurvived` | |
| `CodeOpensOneSession` | `CodesOpenOnce` | |
| `SessionsEndInTime` | `SessionsEnd` | |
| `ThrottleBounded` | `ThrottleInv` | |
| `ResourceInstallsProofs` `RuntimeStays` | `RuntimeKept` | packages, requests, children, restarts, kills |
| `RemovalLeavesNoGap` | `VoicesBacked` | |
| `InstallsReportedTruly` | `InstallReported` | |

The inductive invariants, and why the properties need them:

* **`HubInv`**. A wakeup cannot be lost because each state of the worker says what it has in hand
  (`WorkerInv`), the idle event is set only with nothing outstanding, and a Stop has waited for that event or
  emptied queue and worker itself. `CueInv` ties the open cue to the era it was opened in: each request that
  starts an era resets the ledger in the same step. The bounds of `HubWorker` allow one erasure; the theorem any number.
* **`OrderInv`** says that a translation a viewer was sent, the job in hand, the queue and the revision being
  published follow each other. `SentInv`: what a viewer was sent of a cue is older than all it will still be sent of it.
  `InHandInv`: the job in hand is older than what is queued, and the worker's list names each viewer once.
  `QueueInv`: the queue is in order and behind the publisher, which queues a revision only after its sends.
  `AudienceInv`: a connection is listed once; listed twice it would be sent the revision in hand again.
  `SendersInv`: nobody but the worker sends translations. The lemmas about queues (`KeepsOrder`) say that
  removing a job keeps the order of the others, and `EnqueueOrder` that an arriving one goes behind them.
* **`UnitsInv`**. `OpenCueInv`: the confirmed words of the open cue hold no boundary, so a cue that is sealed
  now contains all of them; `DraftInv`: the tokens sent as stable are the first of the confirmed ones, which an
  ingest only extends. Together they are why the tokens of a later revision begin with what was stable; where no
  loop is cut out, the texts are the words of the tokens and begin so too. `SealReadyFacts` says
  of the recursive cutting, for any number of cues, that the pieces put together are the tokens.
* **`SpellInv`** adds what the words are. `RememberedInv`: the confirmed words are the first of the speech since the
  reset. `PendingInv`: the tail goes on right there, is at most two words long, and only its last word may be
  misheard. `ReachInv`: a pass leaves no word out. `LastEndInv`: the last confirmed end is that word's end in the times of
  some pass. A hypothesis then overlaps what is confirmed by at least one word, so its times strip exactly
  that (`StripHeard`); and of all aligned runs the one from the first words is the longest, and the first of these
  (`FirstAgreement`), so an ingest confirms the first words of what is left (`ConfirmHeard`). The hypothesis `HeardClearly`
  is about the recogniser, not the code: a window of four words or more; times of one word in two passes that
  differ by no more than the tolerance, and the tolerance less than half a word; and a misheard word that is not
  the word (or what that is misheard as) which stands within the alignment distance. Without the last condition
  the code does skip a word: a newest word misheard as its successor is aligned with that successor in the next
  pass. Words may repeat; the
  hypothesis speaks of wrong words only. TLC evaluates `HeardClearly` for the instance of `SourceUnits`.
* **`TranscriberInv`**. `ControlInv`: the executor works exactly while the coroutine waits, or after the loop has
  ended; `StreamInv`: who opens an input finds none open. `ReplayInv`: words from before a recovery are nowhere but in
  the pending text while the input is being reopened, or after the end. `EdgeInv` is the argument of the
  edge guard: without new voice the audio that a pass is given does not grow, so a word that was withheld at some
  length is not released by a pass that got no more. Private audio is emptied with the buffer at the resume and
  kept out until then.
* **`RetentionInv`**. That a start leaves one format rests on `StartInv`: what the starting writer still has to
  delete, by the place it stands at. `CopyInv` bounds what threads may write after it.
* **`SupervisorInv`** is the type invariant and, under `OneStarter`, `OwnedInv`. `StarterInv`: main thread and back-off
  thread never start an engine at once, since a back-off thread sleeps only after an engine has failed.
  `ActiveInv`: until a controller has published its engine's exit, the snapshot names an engine, perhaps a
  dead one after a late line, but some engine, and does not say Stopped; so `start()` cannot pass
  its check, and one controller at most is active. `SenderInv`: an engine that is alive is watched by its
  controller or is about to be published. `BudgetInv`: started restarts never exceed the counted attempts, also the ones
  an exiting controller remembers from before a reset. Steps are sorted first: `StepCases` shows that
  all but nine kinds of step are *calm* (nothing is started or taken over), and one lemma serves those.
* **`SessionInv`**. `AnalysisInv`: an analysis holds the newest generation only while the manager is still
  processing it, so a late one cannot replace the context of a run. `ReportInv`: memory and file tell of a
  run once each, and of none to come; `TaskInv` says how many runs may follow.
* **`SpeechInv`**. `OrderInv` orders heard, current, queued and offered cues of each language; `JobInv` keeps the
  listeners of a job among those that have not changed their language meanwhile.
* **`StoreInv`, `CodeInv`, `LeaderInv`, `ThrottleInv`** (`AppAccess`). The files are described at each point of a
  half-done save or reset (`PhaseInv`, `FileInv`, `NoLossInv`); `SpareInv` says what one loss leaves. A code that
  is closed is not the one shown; age and what is left of a session add up.
* **`InstallsInv`** (`ResourceInstalls`). `RemovalInv` says, at each step of a removal, that what the manifest
  lists is in place or can be put back; `SoleInv` that without overlapping requests one actor
  changes the voices; `PlacedInv` that what an installer placed stays until it is reported, and that a voice it has
  fetched is still missing, so that the folder it deletes is none that works.

### What is only model-checked

* All liveness (`DeliveryFair`, `CacheCatchesUp`, `DisabledLeavesNoCache`, `StopEnds`, `LostEnginesEnd`,
  `StalledStreamRecovers`, `StopEndsRun`, `QueuesEmpty`, `InstallsSettle`): fairness and ENABLED are out of the
  prover's reach.
* `HubTypeOK` as a whole; the parts that the theorems need are in `HubInv` and `OrderInv`.
* `AccessTypeOK` as a whole (it needs facts about `2 ^ n`, the growing pause) and `InstallsTypeOK` (the bound of
  `checked` is a fold over the children); the parts that the theorems need are in their invariants.

Every other property of a passing run is a theorem. Induction over sequences is done on the set of lengths for
which a statement holds: the general part of `CaptionHubProofs` derives from the well-foundedness of the natural numbers
that such a set is all of them (`Induction`), and that a recursive function takes the values its definition says
(`Recursion`); the library's own theorems for this take an operator, which the installed provers cannot
instantiate.

## 6. What is not modelled

Recognition, translation and synthesis are external: their results are nondeterministic. Text
transformations (but for the collapse of loops, which is in `SourceUnits`), formatting, localisation, hardware detection,
networking, the counters of a report, pages and packaging keep no state that another component decides by, and have
unit tests of their own. Runtime settings are one atomic
write each; the requests that change them while captions start are named in section 4. In the HTTP front the
handlers that change the state of another component are actions of that component's module; routing, cookies
and pages are left out. Of the transcript the unused text path (`broadcast.py:507-602`, which nothing calls) is left out; of the
installers the first-launch CUDA retry marker and the platform variants. Files are lost only while the program
runs; distinct voice packages have distinct languages. Times (drain, back-off, deadlines, expiry) are steps that may happen at
any point in the older modules, and ticks in `LiveTranscriber`, `AppAccess` and `SourceUnits`, so no property relies
on a duration in seconds.

## 7. Running

    tlc -workers 2 -config Scheduler.cfg MCTranslationScheduler
    tlapm TranslationSchedulerProofs.tla

`MCx.tla` instantiates `x.tla`; each `.cfg` is the run of `PROJECT.json` that names it. The definitions commented
"Mutant of" are plausible faults of the definition named; with the fault in place the property that
`PROJECT.json` pairs with it fails.

------------------------ MODULE TranscriptRetention ------------------------
(***************************************************************************)
(* The session transcript of the caption hub (app/broadcast.py) and its    *)
(* cache on disk (app/transcript_store.py).                                *)
(*                                                                         *)
(* The event loop owns the transcript in memory. Each publish saves it     *)
(* from a worker thread, every status poll and retention change saves it   *)
(* from the loop itself, and clearing deletes the files from the loop. The *)
(* store has no lock, so their file operations interleave. Cancelling the  *)
(* publisher does not stop the thread it was waiting for.                  *)
(*                                                                         *)
(* A cue is a number, in the order of speaking, and a file is the set of   *)
(* cues in it: empty when it does not exist. Revisions of a cue are not    *)
(* told apart. One positive retention window: cues up to `expired' are     *)
(* older than it.                                                          *)
(***************************************************************************)
EXTENDS Naturals, FiniteSets

CONSTANTS
    Loop,           \* the event loop
    Threads,        \* threads of the executor behind asyncio.to_thread
    HistoryLimit,   \* history_limit
    MaxCue,         \* bound: cues spoken
    MaxExpired,     \* bound: cues that outlive the retention window
    MaxRequests,    \* bound: clear, blank, resume and retention requests
    MaxCrashes      \* bound: how often the process dies

ASSUME LoopAssumption == Loop \notin Threads
ASSUME LimitAssumption == HistoryLimit \in Nat \ {0}
ASSUME BoundsAssumption ==
    /\ MaxCue \in Nat /\ MaxExpired \in Nat
    /\ MaxRequests \in Nat /\ MaxCrashes \in Nat

Cues == 1 .. MaxCue
NoEntry == 0
Writers == Threads \cup {Loop}

VARIABLES
    alive,          \* the process runs
    crypto,         \* cryptography is installed (fixed while it runs)
    saving,         \* saving enabled with a positive retention (configured)
    sensitive,      \* _sensitive_mode
    spoken,         \* number of cues opened so far
    expired,        \* cues up to this one are past the retention window
    openCue,        \* the cue the source-unit builder is revising, or NoEntry
    history,        \* _history: sealed cues
    historyDraft,   \* _history_draft, or NoEntry
    cacheWritten,   \* _session_cache_written
    publisher,      \* "stopped", "idle", "sending", or the thread it awaits
    task,           \* what each writer is doing to the store
    encrypted,      \* transcript_history.json.enc
    plaintext,      \* transcript_history.json
    strays,         \* cues in temporary files a crash left behind
    erased,         \* history: cues erased by a clear or by disabling saving
    requests,       \* bound counter
    crashes         \* bound counter

memory == <<openCue, history, historyDraft>>
files == <<encrypted, plaintext, strays>>
settings == <<alive, crypto, saving, expired, crashes>>
retentionVars ==
    <<settings, sensitive, spoken, memory, cacheWritten, publisher, task,
       files, erased, requests>>

Idle == [at |-> "idle", copy |-> {}, mark |-> "keep"]
Deleting == [Idle EXCEPT !.at = "unlinkEncrypted"]
Persisting == [Idle EXCEPT !.at = "persist"]

Running == alive /\ task[Loop] = Idle

-----------------------------------------------------------------------------
(* The transcript in memory.                                               *)

(* list[-n:], which is the whole list when n is 0. *)
LastCues(cues, n) ==
    IF n = 0 THEN cues
    ELSE {cue \in cues : Cardinality({c \in cues : c >= cue}) <= n}

DraftOf(cue) == {cue} \ {NoEntry}
Expired == 1 .. expired
Display == LastCues(history \cup DraftOf(historyDraft), HistoryLimit)

(* _purge_old_history on the given sealed cues and draft. *)
Purge(sealed, open) ==
    LET kept == IF open \in Expired THEN NoEntry ELSE open IN
    /\ historyDraft' = kept
    /\ history' = LastCues(sealed \ Expired,
                           IF kept = NoEntry THEN HistoryLimit
                           ELSE HistoryLimit - 1)

ForgetTranscript == history' = {} /\ historyDraft' = NoEntry

-----------------------------------------------------------------------------
(* Persisting: the steps of _persist_history, by the loop or by a thread.  *)

Step(w, next) == task' = [task EXCEPT ![w] = next]

AfterFiles(w) ==
    IF task[w].mark \in {"written", "empty"}
    THEN [task[w] EXCEPT !.at = "mark"] ELSE Idle

(* The settings are read, and then the list of sealed cues ... *)
CopyHistory(w) ==
    /\ task[w].at = "persist"
    /\ Step(w, IF saving
               THEN [at |-> "listed", copy |-> history, mark |-> "keep"]
               ELSE [Deleting EXCEPT !.mark = "empty"])
    /\ UNCHANGED <<cacheWritten, files>>

(* ... and then the draft. An empty transcript needs no cache, unless one  *)
(* has been written.                                                       *)
CopyDraft(w) ==
    LET copy == LastCues(task[w].copy \cup DraftOf(historyDraft), HistoryLimit) IN
    /\ task[w].at = "listed"
    /\ Step(w, IF copy = {} /\ ~cacheWritten THEN Idle
               ELSE [at |-> "save", copy |-> copy,
                     mark |-> IF copy = {} THEN "empty" ELSE "written"])
    /\ UNCHANGED <<cacheWritten, files>>

(* save_segments: filter, and write the temporary file or clear. *)
Save(w) ==
    LET kept == task[w].copy \ Expired IN
    /\ task[w].at = "save"
    /\ Step(w, [task[w] EXCEPT !.copy = kept,
                   !.at = IF kept = {} THEN "unlinkEncrypted" ELSE "replace"])
    /\ UNCHANGED <<cacheWritten, files>>

Replace(w) ==
    /\ task[w].at = "replace"
    /\ IF crypto
       THEN encrypted' = task[w].copy /\ UNCHANGED plaintext
       ELSE plaintext' = task[w].copy /\ UNCHANGED encrypted
    /\ Step(w, [task[w] EXCEPT !.at = "unlinkOther"])
    /\ UNCHANGED <<cacheWritten, strays>>

(* Mutant of UnlinkOther: the file in the other format is left. *)
LeaveOther(w) ==
    /\ task[w].at = "unlinkOther"
    /\ Step(w, AfterFiles(w))
    /\ UNCHANGED <<cacheWritten, files>>

UnlinkOther(w) ==
    /\ task[w].at = "unlinkOther"
    /\ IF crypto
       THEN plaintext' = {} /\ UNCHANGED encrypted
       ELSE encrypted' = {} /\ UNCHANGED plaintext
    /\ Step(w, AfterFiles(w))
    /\ UNCHANGED <<cacheWritten, strays>>

(* TranscriptStore.clear: the encrypted file, then the plaintext one. *)
UnlinkEncrypted(w) ==
    /\ task[w].at = "unlinkEncrypted"
    /\ encrypted' = {}
    /\ Step(w, [task[w] EXCEPT !.at = "unlinkPlaintext"])
    /\ UNCHANGED <<cacheWritten, plaintext, strays>>

UnlinkPlaintext(w) ==
    /\ task[w].at = "unlinkPlaintext"
    /\ plaintext' = {}
    /\ Step(w, AfterFiles(w))
    /\ UNCHANGED <<cacheWritten, encrypted, strays>>

MarkWritten(w) ==
    /\ task[w].at = "mark"
    /\ cacheWritten' = (task[w].mark = "written")
    /\ Step(w, Idle)
    /\ UNCHANGED files

WriterStep(w) ==
    /\ alive
    /\ \/ CopyHistory(w) \/ CopyDraft(w) \/ Save(w)
       \/ Replace(w) \/ UnlinkOther(w)
       \/ UnlinkEncrypted(w) \/ UnlinkPlaintext(w)
       \/ MarkWritten(w)
    /\ UNCHANGED <<settings, sensitive, spoken, memory, publisher, erased,
                   requests>>

-----------------------------------------------------------------------------
(* Publishing. Recording happens before publish first awaits anything.     *)

Record(seals) ==
    LET cue == IF openCue = NoEntry THEN spoken + 1 ELSE openCue IN
    /\ Running /\ publisher = "idle" /\ ~sensitive
    /\ cue \in Cues
    /\ spoken' = IF cue > spoken THEN cue ELSE spoken
    /\ openCue' = IF seals THEN NoEntry ELSE cue
    /\ IF saving
       THEN /\ IF seals
               THEN Purge(history \cup {cue},
                          IF historyDraft = cue THEN NoEntry ELSE historyDraft)
               ELSE Purge(history, cue)
            /\ publisher' = "sending"
            /\ erased' = erased \ {cue}
       ELSE UNCHANGED <<history, historyDraft, publisher, erased>>
    /\ UNCHANGED <<settings, sensitive, cacheWritten, task, files, requests>>

(* The broadcast is done: asyncio.to_thread(_persist_history). *)
StartThread ==
    /\ Running /\ publisher = "sending"
    /\ \E t \in Threads :
         /\ task[t] = Idle
         /\ task' = [task EXCEPT ![t] = Persisting]
         /\ publisher' = t
    /\ UNCHANGED <<settings, sensitive, spoken, memory, cacheWritten, files,
                   erased, requests>>

ThreadDone ==
    /\ Running /\ publisher \in Threads
    /\ task[publisher] = Idle
    /\ publisher' = "idle"
    /\ UNCHANGED <<settings, sensitive, spoken, memory, cacheWritten, task,
                   files, erased, requests>>

(* stop_captions_action: the publisher is cancelled wherever it waits. *)
StopCaptions ==
    /\ Running /\ publisher # "stopped"
    /\ publisher' = "stopped"
    /\ UNCHANGED <<settings, sensitive, spoken, memory, cacheWritten, task,
                   files, erased, requests>>

StartCaptions ==
    /\ Running /\ publisher = "stopped"
    /\ publisher' = "idle"
    /\ UNCHANGED <<settings, sensitive, spoken, memory, cacheWritten, task,
                   files, erased, requests>>

-----------------------------------------------------------------------------
(* Requests, each handled by the loop without giving way to another.       *)

Request == Running /\ requests < MaxRequests /\ requests' = requests + 1

Clear ==
    /\ Request
    /\ ForgetTranscript
    /\ openCue' = NoEntry
    /\ erased' = erased \cup 1 .. spoken
    /\ Step(Loop, Deleting)
    /\ UNCHANGED <<settings, sensitive, spoken, cacheWritten, publisher, files>>

(* set_sensitive_mode, for either value. *)
ToggleSensitive ==
    /\ Request
    /\ sensitive' = ~sensitive
    /\ historyDraft' = NoEntry
    /\ openCue' = NoEntry
    /\ UNCHANGED <<settings, spoken, history, cacheWritten, publisher, task,
                   files, erased>>

DisableSaving ==
    /\ Request
    /\ saving' = FALSE
    /\ ForgetTranscript
    /\ erased' = erased \cup 1 .. spoken
    /\ Step(Loop, Deleting)
    /\ UNCHANGED <<alive, crypto, expired, crashes, sensitive, spoken, openCue,
                   cacheWritten, publisher, files>>

EnableSaving ==
    /\ Request
    /\ saving' = TRUE
    /\ Purge(history, historyDraft)
    /\ Step(Loop, Persisting)
    /\ UNCHANGED <<alive, crypto, expired, crashes, sensitive, spoken, openCue,
                   cacheWritten, publisher, files, erased>>

(* Mutants of Poll: it does not save what is left after purging; with      *)
(* saving disabled it forgets the transcript but not the files.            *)
PollWithoutPersist ==
    /\ Running
    /\ Purge(history, historyDraft)
    /\ UNCHANGED <<settings, sensitive, spoken, openCue, cacheWritten, task,
                   publisher, files, erased, requests>>

PollKeepingFiles ==
    /\ Running
    /\ IF saving
       THEN Purge(history, historyDraft) /\ Step(Loop, Persisting)
       ELSE ForgetTranscript /\ UNCHANGED task
    /\ UNCHANGED <<settings, sensitive, spoken, openCue, cacheWritten,
                   publisher, files, erased, requests>>

(* hub.state() and final_segments(): every status poll, page and export. *)
Poll ==
    /\ Running
    /\ IF saving
       THEN Purge(history, historyDraft) /\ Step(Loop, Persisting)
       ELSE ForgetTranscript /\ Step(Loop, Deleting)
    /\ UNCHANGED <<settings, sensitive, spoken, openCue, cacheWritten,
                   publisher, files, erased, requests>>

-----------------------------------------------------------------------------
(* Time, crashes and restarts.                                             *)

Expire ==
    /\ expired < spoken /\ expired < MaxExpired
    /\ expired' = expired + 1
    /\ UNCHANGED <<alive, crypto, saving, crashes, sensitive, spoken, memory,
                   cacheWritten, publisher, task, files, erased, requests>>

Crash ==
    /\ alive /\ crashes < MaxCrashes
    /\ crashes' = crashes + 1
    /\ alive' = FALSE
    /\ strays' = strays \cup UNION {task[w].copy :
                       w \in {v \in Writers : task[v].at = "replace"}}
    /\ task' = [w \in Writers |-> Idle]
    /\ publisher' = "stopped"
    /\ ForgetTranscript
    /\ openCue' = NoEntry
    /\ sensitive' = FALSE
    /\ cacheWritten' = FALSE
    /\ UNCHANGED <<crypto, saving, expired, spoken, encrypted, plaintext,
                   erased, requests>>

(* _read_payload: the encrypted file, if it can be read, else the other. *)
Payload(withCrypto) ==
    IF encrypted # {} /\ withCrypto THEN encrypted ELSE plaintext

(* _start_new_session: delete, or prune and write again. *)
StartupTask(withCrypto) ==
    LET kept == Payload(withCrypto) \ Expired IN
    IF saving /\ kept # {}
    THEN [at |-> "replace", copy |-> kept, mark |-> "start"]
    ELSE [Deleting EXCEPT !.mark = "start"]

Restart ==
    /\ ~alive
    /\ alive' = TRUE
    /\ \E installed \in BOOLEAN :
         /\ crypto' = installed
         /\ Step(Loop, StartupTask(installed))
    /\ UNCHANGED <<saving, expired, crashes, sensitive, spoken, memory,
                   cacheWritten, publisher, files, erased, requests>>

RetentionInit ==
    /\ alive = TRUE
    /\ crypto \in BOOLEAN
    /\ saving \in BOOLEAN
    /\ sensitive = FALSE
    /\ spoken = 0 /\ expired = 0
    /\ openCue = NoEntry /\ history = {} /\ historyDraft = NoEntry
    /\ cacheWritten = FALSE
    /\ publisher = "stopped"
    /\ task = [w \in Writers |-> Idle]
    /\ encrypted = {} /\ plaintext = {} /\ strays = {}
    /\ erased = {}
    /\ requests = 0 /\ crashes = 0

RetentionNext ==
    \/ \E w \in Writers : WriterStep(w)
    \/ \E seals \in BOOLEAN : Record(seals)
    \/ StartThread \/ ThreadDone \/ StopCaptions \/ StartCaptions
    \/ Clear \/ ToggleSensitive \/ DisableSaving \/ EnableSaving \/ Poll
    \/ Expire \/ Crash \/ Restart

(* The loop and the threads run; polls keep arriving while a page is open, *)
(* and the loop serves its callbacks in the order they became ready.       *)
Fairness ==
    /\ \A w \in Writers : WF_retentionVars(WriterStep(w))
    /\ SF_retentionVars(StartThread) /\ SF_retentionVars(ThreadDone)
    /\ SF_retentionVars(Poll)

RetentionSpec == RetentionInit /\ [][RetentionNext]_retentionVars
FairSpec == RetentionSpec /\ Fairness
-----------------------------------------------------------------------------
(* Properties.                                                             *)

OnDisk == encrypted \cup plaintext

(* Every variable has the shape the code gives it. *)
RetentionTypeOK ==
    /\ alive \in BOOLEAN /\ crypto \in BOOLEAN /\ saving \in BOOLEAN
    /\ sensitive \in BOOLEAN /\ cacheWritten \in BOOLEAN
    /\ spoken \in 0 .. MaxCue /\ expired \in 0 .. spoken
    /\ openCue \in 0 .. spoken /\ historyDraft \in 0 .. spoken
    /\ history \subseteq 1 .. spoken
    /\ OnDisk \cup strays \subseteq 1 .. spoken
    /\ publisher \in {"stopped", "idle", "sending"} \cup Threads
    /\ task \in [Writers ->
          [at : {"idle", "persist", "listed", "save", "replace",
                 "unlinkOther", "unlinkEncrypted", "unlinkPlaintext", "mark"},
           copy : SUBSET Cues, mark : {"keep", "written", "empty", "start"}]]
    /\ erased \subseteq 1 .. spoken
    /\ requests \in 0 .. MaxRequests /\ crashes \in 0 .. MaxCrashes

(* Encrypted at rest: once the process has started with cryptography there *)
(* is no plaintext cache, and without it no unreadable encrypted one that  *)
(* a later start would prefer, whatever crashes and reinstallations        *)
(* happened between writing one file and deleting the other.               *)
OneCacheFormat ==
    alive /\ task[Loop].mark # "start" =>
        IF crypto THEN plaintext = {} ELSE encrypted = {}

(* When speaking has ended, the cache ends up holding the whole displayed  *)
(* transcript: a save made from an older copy does not have the last word. *)
CacheCatchesUp ==
    <>[](alive /\ saving /\ Display # {} => OnDisk = Display)

(* With saving disabled the cache ends up deleted, even if a thread was    *)
(* still saving when it was disabled.                                      *)
DisabledLeavesNoCache == <>[](alive /\ ~saving => OnDisk = {})

(* "The cache is deleted when the operator clears the transcript" (docs/   *)
(* architecture.md:100), in the end, given every repair that later polls   *)
(* attempt. Violated: a thread that copied the transcript writes it after  *)
(* the clear, a poll that overlaps it resets _session_cache_written, and   *)
(* no later poll looks at the file again.                                  *)
ErasedLeavesCache == <>[](alive => OnDisk \cap erased = {})

=============================================================================

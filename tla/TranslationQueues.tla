-------------------------- MODULE TranslationQueues --------------------------
(***************************************************************************)
(* BoundedFairTranslationScheduler (app/translation_scheduler.py): the     *)
(* per-language queues, the service order and the newest accepted version  *)
(* of each cue, with the operations its callers use. The modules that      *)
(* EXTEND this one add the callers.                                        *)
(*                                                                         *)
(* A caption's text is irrelevant here: a job is a language, the cue it    *)
(* belongs to, the cue's revision, whether that revision seals the cue,    *)
(* and the scheduler generation it was created in.                         *)
(***************************************************************************)
EXTENDS Naturals, Sequences, FiniteSets, SequencesExt

CONSTANTS
    Languages,      \* translated languages with a queue
    Units,          \* cue identities (fresh uuids in the code)
    Capacity        \* capacity_per_language

ASSUME LanguagesAssumption == IsFiniteSet(Languages)
ASSUME CapacityAssumption == Capacity \in Nat /\ Capacity >= 2

VARIABLES
    queues,         \* _queues: language -> sequence of jobs, oldest first
    roundRobin,     \* _round_robin: languages in service order
    latest,         \* _latest: newest accepted version of a cue, per language
    degraded,       \* _degraded_languages
    generation      \* _generation

schedulerVars == <<queues, roundRobin, latest, degraded, generation>>

Version == [rev : Nat, final : BOOLEAN]
NoVersion == [rev |-> 0, final |-> FALSE]
Job == [lang : Languages, unit : Units, rev : Nat \ {0}, final : BOOLEAN,
        gen : Nat]

VersionOf(job) == [rev |-> job.rev, final |-> job.final]

(* Mutant of IsCurrent: an overtaken revision still counts as current. *)
SameGeneration(job) == job.gen = generation

(* is_current *)
IsCurrent(job) ==
    /\ job.gen = generation
    /\ latest[job.lang][job.unit] = VersionOf(job)

-----------------------------------------------------------------------------
(* Queue surgery. The queue holds at most one job of a cue in a language   *)
(* (QueuedJobsCurrent below), so the loop that deletes every matching      *)
(* queued revision deletes at most one position.                           *)

Matches(queue, job) ==
    {i \in 1 .. Len(queue) : /\ queue[i].unit = job.unit
                             /\ queue[i].rev <= job.rev}

Coalesced(queue, job) ==
    IF Matches(queue, job) = {} THEN queue
    ELSE RemoveAt(queue, CHOOSE i \in Matches(queue, job) : TRUE)

Drafts(queue) == {i \in 1 .. Len(queue) : ~queue[i].final}

IsOldestDraft(queue, i) ==
    /\ i \in Drafts(queue)
    /\ \A j \in Drafts(queue) : i <= j

(* Mutant of Accept: a language is activated only while no other one is. *)
AcceptActivatingFirst(queue, job) ==
    /\ queues' = [queues EXCEPT ![job.lang] = Append(queue, job)]
    /\ latest' = [latest EXCEPT ![job.lang][job.unit] = VersionOf(job)]
    /\ roundRobin' = IF roundRobin # <<>> THEN roundRobin
                     ELSE Append(roundRobin, job.lang)

(* The tail of enqueue: append, remember the version, activate. *)
Accept(queue, job) ==
    /\ queues' = [queues EXCEPT ![job.lang] = Append(queue, job)]
    /\ latest' = [latest EXCEPT ![job.lang][job.unit] = VersionOf(job)]
    /\ roundRobin' = IF \E i \in 1 .. Len(roundRobin) : roundRobin[i] = job.lang
                     THEN roundRobin
                     ELSE Append(roundRobin, job.lang)

EnqueueWithRoom(job) ==
    LET queue == Coalesced(queues[job.lang], job) IN
    /\ Len(queue) < Capacity
    /\ Accept(queue, job)
    /\ UNCHANGED degraded

(* Mutant of EnqueueDroppingDraft: drops the oldest job, sealed or not. *)
EnqueueDroppingOldest(job) ==
    LET queue == Coalesced(queues[job.lang], job) IN
    /\ Len(queue) >= Capacity
    /\ Accept(RemoveAt(queue, 1), job)
    /\ degraded' = degraded \cup {job.lang}

EnqueueDroppingDraft(job) ==
    LET queue == Coalesced(queues[job.lang], job) IN
    /\ Len(queue) >= Capacity
    /\ \E i \in Drafts(queue) : /\ IsOldestDraft(queue, i)
                                /\ Accept(RemoveAt(queue, i), job)
    /\ degraded' = degraded \cup {job.lang}

(* Mutant of EnqueueOverCapacity: a draft may overflow the queue too. *)
EnqueueAnyOverCapacity(job) ==
    LET queue == Coalesced(queues[job.lang], job) IN
    /\ Len(queue) >= Capacity
    /\ Drafts(queue) = {}
    /\ Accept(queue, job)
    /\ degraded' = degraded \cup {job.lang}

EnqueueOverCapacity(job) ==
    LET queue == Coalesced(queues[job.lang], job) IN
    /\ Len(queue) >= Capacity
    /\ Drafts(queue) = {}
    /\ job.final
    /\ Accept(queue, job)
    /\ degraded' = degraded \cup {job.lang}

RejectDraft(job) ==
    LET queue == Coalesced(queues[job.lang], job) IN
    /\ Len(queue) >= Capacity
    /\ Drafts(queue) = {}
    /\ ~job.final
    /\ queues' = [queues EXCEPT ![job.lang] = queue]
    /\ degraded' = degraded \cup {job.lang}
    /\ UNCHANGED <<roundRobin, latest>>

Enqueue(job) ==
    /\ \/ EnqueueWithRoom(job)
       \/ EnqueueDroppingDraft(job)
       \/ EnqueueOverCapacity(job)
       \/ RejectDraft(job)
    /\ UNCHANGED generation

(* pop_next: the first language in service order that has work. *)
IsNextTurn(i) ==
    /\ i \in 1 .. Len(roundRobin)
    /\ queues[roundRobin[i]] # <<>>
    /\ \A j \in 1 .. (i - 1) : queues[roundRobin[j]] = <<>>

(* Mutants of PopAt: the language stays in the service order without work; *)
(* it keeps its place at the front; it stays degraded until it is empty.   *)
PopAlwaysActive(i) ==
    LET lang == roundRobin[i]
        rest == Tail(queues[lang])
    IN  /\ queues' = [queues EXCEPT ![lang] = rest]
        /\ roundRobin' = Append(SubSeq(roundRobin, i + 1, Len(roundRobin)),
                                lang)
        /\ degraded' = IF Len(rest) < Capacity THEN degraded \ {lang}
                       ELSE degraded
        /\ UNCHANGED <<latest, generation>>

PopKeepingTurn(i) ==
    LET lang == roundRobin[i]
        rest == Tail(queues[lang])
        others == SubSeq(roundRobin, i + 1, Len(roundRobin))
    IN  /\ queues' = [queues EXCEPT ![lang] = rest]
        /\ roundRobin' = IF rest = <<>> THEN others ELSE <<lang>> \o others
        /\ degraded' = IF Len(rest) < Capacity THEN degraded \ {lang}
                       ELSE degraded
        /\ UNCHANGED <<latest, generation>>

PopRecoveringLate(i) ==
    LET lang == roundRobin[i]
        rest == Tail(queues[lang])
        others == SubSeq(roundRobin, i + 1, Len(roundRobin))
    IN  /\ queues' = [queues EXCEPT ![lang] = rest]
        /\ roundRobin' = IF rest = <<>> THEN others ELSE Append(others, lang)
        /\ degraded' = IF rest = <<>> THEN degraded \ {lang} ELSE degraded
        /\ UNCHANGED <<latest, generation>>

PopAt(i) ==
    LET lang == roundRobin[i]
        rest == Tail(queues[lang])
        others == SubSeq(roundRobin, i + 1, Len(roundRobin))
    IN  /\ queues' = [queues EXCEPT ![lang] = rest]
        /\ roundRobin' = IF rest = <<>> THEN others ELSE Append(others, lang)
        /\ degraded' = IF Len(rest) < Capacity THEN degraded \ {lang}
                       ELSE degraded
        /\ UNCHANGED <<latest, generation>>

HasJobs == \E lang \in Languages : queues[lang] # <<>>

(* Mutant of ClearScheduler: queued jobs survive. *)
ClearKeepingQueues ==
    /\ latest' = [lang \in Languages |-> [unit \in Units |-> NoVersion]]
    /\ degraded' = {}
    /\ generation' = generation + 1
    /\ UNCHANGED <<queues, roundRobin>>

(* clear *)
ClearScheduler ==
    /\ queues' = [lang \in Languages |-> <<>>]
    /\ roundRobin' = <<>>
    /\ latest' = [lang \in Languages |-> [unit \in Units |-> NoVersion]]
    /\ degraded' = {}
    /\ generation' = generation + 1

(* The constructor. *)
SchedulerInit ==
    /\ queues = [lang \in Languages |-> <<>>]
    /\ roundRobin = <<>>
    /\ latest = [lang \in Languages |-> [unit \in Units |-> NoVersion]]
    /\ degraded = {}
    /\ generation = 0

=============================================================================

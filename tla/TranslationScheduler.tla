------------------------ MODULE TranslationScheduler ------------------------
(***************************************************************************)
(* The translation scheduler (TranslationQueues) together with the two     *)
(* callers that drive it: the hub's publisher, which enqueues one job per  *)
(* language for each cue revision, and the hub's single translation        *)
(* worker, which takes one job at a time, translates it and publishes the  *)
(* result only if the job is still current. Every language here has a      *)
(* viewer throughout: CaptionHub has viewers that come and go, publishing  *)
(* client by client, and Stop.                                             *)
(***************************************************************************)
EXTENDS TranslationQueues

CONSTANTS
    NoJob,          \* the worker has nothing in flight
    MaxRevision,    \* bound: highest revision a cue reaches
    MaxGeneration   \* bound: how often the scheduler is cleared

ASSUME BoundsAssumption == MaxRevision \in Nat /\ MaxGeneration \in Nat
ASSUME NoJobAssumption == NoJob \notin Job

VARIABLES
    inFlight,       \* the job the worker is translating, or NoJob
    shown,          \* history: newest version published since the last clear
    passedOver      \* history: turns others got while a language had work

vars == <<schedulerVars, inFlight, shown, passedOver>>

Revisions == 1 .. MaxRevision

-----------------------------------------------------------------------------
(* The callers.                                                            *)

Init ==
    /\ SchedulerInit
    /\ inFlight = NoJob
    /\ shown = [lang \in Languages |-> [unit \in Units |-> NoVersion]]
    /\ passedOver = [lang \in Languages |-> 0]

(* _queue_translation_batch for one language. The cue ledger only emits    *)
(* growing revisions of a cue and nothing after the sealing one.           *)
Submit(lang, unit, rev, final) ==
    /\ ~latest[lang][unit].final
    /\ rev > latest[lang][unit].rev
    /\ Enqueue([lang |-> lang, unit |-> unit, rev |-> rev, final |-> final,
                gen |-> generation])
    /\ UNCHANGED <<inFlight, shown, passedOver>>

(* _translation_worker_loop: pop, drop a stale job, start the rest. *)
Take ==
    /\ inFlight = NoJob
    /\ \E i \in 1 .. Len(roundRobin) :
         /\ IsNextTurn(i)
         /\ PopAt(i)
         /\ LET lang == roundRobin[i]
                job == Head(queues[lang])
            IN  /\ inFlight' = IF IsCurrent(job) THEN job ELSE NoJob
                /\ passedOver' = [other \in Languages |->
                       IF other = lang \/ queues[other] = <<>> THEN 0
                       ELSE passedOver[other] + 1]
    /\ UNCHANGED shown

(* The translation came back: _broadcast_translated_caption publishes it.  *)
Publish ==
    /\ inFlight # NoJob
    /\ IsCurrent(inFlight)
    /\ shown' = [shown EXCEPT ![inFlight.lang][inFlight.unit] =
                     VersionOf(inFlight)]
    /\ inFlight' = NoJob
    /\ UNCHANGED <<schedulerVars, passedOver>>

(* ... or drops it, because a newer revision or a clear overtook it. *)
DropStale ==
    /\ inFlight # NoJob
    /\ ~IsCurrent(inFlight)
    /\ inFlight' = NoJob
    /\ UNCHANGED <<schedulerVars, shown, passedOver>>

(* Clear, sensitive mode, or a change of timing mode. *)
Clear ==
    /\ generation < MaxGeneration
    /\ ClearScheduler
    /\ shown' = [lang \in Languages |-> [unit \in Units |-> NoVersion]]
    /\ passedOver' = [lang \in Languages |-> 0]
    /\ UNCHANGED inFlight

Next ==
    \/ \E lang \in Languages, unit \in Units, rev \in Revisions,
          final \in BOOLEAN : Submit(lang, unit, rev, final)
    \/ Take
    \/ Publish
    \/ DropStale
    \/ Clear

(* The worker task runs whenever it is runnable and the translator always  *)
(* returns: it is awaited in a thread and its exceptions are caught.       *)
Fairness == WF_vars(Take) /\ WF_vars(Publish) /\ WF_vars(DropStale)

Spec == Init /\ [][Next]_vars
FairSpec == Spec /\ Fairness
-----------------------------------------------------------------------------
(* Properties.                                                             *)

(* Every variable has the shape the code gives it. *)
TypeOK ==
    /\ queues \in [Languages -> Seq(Job)]
    /\ \A lang \in Languages : \A i \in 1 .. Len(queues[lang]) :
           queues[lang][i].lang = lang
    /\ roundRobin \in Seq(Languages)
    /\ latest \in [Languages -> [Units -> Version]]
    /\ degraded \in SUBSET Languages
    /\ generation \in Nat
    /\ inFlight \in Job \cup {NoJob}
    /\ shown \in [Languages -> [Units -> Version]]
    /\ passedOver \in [Languages -> Nat]

(* A language stands in the service order exactly while it has work, and   *)
(* stands there once: no queue is forgotten by pop_next, none is served    *)
(* twice in a turn, and pop_next never returns None while has_jobs holds.  *)
RoundRobinActive ==
    /\ \A lang \in Languages :
           queues[lang] # <<>> <=>
               \E i \in 1 .. Len(roundRobin) : roundRobin[i] = lang
    /\ \A i, j \in 1 .. Len(roundRobin) :
           roundRobin[i] = roundRobin[j] => i = j

(* Backpressure: only sealed cues take a queue over its capacity. A draft  *)
(* in the queue means the capacity is respected.                           *)
OverCapacityOnlyFinals ==
    \A lang \in Languages :
        Len(queues[lang]) > Capacity => Drafts(queues[lang]) = {}

(* Whatever is still queued is the newest accepted version of its cue: a   *)
(* newer revision removes the older one from the queue, a clear leaves no  *)
(* job of an earlier generation behind, and a rejected draft takes nothing *)
(* away. So a cue is queued once per language.                             *)
QueuedJobsCurrent ==
    \A lang \in Languages :
        /\ \A i \in 1 .. Len(queues[lang]) : IsCurrent(queues[lang][i])
        /\ \A i, j \in 1 .. Len(queues[lang]) :
               queues[lang][i].unit = queues[lang][j].unit => i = j

(* A language is reported as degraded only while its queue is full, so the *)
(* worker always has something to pop that ends the degradation.           *)
DegradedIsFull ==
    \A lang \in degraded : Len(queues[lang]) >= Capacity

(* Fair service: between two turns of a language that has work, every      *)
(* other language gets at most one turn, however fast they enqueue.        *)
BoundedOvertaking ==
    \A lang \in Languages : passedOver[lang] < Cardinality(Languages)

(* Sealed cues are durable: one leaves its queue only because the worker   *)
(* took it from the head or because the scheduler was cleared. Neither     *)
(* backpressure nor another cue may push it out.                           *)
FinalsDurable ==
    [][\A lang \in Languages : \A i \in 1 .. Len(queues[lang]) :
          LET job == queues[lang][i] IN
          job.final => \/ \E j \in 1 .. Len(queues'[lang]) :
                             queues'[lang][j] = job
                       \/ i = 1 /\ inFlight = NoJob /\ inFlight' = job
                       \/ generation' > generation
      ]_vars

(* The scheduler implements newest-revision delivery: what is published is *)
(* the newest accepted version of its cue, never an overtaken or a cleared *)
(* one, and every accepted sealed cue is published unless it is cleared.   *)
Delivery == INSTANCE NewestRevisionDelivery
                WITH accepted <- latest, delivered <- shown

DeliverySafety == Delivery!Spec
DeliveryFair == Delivery!FairSpec

=============================================================================

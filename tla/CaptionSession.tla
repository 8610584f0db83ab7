--------------------------- MODULE CaptionSession ---------------------------
(***************************************************************************)
(* One run of the captions after another: the transcription task, the      *)
(* service context it is locked to, and the report kept of every run.      *)
(*                                                                         *)
(* Requests and the task share the event loop, so an action is what runs   *)
(* between two awaits; an extraction runs on a thread and takes the        *)
(* manager's lock at its start and its end. What asyncio does with a       *)
(* cancellation depends on where the task is:                              *)
(*                                                                         *)
(*   created     the coroutine never runs: no finally, nothing undone      *)
(*   running     it ends in the clean-up below                             *)
(*   failing     the error is being sent: the same clean-up                *)
(*   closing     the sampler is awaited: the cancellation is swallowed     *)
(*   draining    the translations are awaited: the clean-up is abandoned   *)
(*   abandoning  the worker is awaited: the cancellation is swallowed      *)
(***************************************************************************)
EXTENDS Integers, Sequences, FiniteSets, SequencesExt

CONSTANTS
    Contexts,       \* what an extraction or the operator may come up with
    NoContext,
    Analysts,       \* analysis requests at a time
    MaxRuns,        \* bound on the runs started
    MaxGenerations, \* bound on the analyses and clears
    MaxStops,       \* bound on the Stop requests that wait
    MAX_COMPLETED_SERVICES

ASSUME SessionAssumption ==
    /\ NoContext \notin Contexts
    /\ MaxRuns \in Nat /\ MaxGenerations \in Nat /\ MaxStops \in Nat
    /\ MAX_COMPLETED_SERVICES \in Nat \ {0}

VARIABLES
    process,        \* "up", "quitting" or "down"
    task,           \* _transcription_task, and where it is
    cancelled,      \* cancel() was called and has not been delivered
    stops,          \* requests awaiting the task
    waking,         \* those it has ended for, and that have not run since
    status,         \* the hub's _status
    blanked,        \* the hub's _sensitive_mode
    context,        \* the ServiceContextManager
    analysis,       \* of each analysis request: where it is
    approving,      \* an approval is past its check
    run,            \* runs started
    runContext,     \* history: the context the run began with
    cut,            \* history: its clean-up was abandoned
    metrics,        \* the retained reports, in memory
    disk,           \* and in the file
    owed            \* history: runs a report must tell of

taskVars == <<task, cancelled, stops, waking, runContext, cut>>
requestVars == <<analysis, approving>>
storeVars == <<metrics, disk, owed>>
vars == <<process, taskVars, status, blanked, context, requestVars, run,
          storeVars>>

InFlight == {"running", "failing", "closing", "draining", "abandoning"}
(* Of an analysis request, or the generation it extracts for. *)
Idle == -1
Checked == 0
Alive == task \in InFlight \union {"created"}
Empty(generation) == [state |-> "empty", generation |-> generation,
                      terms |-> NoContext, active |-> NoContext]
NoReport == [current |-> 0, completed |-> <<>>, interrupted |-> 0]
Min2(a, b) == IF a <= b THEN a ELSE b
Newest(reports) == SubSeq(reports, 1,
                          Min2(Len(reports), MAX_COMPLETED_SERVICES))

CaptionsAreRunning == Alive \/ blanked \/ status = "listening"
ActiveSnapshot ==
    IF context.state = "locked" THEN context.active ELSE NoContext

Init ==
    /\ process = "up"
    /\ task = "none" /\ cancelled = FALSE
    /\ stops = 0 /\ waking = 0
    /\ status = "stopped" /\ blanked = FALSE
    /\ context = Empty(0)
    /\ analysis = [a \in Analysts |-> Idle] /\ approving = FALSE
    /\ run = 0 /\ runContext = NoContext /\ cut = FALSE
    /\ metrics = NoReport /\ disk = NoReport /\ owed = {}

-----------------------------------------------------------------------------
(* The reports. A write that fails is logged and the captions go on; the   *)
(* file then tells of an earlier state, and nothing is owed any more.      *)

Persist(reports, due) ==
    /\ metrics' = reports
    /\ \/ disk' = reports /\ owed' = due
       \/ disk' = disk /\ owed' = {}

(* Mutant of StartServiceMetrics: the marker is not written. *)
StartUnmarked ==
    /\ metrics' = [metrics EXCEPT !.current = run']
    /\ owed' = owed \union {run'}
    /\ UNCHANGED disk

StartServiceMetrics ==
    Persist([metrics EXCEPT !.current = run'], owed \union {run'})

FinishServiceMetrics ==
    IF metrics.current = 0
    THEN UNCHANGED storeVars
    ELSE LET all == <<metrics.current>> \o metrics.completed
             kept == Newest(all)
         IN Persist([metrics EXCEPT !.current = 0, !.completed = kept],
                    owed \ (ToSet(all) \ ToSet(kept)))

ClearServiceMetrics ==
    /\ process = "up" /\ ~CaptionsAreRunning
    /\ metrics.current = 0
    /\ Persist(NoReport, {})
    /\ UNCHANGED <<process, taskVars, status, blanked, context, requestVars,
                   run>>

-----------------------------------------------------------------------------
(* The service context.                                                    *)

Cleared == context' = Empty(context.generation + 1)
OnlyContext == UNCHANGED <<process, taskVars, status, blanked, run, storeVars>>
MayCount == context.generation < MaxGenerations

(* The request looks whether captions run, then awaits its body.           *)
AnalyseContext(a) ==
    /\ process = "up" /\ analysis[a] = Idle
    /\ ~CaptionsAreRunning
    /\ analysis' = [analysis EXCEPT ![a] = Checked]
    /\ OnlyContext /\ UNCHANGED <<context, approving>>

(* Mutant of BeginAnalysis: the manager trusts the request's check. *)
BeginAnalysisUnchecked(a) ==
    /\ process # "down" /\ analysis[a] = Checked /\ MayCount
    /\ context' = [context EXCEPT !.generation = @ + 1,
                                  !.state = "processing"]
    /\ analysis' = [analysis EXCEPT ![a] = context.generation + 1]
    /\ OnlyContext /\ UNCHANGED approving

BeginAnalysis(a) ==
    /\ process # "down" /\ analysis[a] = Checked /\ MayCount
    /\ IF context.state = "locked"
       THEN analysis' = [analysis EXCEPT ![a] = Idle] /\ UNCHANGED context
       ELSE /\ context' = [context EXCEPT !.generation = @ + 1,
                                          !.state = "processing"]
            /\ analysis' = [analysis EXCEPT ![a] = context.generation + 1]
    /\ OnlyContext /\ UNCHANGED approving

(* Only the newest analysis may still say something.                       *)
EndAnalysis(a, outcome) ==
    /\ process # "down" /\ analysis[a] \in 1 .. MaxGenerations
    /\ analysis' = [analysis EXCEPT ![a] = Idle]
    /\ context' = IF analysis[a] = context.generation THEN outcome
                                                      ELSE context
    /\ OnlyContext /\ UNCHANGED approving

AnalysisFails(a) == EndAnalysis(a, [context EXCEPT !.state = "empty"])

CompleteAnalysis(a) ==
    \E terms \in Contexts :
        EndAnalysis(a, IF context.state = "processing"
                       THEN [context EXCEPT !.state = "review",
                             !.terms = terms, !.active = NoContext]
                       ELSE context)

CancelAnalysis ==
    /\ process = "up" /\ context.state = "processing" /\ MayCount
    /\ Cleared
    /\ OnlyContext /\ UNCHANGED requestVars

ApproveContext ==
    /\ process = "up" /\ ~approving /\ ~CaptionsAreRunning
    /\ approving' = TRUE
    /\ OnlyContext /\ UNCHANGED <<context, analysis>>

(* What is approved comes with the request, not from the review.           *)
Approve ==
    /\ process # "down" /\ approving
    /\ approving' = FALSE
    /\ IF context.state \in {"review", "ready", "inactive"}
       THEN \E terms \in Contexts :
               context' = [context EXCEPT !.state = "ready",
                           !.terms = terms, !.active = terms]
       ELSE UNCHANGED context
    /\ OnlyContext /\ UNCHANGED analysis

Rearm ==
    /\ process = "up" /\ ~CaptionsAreRunning /\ context.state = "inactive"
    /\ context' = [context EXCEPT !.state = "ready",
                                  !.active = context.terms]
    /\ OnlyContext /\ UNCHANGED requestVars

ClearContext ==
    /\ process = "up" /\ MayCount /\ context.state # "locked"
    /\ Cleared
    /\ OnlyContext /\ UNCHANGED requestVars

(* The operator's page asks for the state after the four hours.            *)
ExpireContext ==
    /\ process = "up" /\ context.state = "inactive" /\ MayCount
    /\ Cleared
    /\ OnlyContext /\ UNCHANGED requestVars

LockedForService == IF context.state = "ready"
                    THEN [context EXCEPT !.state = "locked"] ELSE context

FinishService ==
    context' = IF context.state = "locked"
               THEN [context EXCEPT !.state = "inactive",
                                    !.active = NoContext]
               ELSE context

-----------------------------------------------------------------------------
(* Start, Stop and the application's shutdown.                             *)

Start ==
    /\ process = "up" /\ ~Alive /\ run < MaxRuns
    /\ context.state # "processing"
    /\ context' = LockedForService
    /\ status' = "starting"
    /\ task' = "created"
    /\ UNCHANGED <<process, cancelled, stops, waking, runContext, cut, blanked,
                   requestVars, run, storeVars>>

(* Awaiting a task that has ended returns at once.                         *)
Stop ==
    /\ process = "up"
    /\ IF Alive
       THEN /\ stops < MaxStops /\ stops' = stops + 1
            /\ cancelled' = TRUE
            /\ UNCHANGED status
       ELSE /\ status' = "stopped"
            /\ UNCHANGED <<stops, cancelled>>
    /\ UNCHANGED <<process, task, waking, runContext, cut, blanked, context,
                   requestVars, run, storeVars>>

StopReturns ==
    /\ process # "down" /\ waking > 0
    /\ waking' = waking - 1
    /\ status' = "stopped"
    /\ UNCHANGED <<process, task, cancelled, stops, runContext, cut, blanked,
                   context, requestVars, run, storeVars>>

Shutdown ==
    /\ process = "up"
    /\ process' = "quitting"
    /\ cancelled' = Alive
    /\ UNCHANGED <<task, stops, waking, status, runContext, cut, blanked,
                   context, requestVars, run, storeVars>>

SetSensitiveMode ==
    /\ process = "up"
    /\ blanked' = ~blanked
    /\ UNCHANGED <<process, taskVars, status, context, requestVars, run,
                   storeVars>>

-----------------------------------------------------------------------------
(* The transcription task.                                                 *)

TaskEnds ==
    /\ task' = "done" /\ cancelled' = FALSE
    /\ waking' = waking + stops /\ stops' = 0
OnlyTask == UNCHANGED <<process, blanked, requestVars>>

(* A Stop that comes before the first step: the coroutine never runs.      *)
NeverRuns ==
    /\ process # "down" /\ task = "created" /\ cancelled /\ waking = 0
    /\ TaskEnds
    /\ OnlyTask
    /\ UNCHANGED <<status, context, run, runContext, cut, storeVars>>

(* Requests that waited for the task before are woken first. The step     *)
(* ends where the first segment is awaited, or the error is sent.          *)
FirstStep ==
    /\ process # "down" /\ task = "created" /\ ~cancelled /\ waking = 0
    /\ run' = run + 1
    /\ StartServiceMetrics
    /\ runContext' = ActiveSnapshot /\ cut' = FALSE
    /\ \/ task' = "running" /\ status' = "listening"
       \/ task' = "failing" /\ status' = "error"
    /\ OnlyTask /\ UNCHANGED <<cancelled, stops, waking, context>>

StreamFails ==
    /\ process # "down" /\ task = "running" /\ ~cancelled
    /\ task' = "failing" /\ status' = "error"
    /\ OnlyTask /\ UNCHANGED <<cancelled, stops, waking, runContext, cut,
                               context, run, storeVars>>

(* Mutant of Unwind: the handler keeps the cancellation to itself. *)
UnwindSwallowed ==
    /\ process # "down" /\ task = "running" /\ cancelled
    /\ cancelled' = FALSE /\ status' = "stopped"
    /\ OnlyTask /\ UNCHANGED <<task, stops, waking, runContext, cut, context,
                               run, storeVars>>

(* Into the finally: on a cancellation, or once the error was sent.        *)
Unwind ==
    /\ process # "down"
    /\ \/ task = "running" /\ cancelled /\ status' = "stopped"
       \/ task = "failing" /\ UNCHANGED status
    /\ task' = "closing" /\ cancelled' = FALSE
    /\ OnlyTask /\ UNCHANGED <<stops, waking, runContext, cut, context, run,
                               storeVars>>

FinishRun ==
    /\ TaskEnds
    /\ FinishServiceMetrics
    /\ FinishService
    /\ OnlyTask /\ UNCHANGED <<status, runContext, cut, run>>

(* Mutant of Close: the cancellation of the sampler is not caught. *)
CloseUncaught ==
    /\ process # "down" /\ task = "closing"
    /\ IF cancelled
       THEN /\ TaskEnds
            /\ OnlyTask /\ UNCHANGED <<status, runContext, cut, context, run,
                                       storeVars>>
       ELSE FinishRun

(* The sampler is gone, and the input closed; with nothing to translate    *)
(* the run ends in the same step.                                          *)
Close ==
    /\ process # "down" /\ task = "closing"
    /\ \/ FinishRun
       \/ /\ task' = "draining" /\ cancelled' = FALSE
          /\ OnlyTask
          /\ UNCHANGED <<status, stops, waking, runContext, cut, context, run,
                         storeVars>>

Drained ==
    /\ process # "down"
    /\ \/ task = "draining" /\ ~cancelled
       \/ task = "abandoning"
    /\ FinishRun

DrainTimesOut ==
    /\ process # "down" /\ task = "draining" /\ ~cancelled
    /\ task' = "abandoning"
    /\ OnlyTask /\ UNCHANGED <<status, cancelled, stops, waking, runContext,
                               cut, context, run, storeVars>>

(* A second Stop while the translations are awaited.                       *)
DrainCut ==
    /\ process # "down" /\ task = "draining" /\ cancelled
    /\ TaskEnds
    /\ cut' = TRUE /\ owed' = owed \ {run}
    /\ OnlyTask /\ UNCHANGED <<status, runContext, context, run, metrics,
                               disk>>

-----------------------------------------------------------------------------
(* The process ends after its shutdown, or at any moment; at its start a   *)
(* marker left in the file becomes the interrupted service.                *)

Exit ==
    /\ process \in {"up", "quitting"}
    /\ process' = "down"
    /\ task' = "none" /\ cancelled' = FALSE
    /\ stops' = 0 /\ waking' = 0 /\ runContext' = NoContext
    /\ cut' = FALSE
    /\ status' = "stopped" /\ blanked' = FALSE /\ context' = Empty(0)
    /\ analysis' = [a \in Analysts |-> Idle] /\ approving' = FALSE
    /\ metrics' = NoReport
    /\ UNCHANGED <<run, disk, owed>>

Recovered ==
    IF disk.current = 0 THEN disk
    ELSE [disk EXCEPT !.current = 0, !.interrupted = disk.current]

Boot ==
    /\ process = "down"
    /\ process' = "up"
    /\ IF disk.current = 0
       THEN metrics' = disk /\ UNCHANGED <<disk, owed>>
       ELSE Persist(Recovered, owed \ {disk.interrupted})
    /\ UNCHANGED <<taskVars, status, blanked, context, requestVars, run>>

-----------------------------------------------------------------------------
ContextNext ==
    \/ \E a \in Analysts : \/ AnalyseContext(a) \/ BeginAnalysis(a)
                          \/ AnalysisFails(a) \/ CompleteAnalysis(a)
    \/ CancelAnalysis \/ ApproveContext \/ Approve \/ Rearm \/ ClearContext
    \/ ExpireContext

TaskStep == NeverRuns \/ FirstStep \/ Unwind \/ Close \/ Drained \/ DrainCut

Next ==
    \/ ContextNext \/ ClearServiceMetrics
    \/ Start \/ Stop \/ StopReturns \/ Shutdown \/ SetSensitiveMode
    \/ TaskStep \/ StreamFails \/ DrainTimesOut \/ Exit \/ Boot

Spec == Init /\ [][Next]_vars
(* The event loop runs what is ready, and every wait of a clean-up ends    *)
(* (the drain has a timeout).                                              *)
FairSpec == Spec /\ WF_vars(TaskStep) /\ WF_vars(StopReturns)

-----------------------------------------------------------------------------
Report == [current : 0 .. MaxRuns, completed : Seq(1 .. MaxRuns),
           interrupted : 0 .. MaxRuns]

SessionTypeOK ==
    /\ process \in {"up", "quitting", "down"}
    /\ task \in InFlight \union {"none", "created", "done"}
    /\ cancelled \in BOOLEAN /\ cut \in BOOLEAN
    /\ stops \in 0 .. MaxStops /\ waking \in 0 .. MaxStops
    /\ status \in {"stopped", "starting", "listening", "error"}
    /\ blanked \in BOOLEAN /\ approving \in BOOLEAN
    /\ context \in [state : {"empty", "processing", "review", "ready",
                             "locked", "inactive"},
                    generation : 0 .. MaxGenerations,
                    terms : Contexts \union {NoContext},
                    active : Contexts \union {NoContext}]
    /\ analysis \in [Analysts -> Idle .. MaxGenerations]
    /\ run \in 0 .. MaxRuns /\ runContext \in Contexts \union {NoContext}
    /\ \A reports \in {metrics, disk} :
           /\ reports \in Report
           /\ Len(reports.completed) <= MAX_COMPLETED_SERVICES
    /\ owed \subseteq 1 .. MaxRuns

(* From its first step to its end a run has the context it was started     *)
(* with: every segment is corrected with the same entries, whatever the    *)
(* requests that were already past their check do.                         *)
RunKeepsContext == task \in InFlight => ActiveSnapshot = runContext

(* The report under way is that of the task under way; only the second     *)
(* Stop of a drain leaves one behind.                                      *)
MetricsFollowTask ==
    /\ task \in InFlight => metrics.current = run
    /\ metrics.current # 0 => task \in InFlight \/ cut

(* Every run whose beginning reached the file is told of, over crashes and *)
(* restarts, and once: under way, completed or interrupted.                *)
RunsReportedOnce ==
    /\ process # "down" =>
         owed \subseteq {metrics.current, metrics.interrupted}
                        \union ToSet(metrics.completed)
    /\ metrics.interrupted \notin ToSet(metrics.completed)
                                  \union ({metrics.current} \ {0})
    /\ metrics.current \notin ToSet(metrics.completed)

(* A Stop returns: the task ends wherever the cancellation met it.         *)
StopEndsRun == stops > 0 ~> stops = 0

=============================================================================

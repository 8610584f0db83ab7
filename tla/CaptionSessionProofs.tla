------------------------ MODULE CaptionSessionProofs ------------------------
(***************************************************************************)
(* Proofs about CaptionSession, for any number of contexts and analysis    *)
(* requests and any bound on the runs, analyses and waiting Stops.         *)
(***************************************************************************)
EXTENDS CaptionSession, SequenceTheorems, TLAPS

(* Between the starts of a task: who may still be waiting for the last one *)
(* and how many runs may follow.                                           *)
TaskInv ==
    /\ task \in InFlight => waking = 0
    /\ task = "created" => run < MaxRuns
    /\ process = "down" => task = "none"

(* An analysis holds the newest generation only while the manager is still *)
(* processing it, and no other request holds the same one.                 *)
AnalysisInv ==
    /\ \A a \in Analysts : analysis[a] <= context.generation
    /\ \A a \in Analysts : analysis[a] >= 1 /\ analysis[a] = context.generation
                              => context.state = "processing"
    /\ \A a, b \in Analysts : analysis[a] >= 1 /\ analysis[a] = analysis[b]
                              => a = b

Told(reports) == {reports.current, reports.interrupted}
                 \union ToSet(reports.completed)
TellsOnce(reports) ==
    /\ reports.interrupted \notin ToSet(reports.completed)
                                  \union ({reports.current} \ {0})
    /\ reports.current \notin ToSet(reports.completed)

(* Memory and file each tell of a run once and of no run to come; what is  *)
(* owed is told by the file, by the memory too while there is one, and is  *)
(* the report under way only of the run under way.                         *)
ReportInv ==
    /\ TellsOnce(metrics) /\ TellsOnce(disk)
    /\ \A n \in Told(metrics) \union Told(disk) : n <= run
    /\ owed \subseteq Told(disk)
    /\ process # "down" => owed \subseteq Told(metrics)
    /\ process # "down" /\ task \notin InFlight => metrics.current \notin owed

SessionInv ==
    /\ SessionTypeOK /\ TaskInv
    /\ AnalysisInv /\ RunKeepsContext
    /\ ReportInv /\ MetricsFollowTask

-----------------------------------------------------------------------------
(* What the requests about the context leave alone.                        *)
LEMMA ContextRequests ==
    ContextNext => UNCHANGED <<process, taskVars, status, run, storeVars>>
BY DEF ContextNext, AnalyseContext, BeginAnalysis, AnalysisFails,
       CompleteAnalysis, EndAnalysis, CancelAnalysis, ApproveContext, Approve,
       Rearm, ClearContext, ExpireContext, OnlyContext

(* The actions that neither start, move nor end the task.                  *)
Aside == ContextNext \/ ClearServiceMetrics \/ Shutdown \/ SetSensitiveMode

LEMMA AsideKeepsTask ==
    Aside => UNCHANGED <<task, stops, waking, run, runContext, cut>>
BY ContextRequests DEF Aside, ClearServiceMetrics, Shutdown, SetSensitiveMode,
                       taskVars

LEMMA TaskStepInv ==
    ASSUME SessionTypeOK, TaskInv, [Next]_vars
    PROVE  TaskInv'
<1> USE DEF SessionTypeOK, TaskInv, InFlight, Alive, taskVars, OnlyTask
<1>1. CASE ContextNext
  BY <1>1, ContextRequests
<1>2. CASE ClearServiceMetrics \/ Shutdown \/ SetSensitiveMode
  BY <1>2 DEF ClearServiceMetrics, Shutdown, SetSensitiveMode
<1>3. CASE Start \/ Stop \/ StopReturns
  BY <1>3 DEF Start, Stop, StopReturns
<1>4. CASE NeverRuns \/ FirstStep \/ StreamFails \/ Unwind
  BY <1>4 DEF NeverRuns, FirstStep, StreamFails, Unwind, TaskEnds
<1>5. CASE Close \/ Drained \/ DrainTimesOut \/ DrainCut
  BY <1>5 DEF Close, Drained, DrainTimesOut, DrainCut, FinishRun, TaskEnds
<1>6. CASE Exit \/ Boot
  BY <1>6 DEF Exit, Boot
<1>7. CASE UNCHANGED vars
  BY <1>7 DEF vars
<1> QED
  BY <1>1, <1>2, <1>3, <1>4, <1>5, <1>6, <1>7 DEF Next, TaskStep

-----------------------------------------------------------------------------
(* What the end of an analysis may do to the context.                      *)
LEMMA EndOfAnalysis ==
    ASSUME SessionTypeOK, NEW a \in Analysts,
           AnalysisFails(a) \/ CompleteAnalysis(a)
    PROVE  /\ analysis[a] >= 1
           /\ analysis' = [analysis EXCEPT ![a] = Idle]
           /\ \/ context' = context
              \/ /\ analysis[a] = context.generation
                 /\ context'.generation = context.generation
                 /\ context.state = "processing"
                       => context'.state \in {"empty", "review"}
<1> USE SessionAssumption DEF SessionTypeOK
<1>1. CASE AnalysisFails(a)
  BY <1>1 DEF AnalysisFails, EndAnalysis
<1>2. CASE CompleteAnalysis(a)
  <2>1. PICK terms \in Contexts :
           EndAnalysis(a, IF context.state = "processing"
                          THEN [context EXCEPT !.state = "review",
                                !.terms = terms, !.active = NoContext]
                          ELSE context)
    BY <1>2 DEF CompleteAnalysis
  <2>2. CASE context.state = "processing"
    BY <2>1, <2>2 DEF EndAnalysis
  <2>3. CASE context.state # "processing"
    BY <2>1, <2>3 DEF EndAnalysis
  <2> QED
    BY <2>2, <2>3
<1> QED
  BY <1>1, <1>2

(* The context. An analysis that was overtaken by a clear, a later         *)
(* analysis or the start of a run no longer has the newest generation.     *)
LEMMA AnalysisStep ==
    ASSUME SessionTypeOK, AnalysisInv, [Next]_vars
    PROVE  AnalysisInv'
<1> USE SessionAssumption DEF SessionTypeOK, AnalysisInv, Idle, Checked
<1>1. ASSUME NEW a \in Analysts, AnalyseContext(a)
      PROVE  AnalysisInv'
  BY <1>1 DEF AnalyseContext
<1>2. ASSUME NEW a \in Analysts, BeginAnalysis(a)
      PROVE  AnalysisInv'
  <2>1. CASE context.state = "locked"
    <3>1. /\ UNCHANGED context
          /\ \A b \in Analysts :
               analysis'[b] = analysis[b] \/ analysis'[b] = Idle
      BY <1>2, <2>1 DEF BeginAnalysis
    <3>2. context.generation \in Nat
      OBVIOUS
    <3> QED
      BY <3>1, <3>2
  <2>2. CASE context.state # "locked"
    <3>1. /\ context'.generation = context.generation + 1
          /\ context'.state = "processing"
          /\ analysis' = [analysis EXCEPT ![a] = context.generation + 1]
      BY <1>2, <2>2 DEF BeginAnalysis
    <3>2. \A b \in Analysts : b # a => analysis'[b] = analysis[b]
      BY <3>1
    <3>3. analysis'[a] = context.generation + 1
      BY <3>1
    <3>4. \A b \in Analysts : /\ analysis[b] \in Int
                              /\ analysis[b] <= context.generation
      OBVIOUS
    <3>5. context.generation \in Nat
      OBVIOUS
    <3> QED
      BY <3>1, <3>2, <3>3, <3>4, <3>5
  <2> QED
    BY <2>1, <2>2
<1>3. ASSUME NEW a \in Analysts, AnalysisFails(a) \/ CompleteAnalysis(a)
      PROVE  AnalysisInv'
  <2>1. /\ analysis' = [analysis EXCEPT ![a] = Idle]
        /\ context'.generation = context.generation
        /\ \/ context' = context
           \/ analysis[a] >= 1 /\ analysis[a] = context.generation
    BY <1>3, EndOfAnalysis
  <2> QED
    BY <2>1
<1>4. CASE CancelAnalysis \/ ClearContext \/ ExpireContext
  BY <1>4 DEF CancelAnalysis, ClearContext, ExpireContext, Cleared, Empty,
              requestVars
<1>5. CASE ApproveContext \/ Approve \/ Rearm
  BY <1>5 DEF ApproveContext, Approve, Rearm, requestVars
<1>6. CASE Start
  BY <1>6 DEF Start, LockedForService, requestVars
<1>7. CASE \/ ClearServiceMetrics \/ Stop \/ StopReturns \/ Shutdown
           \/ SetSensitiveMode \/ Boot
  BY <1>7 DEF ClearServiceMetrics, Stop, StopReturns, Shutdown,
              SetSensitiveMode, Boot, requestVars
<1>8. CASE NeverRuns \/ FirstStep \/ StreamFails \/ Unwind \/ DrainTimesOut
           \/ DrainCut
  BY <1>8 DEF NeverRuns, FirstStep, StreamFails, Unwind, DrainTimesOut,
              DrainCut, OnlyTask, requestVars
<1>9. CASE Close \/ Drained
  BY <1>9 DEF Close, Drained, FinishRun, FinishService, OnlyTask, requestVars
<1>10. CASE Exit
  BY <1>10 DEF Exit, Empty
<1>11. CASE UNCHANGED vars
  BY <1>11 DEF vars, requestVars
<1> QED
  BY <1>1, <1>2, <1>3, <1>4, <1>5, <1>6, <1>7, <1>8, <1>9, <1>10, <1>11
     DEF Next, ContextNext, TaskStep

(* Requests change the context of no run: those that clear it or start an  *)
(* analysis refuse a locked one, and an analysis that ends late is not the *)
(* newest or finds the manager processing.                                 *)
LEMMA ContextStep ==
    ASSUME SessionTypeOK, TaskInv, AnalysisInv, RunKeepsContext, [Next]_vars
    PROVE  RunKeepsContext'
<1> USE SessionAssumption DEF SessionTypeOK, RunKeepsContext, ActiveSnapshot,
                              InFlight, taskVars, OnlyTask
<1>1. ASSUME ContextNext
      PROVE  ActiveSnapshot' = ActiveSnapshot
  <2>1. ASSUME NEW a \in Analysts, AnalyseContext(a) \/ BeginAnalysis(a)
        PROVE  ActiveSnapshot' = ActiveSnapshot
    BY <2>1 DEF AnalyseContext, BeginAnalysis
  <2>2. ASSUME NEW a \in Analysts, AnalysisFails(a) \/ CompleteAnalysis(a)
        PROVE  ActiveSnapshot' = ActiveSnapshot
    <3>1. CASE context' = context
      BY <3>1
    <3>2. CASE context' # context
      <4>1. context.state = "processing"
        BY <2>2, <3>2, EndOfAnalysis DEF AnalysisInv
      <4>2. context'.state \in {"empty", "review"}
        BY <2>2, <3>2, <4>1, EndOfAnalysis
      <4> QED
        BY <4>1, <4>2
    <3> QED
      BY <3>1, <3>2
  <2>3. CASE CancelAnalysis \/ ClearContext \/ ExpireContext
    BY <2>3 DEF CancelAnalysis, ClearContext, ExpireContext, Cleared, Empty
  <2>4. CASE ApproveContext \/ Approve \/ Rearm
    BY <2>4 DEF ApproveContext, Approve, Rearm
  <2> QED
    BY <1>1, <2>1, <2>2, <2>3, <2>4 DEF ContextNext
<1>2. CASE ContextNext
  BY <1>1, <1>2, ContextRequests
<1>3. CASE Start
  BY <1>3 DEF Start
<1>4. CASE \/ ClearServiceMetrics \/ Stop \/ StopReturns \/ Shutdown
           \/ SetSensitiveMode
  BY <1>4 DEF ClearServiceMetrics, Stop, StopReturns, Shutdown,
              SetSensitiveMode
<1>5. CASE Boot
  BY <1>5 DEF Boot, TaskInv
<1>6. CASE FirstStep
  BY <1>6 DEF FirstStep
<1>7. CASE StreamFails \/ Unwind \/ DrainTimesOut
  BY <1>7 DEF StreamFails, Unwind, DrainTimesOut
<1>8. CASE NeverRuns \/ DrainCut \/ Close \/ Drained
  BY <1>8 DEF NeverRuns, DrainCut, Close, Drained, FinishRun, TaskEnds
<1>9. CASE Exit
  BY <1>9 DEF Exit
<1>10. CASE UNCHANGED vars
  BY <1>10 DEF vars
<1> QED
  BY <1>2, <1>3, <1>4, <1>5, <1>6, <1>7, <1>8, <1>9, <1>10 DEF Next, TaskStep

-----------------------------------------------------------------------------
(* The reports.                                                            *)

LEMMA MetricsStep ==
    ASSUME SessionTypeOK, TaskInv, MetricsFollowTask, [Next]_vars
    PROVE  MetricsFollowTask'
<1> USE DEF SessionTypeOK, Report, MetricsFollowTask, InFlight, taskVars,
            storeVars, OnlyTask
<1>1. CASE ContextNext
  BY <1>1, ContextRequests
<1>2. CASE ClearServiceMetrics
  BY <1>2 DEF ClearServiceMetrics, CaptionsAreRunning, Alive, Persist, NoReport
<1>3. CASE Start \/ Stop \/ StopReturns \/ Shutdown \/ SetSensitiveMode
  BY <1>3 DEF Start, Stop, StopReturns, Shutdown, SetSensitiveMode, Alive
<1>4. CASE FirstStep
  BY <1>4 DEF FirstStep, StartServiceMetrics, Persist
<1>5. CASE StreamFails \/ Unwind \/ DrainTimesOut
  BY <1>5 DEF StreamFails, Unwind, DrainTimesOut
<1>6. CASE NeverRuns \/ DrainCut
  BY <1>6 DEF NeverRuns, DrainCut, TaskEnds
<1>7. ASSUME FinishRun
      PROVE  metrics'.current = 0 /\ task' = "done"
  BY <1>7 DEF FinishRun, TaskEnds, FinishServiceMetrics, Persist
<1>8. CASE Close \/ Drained
  BY <1>7, <1>8 DEF Close, Drained
<1>9. CASE Exit
  BY <1>9 DEF Exit, NoReport
<1>10. CASE Boot
  BY <1>10 DEF Boot, TaskInv, Persist, Recovered
<1>11. CASE UNCHANGED vars
  BY <1>11 DEF vars
<1> QED
  BY <1>1, <1>2, <1>3, <1>4, <1>5, <1>6, <1>8, <1>9, <1>10, <1>11
     DEF Next, TaskStep

LEMMA ElementsOfSeq ==
    ASSUME NEW S, NEW s \in Seq(S)
    PROVE  ToSet(s) \subseteq S
<1> SUFFICES ASSUME NEW i \in DOMAIN s
             PROVE  s[i] \in S
  BY DEF ToSet
<1> QED
  OBVIOUS

LEMMA Prefix ==
    ASSUME NEW S, NEW s \in Seq(S), NEW n \in 0 .. Len(s)
    PROVE  /\ SubSeq(s, 1, n) \in Seq(S)
           /\ Len(SubSeq(s, 1, n)) = n
           /\ \A i \in 1 .. n : SubSeq(s, 1, n)[i] = s[i]
<1>1. \A i \in 1 .. n : s[i] \in S
  OBVIOUS
<1> QED
  BY <1>1, SubSeqProperties

(* The list of completed runs with the run that ends: nothing is in it     *)
(* that was in neither, and it does not outgrow its limit.                 *)
LEMMA NewestReports ==
    ASSUME NEW completed \in Seq(1 .. MaxRuns), NEW ended \in 1 .. MaxRuns
    PROVE  LET all == <<ended>> \o completed
               kept == Newest(all)
           IN  /\ all \in Seq(1 .. MaxRuns)
               /\ ToSet(all) = {ended} \union ToSet(completed)
               /\ kept \in Seq(1 .. MaxRuns)
               /\ Len(kept) <= MAX_COMPLETED_SERVICES
               /\ ToSet(kept) \subseteq ToSet(all)
<1> DEFINE all == <<ended>> \o completed
           kept == Newest(all)
           most == Min2(Len(all), MAX_COMPLETED_SERVICES)
<1>1. /\ all \in Seq(1 .. MaxRuns) /\ Len(all) = Len(completed) + 1
      /\ all[1] = ended
      /\ \A i \in 1 .. Len(completed) : all[i + 1] = completed[i]
  OBVIOUS
<1>2. ToSet(all) = {ended} \union ToSet(completed)
  <2> HIDE DEF all
  <2>1. ToSet(all) \subseteq {ended} \union ToSet(completed)
    <3> SUFFICES ASSUME NEW i \in 1 .. Len(all), i # 1
                 PROVE  all[i] \in ToSet(completed)
      BY <1>1 DEF ToSet
    <3>1. i - 1 \in 1 .. Len(completed) /\ (i - 1) + 1 = i
      BY <1>1
    <3>2. all[i] = completed[i - 1]
      BY <1>1, <3>1
    <3> QED
      BY <3>1, <3>2 DEF ToSet
  <2>2. ended \in ToSet(all)
    BY <1>1 DEF ToSet
  <2>3. ASSUME NEW i \in 1 .. Len(completed)
        PROVE  completed[i] \in ToSet(all)
    <3>1. i + 1 \in DOMAIN all /\ all[i + 1] = completed[i]
      BY <1>1
    <3> QED
      BY <3>1 DEF ToSet
  <2>4. ToSet(completed) \subseteq ToSet(all)
    BY <2>3 DEF ToSet
  <2> QED
    BY <2>1, <2>2, <2>4
<1> HIDE DEF all
<1>3. most \in 0 .. Len(all) /\ most <= MAX_COMPLETED_SERVICES
  BY <1>1, SessionAssumption DEF Min2
<1>4. /\ kept \in Seq(1 .. MaxRuns) /\ Len(kept) = most
      /\ \A i \in 1 .. most : kept[i] = all[i]
  BY <1>1, <1>3, Prefix DEF Newest
<1> HIDE DEF kept, most
<1>5. ToSet(kept) \subseteq ToSet(all)
  BY <1>1, <1>3, <1>4 DEF ToSet
<1> QED
  BY <1>1, <1>2, <1>3, <1>4, <1>5 DEF all, kept


(* Writing reports to the file, or failing to.                             *)
LEMMA PersistStep ==
    ASSUME NEW reports, NEW due, Persist(reports, due),
           TellsOnce(reports), TellsOnce(disk),
           due \subseteq Told(reports)
    PROVE  /\ metrics' = reports
           /\ disk' \in {reports, disk}
           /\ TellsOnce(metrics') /\ TellsOnce(disk')
           /\ owed' \subseteq due
           /\ owed' \subseteq Told(metrics') /\ owed' \subseteq Told(disk')
<1>1. CASE disk' = reports /\ owed' = due
  BY <1>1 DEF Persist
<1>2. CASE disk' = disk /\ owed' = {}
  BY <1>2 DEF Persist
<1> QED
  BY <1>1, <1>2 DEF Persist

(* The end of a run.                                                       *)
LEMMA FinishReport ==
    ASSUME SessionTypeOK, ReportInv, process # "down", FinishServiceMetrics
    PROVE  /\ metrics' \in Report /\ disk' \in Report
           /\ Len(metrics'.completed) <= MAX_COMPLETED_SERVICES
           /\ Len(disk'.completed) <= MAX_COMPLETED_SERVICES
           /\ owed' \subseteq owed
           /\ metrics'.current = 0
           /\ TellsOnce(metrics') /\ TellsOnce(disk')
           /\ \A n \in Told(metrics') \union Told(disk') : n <= run
           /\ owed' \subseteq Told(disk') /\ owed' \subseteq Told(metrics')
<1>1. /\ metrics \in Report /\ disk \in Report /\ run \in Nat
      /\ metrics.completed \in Seq(1 .. MaxRuns)
      /\ metrics.current \in 0 .. MaxRuns
      /\ Len(metrics.completed) <= MAX_COMPLETED_SERVICES
      /\ Len(disk.completed) <= MAX_COMPLETED_SERVICES
  BY SessionAssumption DEF SessionTypeOK, Report
<1>2. CASE metrics.current = 0
  BY <1>1, <1>2 DEF FinishServiceMetrics, storeVars, ReportInv
<1>3. CASE metrics.current # 0
  <2> DEFINE all == <<metrics.current>> \o metrics.completed
             kept == Newest(all)
             reports == [metrics EXCEPT !.current = 0, !.completed = kept]
             due == owed \ (ToSet(all) \ ToSet(kept))
  <2>1. Persist(reports, due)
    BY <1>3 DEF FinishServiceMetrics
  <2>2. metrics.current \in 1 .. MaxRuns
    BY <1>1, <1>3
  <2>3. /\ ToSet(all) = {metrics.current} \union ToSet(metrics.completed)
        /\ kept \in Seq(1 .. MaxRuns)
        /\ Len(kept) <= MAX_COMPLETED_SERVICES
        /\ ToSet(kept) \subseteq ToSet(all)
    BY <1>1, <2>2, NewestReports
  <2> HIDE DEF all, kept
  <2>4. /\ reports.current = 0 /\ reports.completed = kept
        /\ reports.interrupted = metrics.interrupted
        /\ reports \in Report
    <3>1. 0 \in 0 .. MaxRuns
      BY SessionAssumption
    <3>2. [metrics EXCEPT !.current = 0] \in Report
      BY <1>1, <3>1 DEF Report
    <3> QED
      BY <2>3, <3>2 DEF Report
  <2>5. due \subseteq owed /\ due \intersect ToSet(all) \subseteq ToSet(kept)
    OBVIOUS
  <2> HIDE DEF reports, due
  <2>6. 0 \notin ToSet(kept)
    <3>1. ToSet(kept) \subseteq 1 .. MaxRuns
      BY <2>3, ElementsOfSeq
    <3> QED
      BY <3>1
  <2>7. TellsOnce(reports)
    BY <2>3, <2>4, <2>6, <1>3 DEF TellsOnce, ReportInv
  <2>8. due \subseteq Told(reports)
    BY <2>3, <2>4, <2>5 DEF Told, ReportInv
  <2>9. \A n \in Told(reports) : n <= run
    BY <1>1, <2>3, <2>4 DEF Told, ReportInv
  <2>10. /\ metrics' = reports /\ disk' \in {reports, disk}
         /\ TellsOnce(metrics') /\ TellsOnce(disk')
         /\ owed' \subseteq due
         /\ owed' \subseteq Told(metrics') /\ owed' \subseteq Told(disk')
    BY <2>1, <2>7, <2>8, PersistStep DEF ReportInv
  <2> QED
    BY <1>1, <2>3, <2>4, <2>5, <2>9, <2>10 DEF ReportInv
<1> QED
  BY <1>2, <1>3

LEMMA ReportStep ==
    ASSUME SessionTypeOK, TaskInv, MetricsFollowTask, ReportInv, [Next]_vars
    PROVE  ReportInv'
<1>1. /\ metrics \in Report /\ disk \in Report /\ run \in 0 .. MaxRuns
      /\ metrics.completed \in Seq(1 .. MaxRuns)
      /\ disk.completed \in Seq(1 .. MaxRuns)
      /\ owed \subseteq 1 .. MaxRuns
  BY DEF SessionTypeOK, Report
<1>2. ASSUME UNCHANGED storeVars, run' = run,
             process' # "down" => process # "down",
             process' # "down" /\ task' \notin InFlight
                  => task \notin InFlight \/ metrics.current \notin owed
      PROVE  ReportInv'
  BY <1>2 DEF ReportInv, storeVars, Told, TellsOnce
<1>3. CASE ContextNext
  BY <1>2, <1>3, ContextRequests DEF taskVars
<1>4. CASE ClearServiceMetrics
  <2>1. /\ TellsOnce(NoReport) /\ Told(NoReport) = {0}
    BY DEF NoReport, TellsOnce, Told, ToSet
  <2>2. Persist(NoReport, {}) /\ run' = run
    BY <1>4 DEF ClearServiceMetrics
  <2>3. /\ metrics' = NoReport /\ disk' \in {NoReport, disk}
        /\ TellsOnce(metrics') /\ TellsOnce(disk') /\ owed' = {}
    BY <2>1, <2>2, PersistStep DEF ReportInv
  <2> QED
    BY <1>1, <2>1, <2>2, <2>3 DEF ReportInv
<1>5. CASE Start \/ Stop \/ StopReturns \/ Shutdown \/ SetSensitiveMode
  BY <1>2, <1>5 DEF Start, Stop, StopReturns, Shutdown, SetSensitiveMode,
                    Alive, InFlight, taskVars
<1>6. CASE FirstStep
  <2> DEFINE reports == [metrics EXCEPT !.current = run']
             due == owed \union {run'}
  <2>1. /\ Persist(reports, due) /\ run' = run + 1
        /\ task = "created" /\ process # "down" /\ task' \in InFlight
    BY <1>6 DEF FirstStep, StartServiceMetrics, InFlight
  <2>2. /\ reports.current = run' /\ reports.completed = metrics.completed
        /\ reports.interrupted = metrics.interrupted
    BY <1>1 DEF Report
  <2> HIDE DEF reports
  <2>3. metrics.current \notin owed
    BY <2>1 DEF ReportInv, InFlight
  <2>4. \A n \in Told(metrics) : n \in Nat /\ n < run'
    <3>1. ToSet(metrics.completed) \subseteq 1 .. MaxRuns
      BY <1>1, ElementsOfSeq
    <3>2. Told(metrics) \subseteq 0 .. MaxRuns
      BY <1>1, <3>1, SessionAssumption DEF Told, Report
    <3>3. \A n \in Told(metrics) : n <= run
      BY DEF ReportInv
    <3> QED
      BY <1>1, <2>1, <3>2, <3>3
  <2>5. TellsOnce(reports)
    BY <2>2, <2>4 DEF TellsOnce, Told, ReportInv
  <2>6. due \subseteq Told(reports)
    BY <2>1, <2>2, <2>3 DEF Told, ReportInv
  <2>7. /\ metrics' = reports /\ disk' \in {reports, disk}
        /\ TellsOnce(metrics') /\ TellsOnce(disk')
        /\ owed' \subseteq Told(metrics') /\ owed' \subseteq Told(disk')
    BY <2>1, <2>5, <2>6, PersistStep DEF ReportInv
  <2>8. \A n \in Told(reports) \union Told(disk) : n <= run'
    <3>1. Told(reports) \subseteq Told(metrics) \union {run'}
      BY <2>2 DEF Told
    <3>2. \A n \in Told(disk) : n \in Int /\ n <= run
      <4>1. ToSet(disk.completed) \subseteq 1 .. MaxRuns
        BY <1>1, ElementsOfSeq
      <4> QED
        BY <1>1, <4>1, SessionAssumption DEF Told, Report, ReportInv
    <3> QED
      BY <1>1, <2>1, <2>4, <3>1, <3>2
  <2> QED
    BY <2>1, <2>7, <2>8 DEF ReportInv
<1>7. CASE NeverRuns \/ StreamFails \/ Unwind \/ DrainTimesOut
  BY <1>2, <1>7 DEF NeverRuns, StreamFails, Unwind, DrainTimesOut, OnlyTask,
                    TaskEnds, InFlight
<1>8. CASE Close \/ Drained
  <2>1. CASE FinishRun
    <3>1. FinishServiceMetrics /\ run' = run /\ process # "down"
      BY <1>8, <2>1 DEF FinishRun, Close, Drained
    <3>2. 0 \notin owed
      BY <1>1
    <3> QED
      BY <3>1, <3>2, FinishReport DEF ReportInv
  <2>2. CASE ~FinishRun
    BY <1>2, <1>8, <2>2 DEF Close, Drained, OnlyTask, InFlight
  <2> QED
    BY <2>1, <2>2
<1>9. CASE DrainCut
  <2>1. metrics.current = run
    BY <1>9 DEF DrainCut, MetricsFollowTask, InFlight
  <2> QED
    BY <1>9, <2>1 DEF DrainCut, OnlyTask, ReportInv, Told, TellsOnce
<1>10. CASE Exit
  <2>1. TellsOnce(NoReport) /\ Told(NoReport) = {0}
    BY DEF NoReport, TellsOnce, Told, ToSet
  <2> QED
    BY <1>1, <1>10, <2>1 DEF Exit, ReportInv
<1>11. CASE Boot
  <2>1. 0 \notin owed /\ process = "down"
    BY <1>1, <1>11 DEF Boot
  <2>2. CASE disk.current = 0
    BY <1>11, <2>1, <2>2 DEF Boot, ReportInv, taskVars
  <2>3. CASE disk.current # 0
    <3>1. Persist(Recovered, owed \ {disk.interrupted}) /\ run' = run
      BY <1>11, <2>3 DEF Boot
    <3>2. /\ Recovered.current = 0 /\ Recovered.interrupted = disk.current
          /\ Recovered.completed = disk.completed
      BY <1>1, <2>3 DEF Recovered, Report
    <3>3. 0 \notin ToSet(disk.completed)
      <4>1. ToSet(disk.completed) \subseteq 1 .. MaxRuns
        BY <1>1, ElementsOfSeq
      <4> QED
        BY <4>1
    <3>4. TellsOnce(Recovered)
      BY <3>2, <3>3 DEF TellsOnce, ReportInv
    <3>5. owed \ {disk.interrupted} \subseteq Told(Recovered)
      BY <3>2 DEF Told, ReportInv
    <3>6. \A n \in Told(Recovered) : n <= run
      BY <1>1, <3>2 DEF Told, ReportInv
    <3>7. /\ metrics' = Recovered /\ disk' \in {Recovered, disk}
          /\ TellsOnce(metrics') /\ TellsOnce(disk')
          /\ owed' \subseteq owed
          /\ owed' \subseteq Told(metrics') /\ owed' \subseteq Told(disk')
      BY <3>1, <3>4, <3>5, PersistStep DEF ReportInv
    <3> QED
      BY <2>1, <3>1, <3>2, <3>6, <3>7 DEF ReportInv
  <2> QED
    BY <2>2, <2>3
<1>12. CASE UNCHANGED vars
  BY <1>2, <1>12 DEF vars, taskVars
<1> QED
  BY <1>3, <1>4, <1>5, <1>6, <1>7, <1>8, <1>9, <1>10, <1>11, <1>12
     DEF Next, TaskStep

-----------------------------------------------------------------------------
(* The type invariant.                                                     *)

ReportsTyped ==
    /\ metrics \in Report /\ disk \in Report
    /\ Len(metrics.completed) <= MAX_COMPLETED_SERVICES
    /\ Len(disk.completed) <= MAX_COMPLETED_SERVICES
    /\ owed \subseteq 1 .. MaxRuns

ContextTyped ==
    /\ context \in [state : {"empty", "processing", "review", "ready",
                             "locked", "inactive"},
                    generation : 0 .. MaxGenerations,
                    terms : Contexts \union {NoContext},
                    active : Contexts \union {NoContext}]
    /\ analysis \in [Analysts -> Idle .. MaxGenerations]

TaskTyped ==
    /\ process \in {"up", "quitting", "down"}
    /\ task \in InFlight \union {"none", "created", "done"}
    /\ stops \in 0 .. MaxStops /\ waking \in 0 .. MaxStops
    /\ status \in {"stopped", "starting", "listening", "error"}
    /\ run \in 0 .. MaxRuns /\ runContext \in Contexts \union {NoContext}

FlagsTyped ==
    /\ cancelled \in BOOLEAN /\ cut \in BOOLEAN
    /\ blanked \in BOOLEAN /\ approving \in BOOLEAN

LEMMA TypeParts ==
    SessionTypeOK
        <=> ContextTyped /\ TaskTyped /\ FlagsTyped /\ ReportsTyped
BY DEF SessionTypeOK, ContextTyped, TaskTyped, FlagsTyped, ReportsTyped

LEMMA ReportsTypeStep ==
    ASSUME SessionTypeOK, TaskInv, ReportInv, [Next]_vars
    PROVE  ReportsTyped'
<1>1. ReportsTyped /\ run \in 0 .. MaxRuns
  BY TypeParts DEF TaskTyped
<1>2. NoReport \in Report /\ Len(NoReport.completed) = 0
  BY SessionAssumption DEF NoReport, Report
<1>3. CASE ContextNext
  BY <1>1, <1>3, ContextRequests DEF ReportsTyped, storeVars
<1>4. CASE ClearServiceMetrics
  BY <1>1, <1>2, <1>4, SessionAssumption
     DEF ClearServiceMetrics, Persist, ReportsTyped
<1>5. CASE Start \/ Stop \/ StopReturns \/ Shutdown \/ SetSensitiveMode
  BY <1>1, <1>5 DEF Start, Stop, StopReturns, Shutdown, SetSensitiveMode,
                    ReportsTyped, storeVars
<1>6. CASE FirstStep
  <2>1. run' \in 1 .. MaxRuns
    BY <1>1, <1>6, SessionAssumption DEF FirstStep, TaskInv
  <2> DEFINE reports == [metrics EXCEPT !.current = run']
  <2>2. reports \in Report /\ reports.completed = metrics.completed
    BY <1>1, <2>1 DEF Report, ReportsTyped
  <2>3. Persist(reports, owed \union {run'})
    BY <1>6 DEF FirstStep, StartServiceMetrics
  <2> HIDE DEF reports
  <2> QED
    BY <1>1, <2>1, <2>2, <2>3 DEF Persist, ReportsTyped
<1>7. CASE NeverRuns \/ StreamFails \/ Unwind \/ DrainTimesOut
  BY <1>1, <1>7 DEF NeverRuns, StreamFails, Unwind, DrainTimesOut,
                    ReportsTyped, storeVars
<1>8. CASE Close \/ Drained
  <2>1. CASE FinishRun
    BY <1>1, <1>8, <2>1, FinishReport
       DEF FinishRun, Close, Drained, ReportsTyped
  <2>2. CASE ~FinishRun
    BY <1>1, <1>8, <2>2 DEF Close, Drained, ReportsTyped, storeVars
  <2> QED
    BY <2>1, <2>2
<1>9. CASE DrainCut
  BY <1>1, <1>9 DEF DrainCut, ReportsTyped
<1>10. CASE Exit
  BY <1>1, <1>2, <1>10, SessionAssumption DEF Exit, ReportsTyped
<1>11. CASE Boot
  <2>1. Recovered \in Report /\ Recovered.completed = disk.completed
    <3>1. 0 \in 0 .. MaxRuns /\ disk.current \in 0 .. MaxRuns
      BY <1>1, SessionAssumption DEF ReportsTyped, Report
    <3> QED
      BY <1>1, <3>1 DEF Recovered, ReportsTyped, Report
  <2> QED
    BY <1>1, <1>11, <2>1 DEF Boot, Persist, ReportsTyped
<1>12. CASE UNCHANGED vars
  BY <1>1, <1>12 DEF vars, ReportsTyped, storeVars
<1> QED
  BY <1>3, <1>4, <1>5, <1>6, <1>7, <1>8, <1>9, <1>10, <1>11, <1>12
     DEF Next, TaskStep

LEMMA ContextTypeStep ==
    ASSUME SessionTypeOK, [Next]_vars
    PROVE  ContextTyped'
<1>1. ContextTyped
  BY TypeParts
<1> USE SessionAssumption DEF ContextTyped, Idle, Checked
<1>2. ASSUME NEW a \in Analysts, AnalyseContext(a)
      PROVE  ContextTyped'
  BY <1>1, <1>2 DEF AnalyseContext
<1>3. ASSUME NEW a \in Analysts, BeginAnalysis(a)
      PROVE  ContextTyped'
  <2>1. CASE context.state = "locked"
    BY <1>1, <1>3, <2>1 DEF BeginAnalysis
  <2>2. CASE context.state # "locked"
    <3>1. context.generation + 1 \in 1 .. MaxGenerations
      BY <1>1, <1>3 DEF BeginAnalysis, MayCount
    <3>2. context' = [context EXCEPT !.generation = @ + 1,
                                     !.state = "processing"]
      BY <1>3, <2>2 DEF BeginAnalysis
    <3>3. analysis' = [analysis EXCEPT ![a] = context.generation + 1]
      BY <1>3, <2>2 DEF BeginAnalysis
    <3>4. analysis' \in [Analysts -> Idle .. MaxGenerations]
      BY <1>1, <3>1, <3>3
    <3>5. context' = [state |-> "processing",
                      generation |-> context.generation + 1,
                      terms |-> context.terms, active |-> context.active]
      BY <1>1, <3>2
    <3> QED
      BY <1>1, <3>1, <3>4, <3>5
  <2> QED
    BY <2>1, <2>2
<1>4. ASSUME NEW a \in Analysts, AnalysisFails(a)
      PROVE  ContextTyped'
  BY <1>1, <1>4 DEF AnalysisFails, EndAnalysis
<1>5. ASSUME NEW a \in Analysts, CompleteAnalysis(a)
      PROVE  ContextTyped'
  <2>1. PICK terms \in Contexts :
           EndAnalysis(a, IF context.state = "processing"
                          THEN [context EXCEPT !.state = "review",
                                !.terms = terms, !.active = NoContext]
                          ELSE context)
    BY <1>5 DEF CompleteAnalysis
  <2>2. CASE context.state = "processing"
    <3>1. \/ context' = context
          \/ context' = [context EXCEPT !.state = "review",
                         !.terms = terms, !.active = NoContext]
      BY <2>1, <2>2 DEF EndAnalysis
    <3>2. analysis' = [analysis EXCEPT ![a] = Idle]
      BY <2>1 DEF EndAnalysis
    <3>3. analysis' \in [Analysts -> Idle .. MaxGenerations]
      BY <1>1, <3>2
    <3> QED
      BY <1>1, <3>1, <3>3
  <2>3. CASE context.state # "processing"
    BY <1>1, <2>1, <2>3 DEF EndAnalysis
  <2> QED
    BY <2>2, <2>3
<1>6. CASE CancelAnalysis \/ ClearContext \/ ExpireContext
  BY <1>1, <1>6 DEF CancelAnalysis, ClearContext, ExpireContext, Cleared,
                    Empty, MayCount, requestVars
<1>7. CASE ApproveContext
  BY <1>1, <1>7 DEF ApproveContext
<1>8. CASE Approve
  <2>1. CASE UNCHANGED context
    BY <1>1, <1>8, <2>1 DEF Approve
  <2>2. CASE \E terms \in Contexts :
                context' = [context EXCEPT !.state = "ready",
                            !.terms = terms, !.active = terms]
    BY <1>1, <1>8, <2>2 DEF Approve
  <2> QED
    BY <1>8, <2>1, <2>2 DEF Approve
<1>9. CASE Rearm
  BY <1>1, <1>9 DEF Rearm, requestVars
<1>10. CASE \/ ClearServiceMetrics \/ Stop \/ StopReturns \/ Shutdown
            \/ SetSensitiveMode \/ Boot
  BY <1>1, <1>10 DEF ClearServiceMetrics, Stop, StopReturns, Shutdown,
                     SetSensitiveMode, Boot, requestVars
<1>11. CASE Start
  BY <1>1, <1>11 DEF Start, LockedForService, requestVars
<1>12. CASE \/ NeverRuns \/ FirstStep \/ StreamFails \/ Unwind
            \/ DrainTimesOut \/ DrainCut
  BY <1>1, <1>12 DEF NeverRuns, FirstStep, StreamFails, Unwind,
                     DrainTimesOut, DrainCut, OnlyTask, requestVars
<1>13. CASE Close \/ Drained
  BY <1>1, <1>13 DEF Close, Drained, FinishRun, FinishService, OnlyTask,
                     requestVars
<1>14. CASE Exit
  BY <1>1, <1>14 DEF Exit, Empty
<1>15. CASE UNCHANGED vars
  BY <1>1, <1>15 DEF vars, requestVars
<1> QED
  BY <1>2, <1>3, <1>4, <1>5, <1>6, <1>7, <1>8, <1>9, <1>10, <1>11, <1>12,
     <1>13, <1>14, <1>15 DEF Next, ContextNext, TaskStep

LEMMA TaskTypeStep ==
    ASSUME SessionTypeOK, TaskInv, [Next]_vars
    PROVE  TaskTyped'
<1>1. TaskTyped /\ ActiveSnapshot \in Contexts \union {NoContext}
  BY TypeParts DEF ContextTyped, ActiveSnapshot
<1> USE SessionAssumption DEF TaskTyped, InFlight, Alive, taskVars, OnlyTask
<1>2. CASE ContextNext
  BY <1>1, <1>2, ContextRequests
<1>3. CASE ClearServiceMetrics \/ Start \/ Shutdown \/ SetSensitiveMode \/ Boot
  BY <1>1, <1>3 DEF ClearServiceMetrics, Start, Shutdown, SetSensitiveMode,
                    Boot
<1>4. CASE Stop \/ StopReturns
  BY <1>1, <1>4 DEF Stop, StopReturns
<1>5. CASE NeverRuns \/ StreamFails \/ Unwind \/ DrainTimesOut \/ DrainCut
  BY <1>1, <1>5 DEF NeverRuns, StreamFails, Unwind, DrainTimesOut, DrainCut,
                    TaskEnds, TaskInv
<1>6. CASE FirstStep
  BY <1>1, <1>6 DEF FirstStep, TaskInv
<1>7. CASE Close \/ Drained
  BY <1>1, <1>7 DEF Close, Drained, FinishRun, TaskEnds, TaskInv
<1>8. CASE Exit
  BY <1>1, <1>8 DEF Exit
<1>9. CASE UNCHANGED vars
  BY <1>1, <1>9 DEF vars
<1> QED
  BY <1>2, <1>3, <1>4, <1>5, <1>6, <1>7, <1>8, <1>9 DEF Next, TaskStep

LEMMA FlagsTypeStep ==
    ASSUME SessionTypeOK, [Next]_vars
    PROVE  FlagsTyped'
<1>1. FlagsTyped
  BY TypeParts
<1> USE DEF FlagsTyped, taskVars, OnlyTask, requestVars
<1>2. ASSUME ContextNext
      PROVE  UNCHANGED blanked /\ approving' \in BOOLEAN
  BY <1>1, <1>2
     DEF ContextNext, AnalyseContext, BeginAnalysis, AnalysisFails,
         CompleteAnalysis, EndAnalysis, CancelAnalysis, ApproveContext,
         Approve, Rearm, ClearContext, ExpireContext, OnlyContext
<1>3. CASE ContextNext
  BY <1>1, <1>2, <1>3, ContextRequests
<1>4. CASE ClearServiceMetrics \/ Start \/ Stop \/ StopReturns \/ Boot
  BY <1>1, <1>4 DEF ClearServiceMetrics, Start, Stop, StopReturns, Boot
<1>9. CASE Shutdown
  BY <1>1, <1>9 DEF Shutdown, Alive
<1>10. CASE SetSensitiveMode
  BY <1>1, <1>10 DEF SetSensitiveMode
<1>5. CASE \/ NeverRuns \/ FirstStep \/ StreamFails \/ Unwind
           \/ DrainTimesOut \/ DrainCut
  BY <1>1, <1>5 DEF NeverRuns, FirstStep, StreamFails, Unwind, DrainTimesOut,
                    DrainCut, TaskEnds
<1>6. CASE Close \/ Drained
  BY <1>1, <1>6 DEF Close, Drained, FinishRun, TaskEnds
<1>7. CASE Exit
  BY <1>1, <1>7 DEF Exit
<1>8. CASE UNCHANGED vars
  BY <1>1, <1>8 DEF vars
<1> QED
  BY <1>3, <1>4, <1>5, <1>6, <1>7, <1>8, <1>9, <1>10 DEF Next, TaskStep

-----------------------------------------------------------------------------
LEMMA InitInv == Init => SessionInv
<1> SUFFICES ASSUME Init PROVE SessionInv
  OBVIOUS
<1> USE SessionAssumption DEF Init
<1>1. NoReport \in Report /\ Len(NoReport.completed) = 0
      /\ Told(NoReport) = {0} /\ TellsOnce(NoReport)
  BY DEF NoReport, Report, Told, TellsOnce, ToSet
<1>2. SessionTypeOK
  <2>1. ContextTyped
    BY DEF ContextTyped, Empty, Idle
  <2>2. TaskTyped
    BY DEF TaskTyped
  <2>3. FlagsTyped
    BY DEF FlagsTyped
  <2>4. ReportsTyped
    BY <1>1 DEF ReportsTyped
  <2> QED
    BY <2>1, <2>2, <2>3, <2>4, TypeParts
<1>3. TaskInv /\ AnalysisInv /\ RunKeepsContext
  BY DEF TaskInv, AnalysisInv, RunKeepsContext, InFlight, Empty, Idle
<1>4. ReportInv /\ MetricsFollowTask
  BY <1>1 DEF ReportInv, MetricsFollowTask, InFlight, NoReport
<1> QED
  BY <1>2, <1>3, <1>4 DEF SessionInv

LEMMA StepInv == SessionInv /\ [Next]_vars => SessionInv'
<1> SUFFICES ASSUME SessionInv, [Next]_vars
             PROVE  SessionInv'
  OBVIOUS
<1>1. SessionTypeOK'
  <2>1. ContextTyped' /\ TaskTyped' /\ FlagsTyped' /\ ReportsTyped'
    BY ReportsTypeStep, ContextTypeStep, TaskTypeStep, FlagsTypeStep
       DEF SessionInv
  <2> QED
    BY <2>1 DEF SessionTypeOK, ContextTyped, TaskTyped, FlagsTyped,
                ReportsTyped
<1> QED
  BY <1>1, TaskStepInv, AnalysisStep, ContextStep, MetricsStep, ReportStep
     DEF SessionInv

LEMMA Invariance == Spec => []SessionInv
BY InitInv, StepInv, PTL DEF Spec

(* Every variable has the shape the code gives it, and no report outgrows  *)
(* its limit (app/main.py, app/service_context.py, app/metrics.py).        *)
THEOREM SessionTypeCorrect == Spec => []SessionTypeOK
<1>1. SessionInv => SessionTypeOK
  BY DEF SessionInv
<1> QED
  BY <1>1, Invariance, PTL

(* A run corrects every segment with the context it was started with,      *)
(* whatever requests were past their checks when it began                  *)
(* (app/service_context.py: lock_for_service and the guards of the rest).  *)
THEOREM ContextKept == Spec => []RunKeepsContext
<1>1. SessionInv => RunKeepsContext
  BY DEF SessionInv
<1> QED
  BY <1>1, Invariance, PTL

(* The report under way is that of the task under way, and outlives it     *)
(* only when its clean-up was cut short (app/main.py: run_transcription).  *)
THEOREM ReportOfTheTask == Spec => []MetricsFollowTask
<1>1. SessionInv => MetricsFollowTask
  BY DEF SessionInv
<1> QED
  BY <1>1, Invariance, PTL

(* A run whose beginning reached the file is told of over every crash and  *)
(* restart, as under way, completed or interrupted, and as one of them     *)
(* only (app/metrics.py).                                                  *)
THEOREM ToldOnce == Spec => []RunsReportedOnce
<1>1. SessionInv => RunsReportedOnce
  BY DEF SessionInv, ReportInv, RunsReportedOnce, TellsOnce, Told
<1> QED
  BY <1>1, Invariance, PTL

=============================================================================

----------------------- MODULE EngineSupervisorProofs -----------------------
(***************************************************************************)
(* Proofs about the supervisor (EngineSupervisor): the shape of its state  *)
(* for every situation, and, where one thread at a time starts engines,    *)
(* that one engine at most runs, that Stopped means gone, and that the     *)
(* budget of automatic restarts holds.                                     *)
(***************************************************************************)
EXTENDS EngineSupervisor, TLAPS, SequenceTheorems

-----------------------------------------------------------------------------
(* The invariant.                                                          *)

(* An engine whose controller has not yet published its exit.              *)
Active(p) == controller[p].at \in {"watching", "exiting", "cleared"}

Starts(a) == job[a].at \in {"start", "spawn", "publish"}

(* The threads that start engines are the main thread and the back-off     *)
(* thread, one at a time; neither waits to start one after a stop. The     *)
(* back-off thread has no part where the user may start engines.           *)
StarterInv ==
    /\ \A a \in Agents :
         /\ job[a].at \in {"idle", "start", "spawn", "publish", "stopPublish",
                           "stopSend", "revalidate"}
         /\ job[a].at \in {"stopPublish", "stopSend"}
               => job[a].what \in {"stop", "quit"}
         /\ Starts(a) => a \in {Main, Backoff}
    /\ ~(Starts(Main) /\ Starts(Backoff))
    /\ Starts(Main) => recovery.sleeping = {}
    /\ Starts(Main) /\ MaxAttempts # 0 => \A p \in Pids : ~Active(p)
    /\ Starts(Backoff) => MaxAttempts # 0

(* One controller at most is active; while one is, the snapshot names an   *)
(* engine and does not say Stopped, and start() does not pass its check.   *)
ActiveInv ==
    /\ \A p \in Pids : Active(p) => status.pid # NoPid
                                    /\ status.phase # "Stopped"
    /\ \A p, q \in Pids : Active(p) /\ Active(q) => p = q
    /\ \A a \in Agents, p \in Pids :
         job[a].at \in {"spawn", "publish"} => ~Active(p)

(* The stored sender is that of the active controller, or of the engine    *)
(* that is being started; an engine that is alive has one of the two.      *)
SenderInv ==
    /\ \A p \in Pids :
         controller[p].at \in {"watching", "exiting"} => control = p
    /\ \A a \in Agents : job[a].at = "publish"
          => control = job[a].pid /\ job[a].pid \in Pids
    /\ \A p \in Pids : engine[p] \in Alive =>
         \/ controller[p].at = "watching"
         \/ \E a \in Agents : job[a].at = "publish" /\ job[a].pid = p

(* What is left of the budget: a restart that a back-off thread will ask   *)
(* for is not yet counted, nor is the one an exiting engine will cause.    *)
BudgetInv ==
    /\ recovery.started <= status.attempts
    /\ status.attempts \in recovery.sleeping
          => recovery.started < status.attempts
    /\ \A p \in Pids : controller[p].at \in {"exiting", "cleared"}
          => recovery.started <= controller[p].attempts

OwnedInv == StarterInv /\ ActiveInv /\ SenderInv /\ BudgetInv

SupervisorInv == SupervisorTypeOK /\ (OneStarter => OwnedInv)

-----------------------------------------------------------------------------
(* The parts of the type invariant, and what the parts of an action do.    *)

StatusTypes == status \in Snapshot
RecoveryTypes ==
    recovery \in [sleeping : SUBSET (1 .. MaxAttempts), started : Nat]
JobTypes == job \in [Agents -> Job]
FlagTypes ==
    /\ control \in Pids \cup {NoPid} /\ stdin \subseteq Pids
    /\ quit \in {"no", "waiting", "exited"}
EngineTypes == engine \in [Pids -> Alive \cup {"unborn", "ok", "failed"}]
PipeTypes ==
    /\ pipe \in [Pids -> Seq(Lines)]
    /\ \A p \in Pids : Len(pipe[p]) <= MaxPipe
ControllerTypes == controller \in [Pids -> Watch]
MailTypes == mail \in [Pids -> SUBSET {"stop", "force"}]
CheckTypes ==
    /\ reader \in [Pids -> Lines \cup {"none"}]
    /\ health \in [Pids -> {"none", "probing", "Ready", "CaptionsLive",
                            "expired"}]
    /\ budget \in [Pids -> Attempts]

Types ==
    /\ situation \in Situations
    /\ StatusTypes /\ RecoveryTypes /\ JobTypes /\ FlagTypes /\ EngineTypes
    /\ PipeTypes /\ ControllerTypes /\ MailTypes /\ CheckTypes

LEMMA TypeParts == SupervisorTypeOK <=> Types
<1> QED
  BY DEF SupervisorTypeOK, Types, StatusTypes, RecoveryTypes, JobTypes,
         FlagTypes, EngineTypes, PipeTypes, ControllerTypes, MailTypes,
         CheckTypes

LEMMA PublishTypes ==
    ASSUME StatusTypes, NEW phase \in Phases, NEW pid \in Pids \cup {NoPid},
           NEW live \in BOOLEAN, NEW healthy \in BOOLEAN,
           Publish(phase, pid, live, healthy), UNCHANGED situation
    PROVE  StatusTypes'
<1> QED
  BY DEF StatusTypes, Snapshot, Publish, Attempts, MaxAttempts

LEMMA PhaseTypes ==
    ASSUME StatusTypes, NEW phase \in Phases, PublishPhase(phase),
           UNCHANGED situation
    PROVE  StatusTypes'
<1> QED
  BY DEF StatusTypes, Snapshot, PublishPhase, Attempts, MaxAttempts

LEMMA DoTypes ==
    ASSUME JobTypes, NEW a \in Agents, NEW next \in Job, Do(a, next)
    PROVE  JobTypes'
<1> QED
  BY DEF JobTypes, Do

LEMMA GoTypes ==
    ASSUME JobTypes, NEW a \in Agents, NEW at \in Steps, Go(a, at)
    PROVE  JobTypes'
<1>1. [job[a] EXCEPT !.at = at] \in Job
  BY DEF JobTypes, Job
<1> QED
  BY <1>1, DoTypes DEF Go

LEMMA IdleTypes ==
    /\ Idle \in Job
    /\ \A at \in Steps, what \in Reasons :
         [Idle EXCEPT !.at = at, !.what = what] \in Job
<1> QED
  BY DEF Idle, Job, Steps, Reasons

LEMMA ForceTypes ==
    ASSUME FlagTypes, MailTypes, ForceStop
    PROVE  MailTypes'
<1> QED
  BY DEF FlagTypes, MailTypes, ForceStop

LEMMA KillTypes ==
    ASSUME EngineTypes, NEW p \in Pids, Kill(p)
    PROVE  EngineTypes'
<1> QED
  BY DEF EngineTypes, Kill, Alive

LEMMA KeptTypes ==
    ASSUME Types, UNCHANGED situation
    PROVE  /\ UNCHANGED status => StatusTypes'
           /\ UNCHANGED recovery => RecoveryTypes'
           /\ UNCHANGED job => JobTypes'
           /\ UNCHANGED <<control, stdin, quit>> => FlagTypes'
           /\ UNCHANGED engine => EngineTypes'
           /\ UNCHANGED pipe => PipeTypes'
           /\ UNCHANGED controller => ControllerTypes'
           /\ UNCHANGED mail => MailTypes'
           /\ UNCHANGED <<reader, health, budget>> => CheckTypes'
<1> QED
  BY DEF Types, StatusTypes, RecoveryTypes, JobTypes, FlagTypes, EngineTypes,
         PipeTypes, ControllerTypes, MailTypes, CheckTypes, Snapshot, Watch,
         Attempts, MaxAttempts

LEMMA ContinueTypes ==
    ASSUME JobTypes, NEW a \in Agents, NEW what \in Reasons, Continue(a, what)
    PROVE  JobTypes'
<1>1. [at |-> "handOver", what |-> what, pid |-> NoPid] \in Job
  BY DEF Job, Steps
<1> QED
  BY <1>1, IdleTypes, DoTypes, GoTypes DEF Continue, Steps

LEMMA RequestTypes ==
    ASSUME JobTypes, FlagTypes, NEW a \in Agents, NEW what \in Reasons,
           NEW allowed, RequestStop(a, what, allowed)
    PROVE  JobTypes'
<1>1. [at |-> "stopPublish", what |-> what, pid |-> control] \in Job
  BY DEF Job, Steps, FlagTypes
<1> QED
  BY <1>1, IdleTypes, DoTypes, ContinueTypes DEF RequestStop

(* A behaviour's situation says what it may be about and how much.         *)
LEMMA SituationFacts ==
    ASSUME situation \in Situations
    PROVE  /\ MaxAttempts \in Nat
           /\ 1 .. situation.engines \subseteq Pids
           /\ situation.firstLines \subseteq {"starting", "incompatible"}
           /\ situation.commands \subseteq {"start", "stop", "restart", "reset",
                                            "update", "quit", "resume"}
<1>1. situation \in Situation
  BY SituationsAssumption
<1>2. /\ situation.engines \in 1 .. MaxEngines /\ MaxAttempts \in Nat
      /\ situation.firstLines \subseteq {"starting", "incompatible"}
      /\ situation.commands \subseteq {"start", "stop", "restart", "reset",
                                       "update", "quit", "resume"}
  BY <1>1 DEF Situation, MaxAttempts
<1> QED
  BY <1>2, BoundsAssumption DEF Pids

LEMMA SpawnTypes ==
    ASSUME Types, NEW a \in Agents, Spawn(a), UNCHANGED situation
    PROVE  Types'
<1>1. PICK p \in 1 .. situation.engines, line \in situation.firstLines :
        /\ engine' = [engine EXCEPT ![p] = "booting"]
        /\ pipe' = [pipe EXCEPT ![p] = <<line>>]
        /\ control' = p
        /\ Do(a, [job[a] EXCEPT !.at = "publish", !.pid = p])
  BY DEF Spawn
<1>2. p \in Pids /\ line \in Lines
  BY SituationFacts DEF Types, Lines
<1>3. EngineTypes' /\ FlagTypes'
  BY <1>1, <1>2 DEF Types, EngineTypes, FlagTypes, Spawn, Alive
<1>4. PipeTypes'
  <2>1. <<line>> \in Seq(Lines) /\ Len(<<line>>) <= MaxPipe
    BY <1>2, BoundsAssumption
  <2> DEFINE first == <<line>>
  <2>2. first \in Seq(Lines) /\ Len(first) <= MaxPipe /\ pipe' = [pipe EXCEPT ![p] = first]
    BY <2>1, <1>1
  <2> HIDE DEF first
  <2> QED
    BY <2>2, <1>2 DEF Types, PipeTypes
<1>5. JobTypes'
  <2>1. [job[a] EXCEPT !.at = "publish", !.pid = p] \in Job
    BY <1>2 DEF Types, JobTypes, Job, Steps
  <2> QED
    BY <1>1, <2>1, DoTypes DEF Types
<1> QED
  BY <1>3, <1>4, <1>5, KeptTypes DEF Types, Spawn, process, watch, checks

LEMMA AgentTypes ==
    ASSUME Types, NEW a \in Agents, AgentStep(a), UNCHANGED situation
    PROVE  Types'
<1> USE DEF Types, threads, process, watch, checks
<1>0. /\ job[a] \in Job /\ job[a].what \in Reasons
      /\ job[a].pid \in Pids \cup {NoPid}
  BY DEF JobTypes, Job
<1>1. CASE CheckStart(a)
  BY <1>1, DoTypes, GoTypes, IdleTypes, KeptTypes DEF CheckStart, Steps
<1>2. CASE Spawn(a)
  BY <1>2, SpawnTypes
<1>3. CASE SpawnFails(a)
  <2>1. StatusTypes'
    BY <1>3, PhaseTypes, KeptTypes DEF SpawnFails, Phases
  <2> QED
    BY <1>3, <2>1, DoTypes, IdleTypes, KeptTypes DEF SpawnFails
<1>4. CASE PublishStart(a)
  <2>1. StatusTypes'
    BY <1>4, <1>0, PublishTypes DEF PublishStart, Phases
  <2>2. ControllerTypes'
    BY <1>4, KeptTypes DEF PublishStart, ControllerTypes, Watch, Attempts,
       MaxAttempts
  <2> QED
    BY <1>4, <2>1, <2>2, DoTypes, IdleTypes, KeptTypes DEF PublishStart
<1>5. CASE CheckStop(a)
  BY <1>5, <1>0, RequestTypes, KeptTypes DEF CheckStop
<1>6. CASE PublishStopping(a)
  BY <1>6, PhaseTypes, GoTypes, KeptTypes
     DEF PublishStopping, Phases, Steps
<1>7. CASE SendStop(a)
  <2>1. MailTypes'
    BY <1>7, KeptTypes DEF SendStop, MailTypes
  <2>2. JobTypes'
    BY <1>7, <1>0, DoTypes, IdleTypes, ContinueTypes DEF SendStop
  <2> QED
    BY <1>7, <2>1, <2>2, KeptTypes DEF SendStop
<1>8. CASE AwaitExit(a)
  BY <1>8, GoTypes, DoTypes, IdleTypes, KeptTypes DEF AwaitExit, Steps
<1>9. CASE PublishUpdating(a)
  <2>1. StatusTypes'
    BY <1>9, PublishTypes DEF PublishUpdating, Phases, StatusTypes, Snapshot
  <2> QED
    BY <1>9, <2>1, GoTypes, KeptTypes DEF PublishUpdating, Steps
<1> QED
  BY <1>1, <1>2, <1>3, <1>4, <1>5, <1>6, <1>7, <1>8, <1>9 DEF AgentStep

LEMMA UserTypes ==
    ASSUME Types, UserStep, UNCHANGED situation
    PROVE  Types'
<1> USE DEF Types, threads, process, watch, checks, Command
<1>0. Main \in Agents /\ Updater \in Agents
  BY DEF Agents
<1>1. CASE StartCommand
  <2>1. StatusTypes' /\ RecoveryTypes'
    BY <1>1, SituationFacts DEF StartCommand, StatusTypes, RecoveryTypes,
       Snapshot, Attempts, MaxAttempts
  <2> QED
    BY <1>1, <1>0, <2>1, DoTypes, IdleTypes, KeptTypes
       DEF StartCommand, Steps, Reasons
<1>2. CASE \E what \in {"stop", "restart"}, allowed \in BOOLEAN :
             StopCommand(what, allowed)
  BY <1>2, <1>0, RequestTypes, KeptTypes DEF StopCommand, Reasons
<1>3. \A a \in Agents, what \in {"reset", "update", "updateReady"} :
        Maintain(a, what) => JobTypes'
  <2> SUFFICES ASSUME NEW a \in Agents,
                      NEW what \in {"reset", "update", "updateReady"},
                      Maintain(a, what)
               PROVE  JobTypes'
    OBVIOUS
  <2>1. \A at \in {"stopCheck", "claim"} :
          [at |-> at, what |-> what, pid |-> NoPid] \in Job
    BY DEF Job, Steps, Reasons
  <2> QED
    BY <2>1, DoTypes DEF Maintain
<1>4. CASE ResetCommand
  BY <1>4, <1>0, <1>3, KeptTypes DEF ResetCommand
<1>5. CASE UpdateCommand
  BY <1>5, <1>0, <1>3, KeptTypes DEF UpdateCommand
<1>6. CASE QuitCommand
  <2>1. FlagTypes'
    BY <1>6 DEF QuitCommand, FlagTypes
  <2> QED
    BY <1>6, <1>0, <2>1, RequestTypes, KeptTypes DEF QuitCommand, Reasons
<1>7. CASE Resume
  <2>1. [at |-> "revalidate", what |-> "resume", pid |-> status.pid] \in Job
    BY DEF StatusTypes, Snapshot, Job, Steps, Reasons
  <2> QED
    BY <1>7, <1>0, <2>1, DoTypes, KeptTypes DEF Resume
<1> QED
  BY <1>1, <1>2, <1>4, <1>5, <1>6, <1>7 DEF UserStep

LEMMA ThreadTypes ==
    ASSUME Types, ThreadStep, UNCHANGED situation
    PROVE  Types'
<1> USE DEF Types, threads, process, watch, checks
<1>0. /\ Main \in Agents /\ Updater \in Agents /\ Backoff \in Agents
      /\ Restarters \subseteq Agents
      /\ status.pid \in Pids \cup {NoPid}
  BY DEF Agents, StatusTypes, Snapshot
<1>1. CASE HandOver
  <2>1. [Idle EXCEPT !.at = "wait", !.what = "restart"] \in Job
    BY IdleTypes DEF Steps, Reasons
  <2>2. JobTypes'
    BY <1>1, <1>0, <2>1, IdleTypes DEF HandOver, JobTypes
  <2> QED
    BY <1>1, <2>2, KeptTypes DEF HandOver
<1>2. CASE Revalidate
  <2>1. StatusTypes'
    BY <1>2, <1>0, PublishTypes DEF Revalidate, Phases
  <2>2. CheckTypes'
    BY <1>2, KeptTypes DEF Revalidate, CheckTypes, Attempts, MaxAttempts
  <2> QED
    BY <1>2, <1>0, <2>1, <2>2, DoTypes, IdleTypes, KeptTypes DEF Revalidate
<1>3. CASE ExitApplication
  <2>1. MailTypes' /\ FlagTypes'
    BY <1>3, ForceTypes, KeptTypes DEF ExitApplication, FlagTypes
  <2> QED
    BY <1>3, <2>1, KeptTypes DEF ExitApplication
<1>4. CASE InstallFails
  <2>1. StatusTypes'
    BY <1>4, PublishTypes DEF InstallFails, Phases
  <2> QED
    BY <1>4, <1>0, <2>1, DoTypes, GoTypes, IdleTypes, KeptTypes
       DEF InstallFails, Steps
<1>5. CASE InstallSucceeds
  <2>1. FlagTypes'
    BY <1>5 DEF InstallSucceeds, FlagTypes
  <2> QED
    BY <1>5, <1>0, <2>1, DoTypes, IdleTypes, KeptTypes DEF InstallSucceeds
<1>6. ASSUME NEW r \in Restarters, RestarterWakes(r)
      PROVE  Types'
  <2>1. StatusTypes'
    BY <1>6, PhaseTypes, KeptTypes DEF RestarterWakes, Phases
  <2>2. JobTypes'
    BY <1>6, <1>0, DoTypes, GoTypes, IdleTypes DEF RestarterWakes, Steps
  <2> QED
    BY <1>6, <2>1, <2>2, KeptTypes DEF RestarterWakes
<1>7. ASSUME NEW n \in recovery.sleeping, BackoffWakes(n)
      PROVE  Types'
  <2>1. RecoveryTypes'
    BY <1>7 DEF BackoffWakes, RecoveryTypes, MaxAttempts
  <2>2. JobTypes'
    BY <1>7, <1>0, DoTypes, IdleTypes, KeptTypes
       DEF BackoffWakes, Steps, Reasons
  <2> QED
    BY <1>7, <2>1, <2>2, KeptTypes DEF BackoffWakes
<1> QED
  BY <1>1, <1>2, <1>3, <1>4, <1>5, <1>6, <1>7 DEF ThreadStep

LEMMA EngineTypesKept ==
    ASSUME Types, NEW p \in Pids, EngineStep(p), UNCHANGED situation
    PROVE  Types'
<1> USE DEF Types, threads, process, watch, checks, RestUnchanged
<1>1. ASSUME NEW line \in Lines, Says(p, line)
      PROVE  PipeTypes'
  <2>1. /\ Append(pipe[p], line) \in Seq(Lines)
        /\ Len(Append(pipe[p], line)) = Len(pipe[p]) + 1
        /\ Len(pipe[p]) \in Nat
    BY AppendProperties DEF PipeTypes
  <2>2. Len(Append(pipe[p], line)) <= MaxPipe
    BY <1>1, <2>1, BoundsAssumption DEF Says
  <2> DEFINE longer == Append(pipe[p], line)
  <2>3. /\ longer \in Seq(Lines) /\ Len(longer) <= MaxPipe
        /\ pipe' = [pipe EXCEPT ![p] = longer]
    BY <1>1, <2>1, <2>2 DEF Says
  <2> HIDE DEF longer
  <2> QED
    BY <2>3 DEF PipeTypes
<1>2. ASSUME NEW from, NEW to \in Alive \cup {"ok", "failed"},
             Turn(p, from, to)
      PROVE  EngineTypes'
  BY <1>2 DEF Turn, EngineTypes
<1>3. CASE EngineReady(p)
  BY <1>3, <1>1, <1>2, KeptTypes DEF EngineReady, Lines, Alive
<1>4. CASE EngineCannotListen(p)
  BY <1>4, <1>2, KeptTypes DEF EngineCannotListen
<1>5. CASE EngineCaptions(p)
  BY <1>5, <1>1, <1>2, KeptTypes DEF EngineCaptions, Lines, Alive
<1>6. CASE EngineObeys(p)
  <2>1. EngineTypes'
    BY <1>6, <1>2 DEF EngineObeys, EngineTypes, Alive
  <2> QED
    BY <1>6, <2>1, KeptTypes DEF EngineObeys
<1>7. CASE EngineExits(p)
  BY <1>7, <1>1, <1>2, KeptTypes DEF EngineExits, Lines
<1>8. CASE EngineCrashes(p) \/ ParentGone(p)
  <2>1. EngineTypes'
    BY <1>8 DEF EngineCrashes, ParentGone, EngineTypes
  <2> QED
    BY <1>8, <2>1, KeptTypes DEF EngineCrashes, ParentGone
<1> QED
  BY <1>3, <1>4, <1>5, <1>6, <1>7, <1>8 DEF EngineStep

LEMMA ControllerTypesKept ==
    ASSUME Types, NEW p \in Pids, ControllerStep(p), UNCHANGED situation
    PROVE  Types'
<1> USE DEF Types, threads, process, watch, checks
<1>1. ASSUME NEW message, Receive(p, message)
      PROVE  MailTypes'
  BY <1>1 DEF Receive, MailTypes
<1>2. CASE TakeStop(p)
  <2>1. FlagTypes' /\ ControllerTypes'
    BY <1>2 DEF TakeStop, FlagTypes, ControllerTypes, Watch, Attempts,
       MaxAttempts
  <2> QED
    BY <1>2, <1>1, <2>1, KeptTypes DEF TakeStop
<1>3. CASE TakeForce(p)
  BY <1>3, <1>1, KillTypes, KeptTypes DEF TakeForce
<1>4. CASE LostSender(p)
  BY <1>4, KillTypes, KeptTypes DEF LostSender
<1>5. CASE StopTimeout(p)
  <2>1. ControllerTypes'
    BY <1>5 DEF StopTimeout, ControllerTypes, Watch, Attempts, MaxAttempts
  <2> QED
    BY <1>5, <2>1, KillTypes, KeptTypes DEF StopTimeout
<1>6. CASE SeeExit(p)
  <2>1. [at |-> "exiting", deadline |-> FALSE, previous |-> status.phase,
         attempts |-> status.attempts] \in Watch
    BY DEF StatusTypes, Snapshot, Watch
  <2>2. ControllerTypes'
    BY <1>6, <2>1 DEF SeeExit, ControllerTypes, Watch, Attempts, MaxAttempts
  <2> QED
    BY <1>6, <2>2, KeptTypes DEF SeeExit
<1>7. CASE ClearControl(p)
  <2>1. FlagTypes' /\ ControllerTypes'
    BY <1>7 DEF ClearControl, FlagTypes, ControllerTypes, Watch, Attempts,
       MaxAttempts
  <2> QED
    BY <1>7, <2>1, KeptTypes DEF ClearControl
<1>8. CASE PublishExit(p)
  <2>1. /\ controller[p].attempts \in 0 .. MaxAttempts /\ MaxAttempts \in Nat
        /\ status.attempts \in 0 .. MaxAttempts
    BY SituationFacts DEF ControllerTypes, Watch, StatusTypes, Snapshot,
       Attempts
  <2>2. RestartsAlone(p) => controller[p].attempts + 1 \in 1 .. MaxAttempts
    BY <2>1 DEF RestartsAlone
  <2>3. PhaseAfterExit(p) \in Phases
    BY DEF PhaseAfterExit, Phases
  <2>4. StatusTypes'
    <3>1. (IF RestartsAlone(p) THEN controller[p].attempts + 1
           ELSE status.attempts) \in Attempts
      BY <2>1, <2>2 DEF Attempts
    <3> DEFINE left == IF RestartsAlone(p) THEN controller[p].attempts + 1
                       ELSE status.attempts
    <3>2. /\ left \in Attempts /\ Attempts' = Attempts
          /\ status' = [phase |-> PhaseAfterExit(p), pid |-> NoPid,
                        live |-> FALSE, healthy |-> FALSE, attempts |-> left]
      BY <1>8, <3>1 DEF PublishExit, Attempts, MaxAttempts
    <3> HIDE DEF left
    <3> QED
      BY <3>2, <2>3 DEF StatusTypes, Snapshot
  <2>5. RecoveryTypes'
    <3>1. MaxAttempts' = MaxAttempts
      BY DEF MaxAttempts
    <3>2. CASE RestartsAlone(p)
      <4> DEFINE next == controller[p].attempts + 1
      <4>1. /\ next \in 1 .. MaxAttempts
            /\ recovery' = [recovery EXCEPT !.sleeping = @ \cup {next}]
        BY <1>8, <2>2, <3>2 DEF PublishExit
      <4> HIDE DEF next
      <4> QED
        BY <3>1, <4>1 DEF RecoveryTypes
    <3>3. CASE ~RestartsAlone(p)
      BY <1>8, <3>3, KeptTypes DEF PublishExit
    <3> QED
      BY <3>2, <3>3
  <2>6. ControllerTypes'
    <3>1. Unwatched("done") \in Watch /\ Watch' = Watch
      BY <2>1 DEF Unwatched, Watch, Attempts, Phases, MaxAttempts
    <3> QED
      BY <1>8, <3>1 DEF PublishExit, ControllerTypes
  <2> QED
    BY <1>8, <2>4, <2>5, <2>6, KeptTypes DEF PublishExit
<1> QED
  BY <1>2, <1>3, <1>4, <1>5, <1>6, <1>7, <1>8 DEF ControllerStep

LEMMA CheckTypesKept ==
    ASSUME Types, NEW p \in Pids, CheckStep(p), UNCHANGED situation
    PROVE  Types'
<1> USE DEF Types, threads, process, watch, checks
<1>0. /\ status.pid \in Pids \cup {NoPid} /\ status.live \in BOOLEAN
      /\ Attempts' = Attempts /\ status.attempts \in Attempts
  BY DEF StatusTypes, Snapshot, Attempts, MaxAttempts
<1>1. CASE ReadEvent(p)
  <2>1. pipe[p] \in Seq(Lines) /\ pipe[p] # <<>> /\ Len(pipe[p]) <= MaxPipe
    BY <1>1 DEF ReadEvent, PipeTypes
  <2>2. /\ Head(pipe[p]) \in Lines /\ Tail(pipe[p]) \in Seq(Lines)
        /\ Len(Tail(pipe[p])) <= MaxPipe
    BY <2>1, HeadTailProperties, BoundsAssumption
  <2>3. PipeTypes'
    <3> DEFINE rest == Tail(pipe[p])
    <3>1. /\ rest \in Seq(Lines) /\ Len(rest) <= MaxPipe
          /\ pipe' = [pipe EXCEPT ![p] = rest]
      BY <1>1, <2>2 DEF ReadEvent
    <3> HIDE DEF rest
    <3> QED
      BY <3>1 DEF PipeTypes
  <2>4. CheckTypes'
    <3> DEFINE first == Head(pipe[p])
    <3>1. /\ first \in Lines
          /\ reader' = IF status.pid = p THEN [reader EXCEPT ![p] = first]
                       ELSE reader
          /\ UNCHANGED <<health, budget>>
      BY <1>1, <2>2 DEF ReadEvent
    <3> HIDE DEF first
    <3> QED
      BY <3>1, <1>0 DEF CheckTypes
  <2> QED
    BY <1>1, <2>3, <2>4, KeptTypes DEF ReadEvent
<1>2. CASE PublishEvent(p)
  <2>1. \A line : ApplyRuntimeState(p, line) => StatusTypes'
    <3>1. status' = [status EXCEPT !.pid = p] => StatusTypes'
      BY DEF StatusTypes, Snapshot, Attempts, MaxAttempts
    <3> QED
      BY <3>1, PublishTypes DEF ApplyRuntimeState, Phases
  <2>2. StatusTypes' /\ MailTypes'
    BY <1>2, <2>1, PhaseTypes, ForceTypes, KeptTypes DEF PublishEvent, Phases
  <2>3. CheckTypes'
    BY <1>2, <1>0 DEF PublishEvent, CheckTypes
  <2> QED
    BY <1>2, <2>2, <2>3, KeptTypes DEF PublishEvent
<1>3. CASE HealthAnswers(p) \/ HealthExpires(p)
  <2>1. CheckTypes'
    BY <1>3, <1>0 DEF HealthAnswers, HealthExpires, CheckTypes
  <2> QED
    BY <1>3, <2>1, KeptTypes DEF HealthAnswers, HealthExpires
<1>4. CASE PublishHealth(p)
  <2>1. StatusTypes'
    BY <1>4, <1>0, PublishTypes DEF PublishHealth, Phases
  <2>2. CheckTypes'
    BY <1>4, <1>0 DEF PublishHealth, CheckTypes
  <2> QED
    BY <1>4, <2>1, <2>2, KeptTypes DEF PublishHealth
<1>5. CASE PublishExpiry(p)
  <2>1. StatusTypes' /\ MailTypes'
    BY <1>5, <1>0, PublishTypes, ForceTypes DEF PublishExpiry, Phases
  <2>2. CheckTypes'
    BY <1>5, <1>0 DEF PublishExpiry, CheckTypes
  <2> QED
    BY <1>5, <2>1, <2>2, KeptTypes DEF PublishExpiry
<1>6. CASE BudgetReset(p)
  <2>0. 0 \in Attempts
    BY SituationFacts DEF Attempts
  <2>1. CheckTypes'
    BY <1>6, <1>0, <2>0 DEF BudgetReset, CheckTypes
  <2>2. StatusTypes' /\ RecoveryTypes'
    BY <1>6, <1>0, SituationFacts, KeptTypes
       DEF BudgetReset, StatusTypes, RecoveryTypes, Snapshot, Attempts,
           MaxAttempts
  <2> QED
    BY <1>6, <2>1, <2>2, KeptTypes DEF BudgetReset
<1> QED
  BY <1>1, <1>2, <1>3, <1>4, <1>5, <1>6 DEF CheckStep

LEMMA NextTypes ==
    ASSUME Types, [Next]_vars
    PROVE  Types'
<1>1. CASE Next
  BY <1>1, UserTypes, ThreadTypes, AgentTypes, ControllerTypesKept,
     CheckTypesKept, EngineTypesKept DEF Next
<1>2. CASE UNCHANGED vars
  BY <1>2, KeptTypes DEF vars, threads, process, watch, checks, Types
<1> QED
  BY <1>1, <1>2

LEMMA InitTypes == Init => Types
<1> SUFFICES ASSUME Init
             PROVE  Types
  OBVIOUS
<1>0. MaxAttempts \in Nat
  BY SituationFacts DEF Init
<1>1. StatusTypes /\ RecoveryTypes /\ CheckTypes
  BY <1>0 DEF Init, StatusTypes, RecoveryTypes, CheckTypes, Snapshot,
     Attempts, Phases
<1>2. FlagTypes /\ EngineTypes /\ MailTypes
  BY DEF Init, FlagTypes, EngineTypes, MailTypes
<1>3. PipeTypes
  BY BoundsAssumption DEF Init, PipeTypes
<1>4. ControllerTypes
  BY <1>0 DEF Init, ControllerTypes, Unwatched, Watch, Attempts, Phases
<1>5. JobTypes
  <2>1. [Idle EXCEPT !.at = "start", !.what = "launch"] \in Job
    BY IdleTypes DEF Steps, Reasons
  <2> QED
    BY <2>1, IdleTypes DEF Init, JobTypes
<1> QED
  BY <1>1, <1>2, <1>3, <1>4, <1>5 DEF Init, Types

(* Every behaviour's state has its shape, whatever its situation.          *)
THEOREM SupervisorTypeCorrect == Spec => []SupervisorTypeOK
<1>1. Init => Types
  BY InitTypes
<1>2. Types /\ [Next]_vars => Types'
  BY NextTypes
<1>3. Types => SupervisorTypeOK
  BY TypeParts
<1> QED
  BY <1>1, <1>2, <1>3, PTL DEF Spec

-----------------------------------------------------------------------------
(* One thread at a time starts engines: what the steps do.                 *)

(* Nothing is started or taken over: engines only end, the snapshot does   *)
(* not lose its engine, and no controller moves on.                        *)
Calm ==
    /\ UNCHANGED <<recovery, control, situation>>
    /\ \A p \in Pids :
         /\ controller'[p].at = controller[p].at
         /\ controller'[p].attempts = controller[p].attempts
         /\ engine'[p] \in Alive => engine[p] \in Alive
    /\ status'.attempts = status.attempts
    /\ status.pid # NoPid => status'.pid # NoPid
    /\ status'.phase = "Stopped" => status.phase = "Stopped"

(* A thread turns to something other than starting an engine.              *)
Turns(a, next) ==
    /\ job' = [job EXCEPT ![a] = next]
    /\ job[a].at # "publish"
    /\ next.at \in {"idle", "stopPublish", "stopSend", "revalidate"}
    /\ next.at \in {"stopPublish", "stopSend"} => next.what \in {"stop", "quit"}

(* The steps that are not calm.                                            *)
Claims(a) ==
    /\ job[a].at = "start" /\ StartRequiresSpawn /\ Go(a, "spawn")
    /\ UNCHANGED <<status, control, recovery, engine, controller, situation>>
Starting ==
    \/ StartCommand
    \/ \E n \in recovery.sleeping : BackoffWakes(n)
    \/ \E a \in Agents : Claims(a) \/ Spawn(a) \/ PublishStart(a)
Exiting(p) == SeeExit(p) \/ ClearControl(p) \/ PublishExit(p)

LEMMA ActiveKept ==
    ASSUME Types, OwnedInv, OneStarter, Calm,
           UNCHANGED job \/ \E a \in Agents, next \in Job : Turns(a, next)
    PROVE  OwnedInv'
<1>1. /\ \A p \in Pids : Active(p)' <=> Active(p)
      /\ MaxAttempts' = MaxAttempts /\ UNCHANGED recovery
  BY DEF Calm, Active, MaxAttempts
<1>2. \A a \in Agents :
        /\ Starts(a)' => Starts(a)
        /\ job'[a].at \in {"start", "spawn", "publish"} => job'[a] = job[a]
        /\ job[a].at = "publish" => job'[a] = job[a]
  BY DEF Types, JobTypes, Turns, Starts
<1>3. StarterInv'
  <2>1. Main \in Agents /\ Backoff \in Agents
    BY DEF Agents
  <2>2. \A a \in Agents :
          /\ job'[a].at \in {"idle", "start", "spawn", "publish",
                             "stopPublish", "stopSend", "revalidate"}
          /\ job'[a].at \in {"stopPublish", "stopSend"}
                => job'[a].what \in {"stop", "quit"}
    BY DEF Types, JobTypes, Turns, OwnedInv, StarterInv
  <2> QED
    BY <1>1, <1>2, <2>1, <2>2 DEF OwnedInv, StarterInv
<1>4. ActiveInv'
  BY <1>1, <1>2 DEF OwnedInv, ActiveInv, Calm
<1>5. SenderInv'
  BY <1>1, <1>2 DEF OwnedInv, SenderInv, Calm
<1>6. BudgetInv'
  BY <1>1 DEF OwnedInv, BudgetInv, Calm
<1> QED
  BY <1>3, <1>4, <1>5, <1>6 DEF OwnedInv

CalmStep ==
    Calm /\ (UNCHANGED job \/ \E a \in Agents, next \in Job : Turns(a, next))

(* What a calm step leaves alone is calm.                                  *)
LEMMA CalmParts ==
    ASSUME Types, UNCHANGED situation
    PROVE  /\ UNCHANGED status
                => /\ status'.attempts = status.attempts
                   /\ status.pid # NoPid => status'.pid # NoPid
                   /\ status'.phase = "Stopped" => status.phase = "Stopped"
           /\ \A phase \in Phases \ {"Stopped"} :
                PublishPhase(phase)
                => /\ status'.attempts = status.attempts
                   /\ status.pid # NoPid => status'.pid # NoPid
                   /\ status'.phase = "Stopped" => status.phase = "Stopped"
           /\ \A phase \in Phases \ {"Stopped"}, pid \in Pids \cup {status.pid},
                live, healthy \in BOOLEAN :
                Publish(phase, pid, live, healthy)
                => /\ status'.attempts = status.attempts
                   /\ status.pid # NoPid => status'.pid # NoPid
                   /\ status'.phase = "Stopped" => status.phase = "Stopped"
           /\ UNCHANGED controller
                => \A p \in Pids : /\ controller'[p].at = controller[p].at
                                   /\ controller'[p].attempts
                                        = controller[p].attempts
           /\ UNCHANGED engine
                => \A p \in Pids : engine'[p] \in Alive => engine[p] \in Alive
           /\ \A q \in Pids : Kill(q)
                => \A p \in Pids : engine'[p] \in Alive => engine[p] \in Alive
<1> USE DEF Types
<1>1. \A p \in Pids : 0 # p
  BY DEF Pids
<1>2. /\ \A phase \in Phases \ {"Stopped"} :
          PublishPhase(phase)
          => /\ status'.attempts = status.attempts
             /\ status.pid # NoPid => status'.pid # NoPid
             /\ status'.phase = "Stopped" => status.phase = "Stopped"
      /\ \A phase \in Phases \ {"Stopped"}, pid \in Pids \cup {status.pid},
           live, healthy \in BOOLEAN :
          Publish(phase, pid, live, healthy)
          => /\ status'.attempts = status.attempts
             /\ status.pid # NoPid => status'.pid # NoPid
             /\ status'.phase = "Stopped" => status.phase = "Stopped"
  BY <1>1 DEF PublishPhase, Publish, StatusTypes, Snapshot, NoPid
<1>3. \A q \in Pids : Kill(q)
        => \A p \in Pids : engine'[p] \in Alive => engine[p] \in Alive
  BY DEF Kill, EngineTypes, Alive
<1> QED
  BY <1>2, <1>3

LEMMA EngineCalm ==
    ASSUME Types, NEW p \in Pids, EngineStep(p), UNCHANGED situation
    PROVE  CalmStep
<1> USE DEF Types, threads, process, watch, checks, RestUnchanged
<1>1. \A q \in Pids : engine'[q] \in Alive => engine[q] \in Alive
  <2>1. \A from \in Alive : \A to :
          Turn(p, from, to)
          => \A q \in Pids : engine'[q] \in Alive => engine[q] \in Alive
    BY DEF Turn, EngineTypes
  <2>2. EngineReady(p) \/ EngineCannotListen(p) \/ EngineCaptions(p)
          \/ EngineExits(p)
        => \A q \in Pids : engine'[q] \in Alive => engine[q] \in Alive
    BY <2>1 DEF EngineReady, EngineCannotListen, EngineCaptions, EngineExits,
                Alive
  <2>3. EngineObeys(p) \/ EngineCrashes(p) \/ ParentGone(p)
        => \A q \in Pids : engine'[q] \in Alive => engine[q] \in Alive
    BY <2>1 DEF EngineObeys, EngineCrashes, ParentGone, Serving, EngineTypes,
                Alive
  <2> QED
    BY <2>2, <2>3 DEF EngineStep
<1>2. UNCHANGED <<status, control, job, recovery, controller>>
  BY DEF EngineStep, EngineReady, EngineCannotListen, EngineCaptions,
         EngineObeys, EngineExits, EngineCrashes, ParentGone
<1> QED
  BY <1>1, <1>2, CalmParts DEF CalmStep, Calm

LEMMA ControllerCalm ==
    ASSUME Types, NEW p \in Pids, ControllerStep(p), UNCHANGED situation
    PROVE  CalmStep \/ Exiting(p)
<1> USE DEF Types, threads, process, watch, checks
<1>1. CASE TakeStop(p)
  <2>1. \A q \in Pids : /\ controller'[q].at = controller[q].at
                        /\ controller'[q].attempts = controller[q].attempts
    BY <1>1 DEF TakeStop, ControllerTypes, Watch
  <2> QED
    BY <1>1, <2>1, CalmParts DEF TakeStop, CalmStep, Calm
<1>2. CASE TakeForce(p)
  BY <1>2, CalmParts DEF TakeForce, CalmStep, Calm
<1>3. CASE LostSender(p)
  BY <1>3, CalmParts DEF LostSender, CalmStep, Calm
<1>4. CASE StopTimeout(p)
  <2>1. \A q \in Pids : /\ controller'[q].at = controller[q].at
                        /\ controller'[q].attempts = controller[q].attempts
    BY <1>4 DEF StopTimeout, ControllerTypes, Watch
  <2> QED
    BY <1>4, <2>1, CalmParts DEF StopTimeout, CalmStep, Calm
<1> QED
  BY <1>1, <1>2, <1>3, <1>4 DEF ControllerStep, Exiting

LEMMA CheckCalm ==
    ASSUME Types, NEW p \in Pids, CheckStep(p), UNCHANGED situation
    PROVE  CalmStep \/ BudgetReset(p)
<1> USE DEF Types, threads, process, watch, checks
<1>1. CASE ReadEvent(p) \/ HealthAnswers(p) \/ HealthExpires(p)
  BY <1>1, CalmParts DEF ReadEvent, HealthAnswers, HealthExpires, CalmStep,
     Calm
<1>2. CASE PublishEvent(p)
  <2>1. status' = [status EXCEPT !.pid = p]
        => /\ status'.attempts = status.attempts
           /\ status.pid # NoPid => status'.pid # NoPid
           /\ status'.phase = "Stopped" => status.phase = "Stopped"
    BY DEF StatusTypes, Snapshot, Pids, NoPid
  <2>2. \A line : ApplyRuntimeState(p, line)
        => /\ status'.attempts = status.attempts
           /\ status.pid # NoPid => status'.pid # NoPid
           /\ status'.phase = "Stopped" => status.phase = "Stopped"
    BY <2>1, CalmParts DEF ApplyRuntimeState, Phases
  <2>3. /\ status'.attempts = status.attempts
        /\ status.pid # NoPid => status'.pid # NoPid
        /\ status'.phase = "Stopped" => status.phase = "Stopped"
    BY <1>2, <2>2, CalmParts DEF PublishEvent, Phases
  <2> QED
    BY <1>2, <2>3, CalmParts DEF PublishEvent, CalmStep, Calm
<1>3. CASE PublishHealth(p) \/ PublishExpiry(p)
  <2>1. status.live \in BOOLEAN
    BY DEF StatusTypes, Snapshot
  <2>2. /\ status'.attempts = status.attempts
        /\ status.pid # NoPid => status'.pid # NoPid
        /\ status'.phase = "Stopped" => status.phase = "Stopped"
    BY <1>3, <2>1, CalmParts DEF PublishHealth, PublishExpiry, Phases
  <2> QED
    BY <1>3, <2>2, CalmParts DEF PublishHealth, PublishExpiry, CalmStep, Calm
<1> QED
  BY <1>1, <1>2, <1>3 DEF CheckStep

LEMMA TurnFacts ==
    ASSUME Types, NEW a \in Agents, job[a].at # "publish"
    PROVE  /\ Do(a, Idle) => \E next \in Job : Turns(a, next)
           /\ \A what \in {"stop", "quit"} : \A allowed :
                RequestStop(a, what, allowed)
                => \E next \in Job : Turns(a, next)
           /\ \A what \in {"stop", "quit"} :
                Continue(a, what) => \E next \in Job : Turns(a, next)
<1>1. Do(a, Idle) => \E next \in Job : Turns(a, next)
  BY IdleTypes DEF Do, Turns, Idle
<1>2. \A what \in {"stop", "quit"} :
        Continue(a, what) => \E next \in Job : Turns(a, next)
  BY <1>1 DEF Continue
<1>3. ASSUME NEW what \in {"stop", "quit"}
      PROVE  Do(a, [at |-> "stopPublish", what |-> what, pid |-> control])
             => \E next \in Job : Turns(a, next)
  <2> DEFINE next == [at |-> "stopPublish", what |-> what, pid |-> control]
  <2>1. next \in Job /\ next.at = "stopPublish" /\ next.what = what
    BY DEF Types, FlagTypes, Job, Steps, Reasons
  <2> HIDE DEF next
  <2>2. Do(a, next) => Turns(a, next)
    BY <2>1 DEF Do, Turns
  <2> QED
    BY <2>1, <2>2 DEF next
<1>4. \A what \in {"stop", "quit"} : \A allowed :
        RequestStop(a, what, allowed) => \E next \in Job : Turns(a, next)
  BY <1>1, <1>2, <1>3 DEF RequestStop
<1> QED
  BY <1>1, <1>2, <1>4

LEMMA AgentCalm ==
    ASSUME Types, StarterInv, NEW a \in Agents, AgentStep(a),
           UNCHANGED situation
    PROVE  CalmStep \/ Starting
<1> USE DEF threads, process, watch, checks
<1>0. job[a].at \in {"idle", "start", "spawn", "publish", "stopPublish",
                    "stopSend", "revalidate"}
  BY DEF StarterInv
<1>1. CASE CheckStart(a)
  <2>1. CASE StartRequiresSpawn
    BY <1>1, <2>1 DEF CheckStart, Claims, Starting
  <2>2. CASE ~StartRequiresSpawn
    BY <1>1, <2>2, TurnFacts, CalmParts DEF CheckStart, CalmStep, Calm
  <2> QED
    BY <2>1, <2>2
<1>2. CASE SpawnFails(a)
  <2>1. /\ status'.attempts = status.attempts
        /\ status.pid # NoPid => status'.pid # NoPid
        /\ status'.phase = "Stopped" => status.phase = "Stopped"
    BY <1>2, CalmParts DEF SpawnFails, Phases
  <2> QED
    BY <1>2, <2>1, TurnFacts, CalmParts DEF SpawnFails, CalmStep, Calm
<1>3. CASE PublishStopping(a)
  <2>1. /\ status'.attempts = status.attempts
        /\ status.pid # NoPid => status'.pid # NoPid
        /\ status'.phase = "Stopped" => status.phase = "Stopped"
    BY <1>3, CalmParts DEF PublishStopping, Phases
  <2> DEFINE next == [job[a] EXCEPT !.at = "stopSend"]
  <2>2. /\ next \in Job /\ next.at = "stopSend" /\ next.what \in {"stop", "quit"}
    BY <1>3 DEF Types, JobTypes, Job, Steps, PublishStopping, StarterInv
  <2>3. job' = [job EXCEPT ![a] = next] /\ job[a].at # "publish"
    BY <1>3 DEF PublishStopping, Go, Do
  <2> HIDE DEF next
  <2>4. Turns(a, next)
    BY <2>2, <2>3 DEF Turns
  <2> QED
    BY <1>3, <2>1, <2>2, <2>4, CalmParts DEF PublishStopping, CalmStep, Calm
<1>4. CASE SendStop(a)
  <2>1. job[a].what \in {"stop", "quit"} /\ job[a].at # "publish"
    BY <1>4 DEF SendStop, StarterInv
  <2>2. \E next \in Job : Turns(a, next)
    BY <1>4, <2>1, TurnFacts DEF SendStop
  <2> QED
    BY <1>4, <2>2, CalmParts DEF SendStop, CalmStep, Calm
<1>5. CASE Spawn(a) \/ PublishStart(a)
  BY <1>5 DEF Starting
<1>6. ~CheckStop(a) /\ ~AwaitExit(a) /\ ~PublishUpdating(a)
  BY <1>0 DEF CheckStop, AwaitExit, PublishUpdating
<1> QED
  BY <1>1, <1>2, <1>3, <1>4, <1>5, <1>6 DEF AgentStep

LEMMA UserCalm ==
    ASSUME Types, OneStarter, UserStep, UNCHANGED situation
    PROVE  CalmStep \/ Starting
<1> USE DEF threads, process, watch, checks, Command
<1>0. Main \in Agents
  BY DEF Agents
<1>1. Command(Main, "stop") \/ Command(Main, "quit") \/ Command(Main, "resume")
        => job[Main].at # "publish"
  BY DEF Idle
<1>2. CASE StartCommand
  BY <1>2 DEF Starting
<1>3. ASSUME NEW what \in {"stop", "restart"}, NEW allowed \in BOOLEAN,
             StopCommand(what, allowed)
      PROVE  CalmStep
  <2>1. what = "stop"
    BY <1>3 DEF StopCommand, OneStarter
  <2>2. \E next \in Job : Turns(Main, next)
    BY <1>0, <1>1, <1>3, <2>1, TurnFacts DEF StopCommand
  <2> QED
    BY <1>0, <1>3, <2>2, CalmParts DEF StopCommand, CalmStep, Calm
<1>4. CASE QuitCommand
  <2>1. \E next \in Job : Turns(Main, next)
    BY <1>0, <1>1, <1>4, TurnFacts DEF QuitCommand
  <2> QED
    BY <1>0, <1>4, <2>1, CalmParts DEF QuitCommand, CalmStep, Calm
<1>5. CASE Resume
  <2> DEFINE next == [at |-> "revalidate", what |-> "resume", pid |-> status.pid]
  <2>1. next \in Job /\ next.at = "revalidate"
    BY DEF Types, StatusTypes, Snapshot, Job, Steps, Reasons
  <2>2. job' = [job EXCEPT ![Main] = next] /\ job[Main].at # "publish"
    BY <1>1, <1>5 DEF Resume, Do
  <2> HIDE DEF next
  <2>3. Turns(Main, next)
    BY <2>1, <2>2 DEF Turns
  <2> QED
    BY <1>0, <1>5, <2>1, <2>3, CalmParts DEF Resume, CalmStep, Calm
<1>6. ~ResetCommand /\ ~UpdateCommand
  BY DEF ResetCommand, UpdateCommand, OneStarter
<1> QED
  BY <1>2, <1>3, <1>4, <1>5, <1>6 DEF UserStep

LEMMA ThreadCalm ==
    ASSUME Types, StarterInv, ThreadStep, UNCHANGED situation
    PROVE  CalmStep \/ Starting
<1> USE DEF threads, process, watch, checks
<1>0. /\ Main \in Agents /\ Updater \in Agents /\ Restarters \subseteq Agents
      /\ \A a \in Agents : job[a].at \in {"idle", "start", "spawn", "publish",
                                         "stopPublish", "stopSend", "revalidate"}
  BY DEF Agents, StarterInv
<1>1. CASE Revalidate
  <2>1. /\ status'.attempts = status.attempts
        /\ status.pid # NoPid => status'.pid # NoPid
        /\ status'.phase = "Stopped" => status.phase = "Stopped"
    BY <1>1, CalmParts DEF Revalidate, Phases
  <2>2. \E next \in Job : Turns(Main, next)
    BY <1>0, <1>1, TurnFacts DEF Revalidate
  <2> QED
    BY <1>0, <1>1, <2>1, <2>2, CalmParts DEF Revalidate, CalmStep, Calm
<1>2. CASE ExitApplication
  BY <1>2, CalmParts DEF ExitApplication, CalmStep, Calm
<1>3. /\ ~HandOver /\ ~InstallFails /\ ~InstallSucceeds
      /\ \A r \in Restarters : ~RestarterWakes(r)
  BY <1>0 DEF HandOver, InstallFails, InstallSucceeds, RestarterWakes
<1>4. ASSUME NEW n \in recovery.sleeping, BackoffWakes(n)
      PROVE  Starting
  BY <1>4 DEF Starting
<1> QED
  BY <1>1, <1>2, <1>3, <1>4 DEF ThreadStep

(* Every step is calm, starts an engine, ends one, or refills the budget.  *)
LEMMA StepCases ==
    ASSUME Types, OwnedInv, OneStarter, [Next]_vars
    PROVE  /\ UNCHANGED situation
           /\ \/ CalmStep
              \/ Starting
              \/ \E p \in Pids : Exiting(p) \/ BudgetReset(p)
<1>1. CASE UNCHANGED vars
  BY <1>1, CalmParts
     DEF vars, threads, process, watch, checks, CalmStep, Calm
<1>2. CASE Next
  BY <1>2, UserCalm, ThreadCalm, AgentCalm, ControllerCalm, CheckCalm,
     EngineCalm DEF Next, OwnedInv
<1> QED
  BY <1>1, <1>2

-----------------------------------------------------------------------------
(* The steps that start an engine keep the invariant.                      *)

LEMMA OwnedTypes ==
    ASSUME Types
    PROVE  /\ MaxAttempts \in Nat /\ status.attempts \in Nat
           /\ recovery.started \in Nat /\ recovery.sleeping \subseteq 1 .. MaxAttempts
           /\ \A p \in Pids : /\ controller[p].attempts \in Nat
                              /\ controller[p].at \in {"none", "watching",
                                                       "exiting", "cleared",
                                                       "done"}
           /\ DOMAIN job = Agents
           /\ Main \in Agents /\ Backoff \in Agents /\ Main # Backoff
           /\ Idle.at = "idle" /\ ~(NoPid \in Pids)
<1>1. MaxAttempts \in Nat
  BY SituationFacts DEF Types
<1>2. \A n \in Attempts : n \in Nat
  BY <1>1 DEF Attempts
<1> QED
  BY <1>1, <1>2, AgentsAssumption
     DEF Types, StatusTypes, RecoveryTypes, ControllerTypes, JobTypes, Snapshot,
         Watch, Agents, Idle, NoPid, Pids

LEMMA StartCommandOwned ==
    ASSUME Types, OwnedInv, OneStarter, StartCommand, UNCHANGED situation
    PROVE  OwnedInv'
<1> USE DEF OwnedInv, process, watch, checks
<1>0. MaxAttempts = 0 /\ MaxAttempts' = MaxAttempts
  BY DEF StartCommand, Command, OneStarter, MaxAttempts
<1>1. recovery.sleeping = {} /\ recovery' = [recovery EXCEPT !.started = 0]
      /\ recovery'.sleeping = {} /\ recovery'.started = 0
  BY <1>0, OwnedTypes DEF StartCommand, Types, RecoveryTypes
<1>2. /\ status'.attempts = 0 /\ status'.pid = status.pid
      /\ status'.phase = status.phase
      /\ UNCHANGED <<control, engine, controller>>
  BY DEF StartCommand, Types, StatusTypes, Snapshot
<1>3. /\ job[Main].at = "idle" /\ job'[Main].at = "start"
      /\ \A a \in Agents \ {Main} : job'[a] = job[a]
  BY OwnedTypes DEF StartCommand, Command, Do, Idle
<1>4. \A p \in Pids : Active(p)' <=> Active(p)
  BY <1>2 DEF Active
<1>5. StarterInv'
  BY <1>0, <1>1, <1>3, OwnedTypes DEF StarterInv, Starts
<1>6. ActiveInv'
  BY <1>2, <1>3, <1>4 DEF ActiveInv
<1>7. SenderInv'
  BY <1>2, <1>3 DEF SenderInv
<1>8. BudgetInv'
  BY <1>1, <1>2, OwnedTypes DEF BudgetInv
<1> QED
  BY <1>5, <1>6, <1>7, <1>8

(* A back-off thread wakes while no engine is active: a restart it asks    *)
(* for is within what is left of the budget.                               *)
LEMMA BackoffOwned ==
    ASSUME Types, OwnedInv, NEW n \in recovery.sleeping, BackoffWakes(n),
           UNCHANGED situation
    PROVE  OwnedInv'
<1> USE DEF OwnedInv, process, watch, checks
<1> DEFINE wanted == /\ quit = "no" /\ status.phase = "Error"
                     /\ status.pid = NoPid /\ status.attempts = n
<1>0. /\ UNCHANGED <<status, control, engine, controller>>
      /\ MaxAttempts' = MaxAttempts /\ MaxAttempts # 0
      /\ recovery'.sleeping = recovery.sleeping \ {n}
      /\ ~Starts(Main) /\ job[Backoff].at = "idle"
  BY OwnedTypes DEF BackoffWakes, MaxAttempts, StarterInv, Idle
<1>1. \A p \in Pids : Active(p)' <=> Active(p)
  BY <1>0 DEF Active
<1>2. CASE wanted
  <2>1. /\ recovery'.started = recovery.started + 1
        /\ job'[Backoff].at = "start"
        /\ \A a \in Agents \ {Backoff} : job'[a] = job[a]
    BY <1>2, OwnedTypes DEF BackoffWakes, Do, Idle
  <2>2. \A p \in Pids : ~Active(p)
    BY <1>2 DEF ActiveInv
  <2>3. StarterInv'
    BY <1>0, <1>1, <2>1, <2>2, OwnedTypes DEF StarterInv, Starts
  <2>4. ActiveInv'
    BY <1>0, <1>1, <2>1, <2>2 DEF ActiveInv
  <2>5. SenderInv'
    BY <1>0, <2>1 DEF SenderInv
  <2>6. BudgetInv'
    <3>1. recovery.started < status.attempts
      BY <1>2 DEF BudgetInv
    <3>2. \A p \in Pids : controller[p].at \notin {"exiting", "cleared"}
      BY <2>2 DEF Active
    <3> QED
      BY <1>0, <1>2, <2>1, <3>1, <3>2, OwnedTypes DEF BudgetInv
  <2> QED
    BY <2>3, <2>4, <2>5, <2>6
<1>3. CASE ~wanted
  <2>1. recovery'.started = recovery.started /\ UNCHANGED job
    BY <1>3, OwnedTypes DEF BackoffWakes
  <2>2. StarterInv'
    BY <1>0, <1>1, <2>1 DEF StarterInv, Starts
  <2>3. ActiveInv' /\ SenderInv'
    BY <1>0, <1>1, <2>1 DEF ActiveInv, SenderInv
  <2>4. BudgetInv'
    BY <1>0, <2>1 DEF BudgetInv
  <2> QED
    BY <2>2, <2>3, <2>4
<1> QED
  BY <1>2, <1>3

(* start() passes its check only while no engine is active.                *)
LEMMA ClaimsOwned ==
    ASSUME Types, OwnedInv, NEW a \in Agents, Claims(a)
    PROVE  OwnedInv'
<1> USE DEF OwnedInv
<1>0. /\ UNCHANGED <<status, control, engine, controller, recovery>>
      /\ MaxAttempts' = MaxAttempts /\ status.pid = NoPid
      /\ job[a].at = "start" /\ job'[a].at = "spawn"
      /\ \A b \in Agents \ {a} : job'[b] = job[b]
  BY OwnedTypes
     DEF Claims, MaxAttempts, Go, Do, StartRequiresSpawn, Types, JobTypes, Job
<1>1. /\ \A p \in Pids : Active(p)' <=> Active(p)
      /\ \A p \in Pids : ~Active(p)
      /\ \A b \in Agents : Starts(b)' <=> Starts(b)
  BY <1>0 DEF Active, ActiveInv, Starts
<1>2. StarterInv'
  BY <1>0, <1>1, OwnedTypes DEF StarterInv
<1>3. ActiveInv'
  BY <1>0, <1>1 DEF ActiveInv
<1>4. SenderInv'
  BY <1>0 DEF SenderInv
<1>5. BudgetInv'
  BY <1>0 DEF BudgetInv
<1> QED
  BY <1>2, <1>3, <1>4, <1>5

(* Two threads are never starting an engine at once.                       *)
LEMMA OneStarts ==
    ASSUME StarterInv, NEW a \in Agents, NEW b \in Agents, Starts(a), Starts(b)
    PROVE  a = b
<1> QED
  BY DEF StarterInv

LEMMA SpawnOwned ==
    ASSUME Types, OwnedInv, NEW a \in Agents, Spawn(a), UNCHANGED situation
    PROVE  OwnedInv'
<1> USE DEF OwnedInv, watch, checks
<1>1. PICK p \in 1 .. situation.engines :
        /\ engine' = [engine EXCEPT ![p] = "booting"]
        /\ control' = p
        /\ Do(a, [job[a] EXCEPT !.at = "publish", !.pid = p])
  BY DEF Spawn
<1>2. p \in Pids
  BY SituationFacts DEF Types
<1>3. /\ UNCHANGED <<status, controller, recovery>>
      /\ MaxAttempts' = MaxAttempts
      /\ job[a].at = "spawn" /\ job'[a].at = "publish" /\ job'[a].pid = p
      /\ \A b \in Agents \ {a} : job'[b] = job[b]
      /\ \A q \in Pids \ {p} : engine'[q] = engine[q]
  BY <1>1, OwnedTypes DEF Spawn, MaxAttempts, Do, Types, JobTypes, Job, EngineTypes
<1>4. /\ \A q \in Pids : Active(q)' <=> Active(q)
      /\ \A q \in Pids : ~Active(q)
      /\ \A b \in Agents : Starts(b)' <=> Starts(b)
  BY <1>3 DEF Active, ActiveInv, Starts
<1>5. \A b \in Agents \ {a} : job[b].at # "publish"
  BY <1>3, OneStarts DEF Starts
<1>6. StarterInv'
  BY <1>3, <1>4, OwnedTypes DEF StarterInv
<1>7. ActiveInv'
  BY <1>3, <1>4 DEF ActiveInv
<1>8. SenderInv'
  <2>1. \A q \in Pids : controller'[q].at \notin {"watching", "exiting"}
    BY <1>3, <1>4 DEF Active
  <2>2. \A b \in Agents : job'[b].at = "publish"
          => control' = job'[b].pid /\ job'[b].pid \in Pids
    BY <1>1, <1>2, <1>3, <1>5
  <2>3. \A q \in Pids : engine'[q] \in Alive
          => \E b \in Agents : job'[b].at = "publish" /\ job'[b].pid = q
    BY <1>3, <1>4, <1>5 DEF SenderInv, Active
  <2> QED
    BY <2>1, <2>2, <2>3 DEF SenderInv
<1>9. BudgetInv'
  BY <1>3 DEF BudgetInv
<1> QED
  BY <1>6, <1>7, <1>8, <1>9

LEMMA PublishStartOwned ==
    ASSUME Types, OwnedInv, NEW a \in Agents, PublishStart(a),
           UNCHANGED situation
    PROVE  OwnedInv'
<1> USE DEF OwnedInv, process, checks
<1> DEFINE p == job[a].pid
<1>1. p \in Pids /\ control = p /\ job[a].at = "publish" /\ Starts(a)
  BY DEF PublishStart, SenderInv, Starts
<1>2. /\ UNCHANGED <<control, recovery, engine>> /\ MaxAttempts' = MaxAttempts
      /\ job' = [job EXCEPT ![a] = Idle]
      /\ controller' = [controller EXCEPT ![p].at = "watching"]
      /\ Publish("Starting", p, FALSE, FALSE)
  BY DEF PublishStart, MaxAttempts, Do
<1> HIDE DEF p
<1>3. /\ status'.pid = p /\ status'.phase = "Starting"
      /\ status'.attempts = status.attempts
  BY <1>2 DEF Publish, Types, StatusTypes, Snapshot
<1>4. /\ controller'[p].at = "watching"
      /\ \A q \in Pids \ {p} : controller'[q] = controller[q]
  BY <1>1, <1>2 DEF Types, ControllerTypes, Watch
<1>5. /\ \A q \in Pids : ~Active(q)
      /\ \A q \in Pids : Active(q)' <=> q = p
  BY <1>1, <1>4 DEF ActiveInv, Active
<1>6. /\ job'[a].at = "idle"
      /\ \A b \in Agents : Starts(b)' => FALSE
      /\ \A b \in Agents \ {a} : job'[b] = job[b]
  BY <1>1, <1>2, OwnedTypes, OneStarts DEF Starts
<1>7. StarterInv'
  BY <1>2, <1>6, OwnedTypes DEF StarterInv
<1>8. ActiveInv'
  BY <1>1, <1>3, <1>5, <1>6, OwnedTypes DEF ActiveInv, Starts
<1>9. SenderInv'
  <2>1. \A q \in Pids : controller'[q].at \in {"watching", "exiting"}
          => control' = q
    BY <1>1, <1>2, <1>5 DEF Active
  <2>2. \A b \in Agents : job'[b].at # "publish"
    BY <1>6 DEF Starts
  <2>3. \A q \in Pids : engine'[q] \in Alive => controller'[q].at = "watching"
    <3> SUFFICES ASSUME NEW q \in Pids, engine'[q] \in Alive
                 PROVE  controller'[q].at = "watching"
      OBVIOUS
    <3>1. PICK b \in Agents : job[b].at = "publish" /\ job[b].pid = q
      BY <1>2, <1>5 DEF SenderInv, Active
    <3>2. b = a
      BY <1>1, <3>1, OneStarts DEF Starts
    <3> QED
      BY <1>4, <3>1, <3>2 DEF p
  <2> QED
    BY <2>1, <2>2, <2>3 DEF SenderInv
<1>10. BudgetInv'
  BY <1>2, <1>3, <1>4, <1>5 DEF BudgetInv, Active
<1> QED
  BY <1>7, <1>8, <1>9, <1>10

-----------------------------------------------------------------------------
(* The steps that end an engine, and the reset of the budget.              *)

LEMMA SeeExitOwned ==
    ASSUME Types, OwnedInv, NEW p \in Pids, SeeExit(p), UNCHANGED situation
    PROVE  OwnedInv'
<1> USE DEF OwnedInv, threads, process, checks
<1>1. /\ UNCHANGED <<status, control, job, recovery, engine>>
      /\ MaxAttempts' = MaxAttempts
      /\ controller[p].at = "watching" /\ engine[p] \notin Alive
  BY DEF SeeExit, MaxAttempts, Watching, Alive
<1>2. /\ controller'[p].at = "exiting"
      /\ controller'[p].attempts = status.attempts
      /\ \A q \in Pids \ {p} : controller'[q] = controller[q]
  BY DEF SeeExit, Types, ControllerTypes
<1>3. \A q \in Pids : Active(q)' <=> Active(q)
  BY <1>1, <1>2 DEF Active
<1>4. StarterInv'
  BY <1>1, <1>3 DEF StarterInv, Starts
<1>5. ActiveInv'
  BY <1>1, <1>3 DEF ActiveInv
<1>6. SenderInv'
  BY <1>1, <1>2 DEF SenderInv
<1>7. BudgetInv'
  BY <1>1, <1>2 DEF BudgetInv
<1> QED
  BY <1>4, <1>5, <1>6, <1>7

LEMMA ClearControlOwned ==
    ASSUME Types, OwnedInv, NEW p \in Pids, ClearControl(p),
           UNCHANGED situation
    PROVE  OwnedInv'
<1> USE DEF OwnedInv, threads, process, checks
<1>1. /\ UNCHANGED <<status, job, recovery, engine>>
      /\ MaxAttempts' = MaxAttempts /\ controller[p].at = "exiting"
  BY DEF ClearControl, MaxAttempts
<1>2. /\ controller'[p].at = "cleared"
      /\ controller'[p].attempts = controller[p].attempts
      /\ \A q \in Pids \ {p} : controller'[q] = controller[q]
  BY DEF ClearControl, Types, ControllerTypes, Watch
<1>3. \A q \in Pids : Active(q)' <=> Active(q)
  BY <1>1, <1>2 DEF Active
<1>4. Active(p) /\ \A a \in Agents : job[a].at # "publish"
  BY <1>1 DEF Active, ActiveInv
<1>5. StarterInv'
  BY <1>1, <1>3 DEF StarterInv, Starts
<1>6. ActiveInv'
  BY <1>1, <1>3 DEF ActiveInv
<1>7. SenderInv'
  <2>1. \A q \in Pids : controller'[q].at \in {"watching", "exiting"}
          => q # p /\ Active(q)
    BY <1>2 DEF Active
  <2> QED
    BY <1>1, <1>2, <1>4, <2>1 DEF SenderInv, ActiveInv
<1>8. BudgetInv'
  BY <1>1, <1>2 DEF BudgetInv
<1> QED
  BY <1>5, <1>6, <1>7, <1>8

LEMMA PublishExitOwned ==
    ASSUME Types, OwnedInv, NEW p \in Pids, PublishExit(p),
           UNCHANGED situation
    PROVE  OwnedInv'
<1> USE DEF OwnedInv, process, checks
<1>1. /\ UNCHANGED <<control, job, engine>> /\ MaxAttempts' = MaxAttempts
      /\ controller[p].at = "cleared" /\ Active(p)
  BY DEF PublishExit, MaxAttempts, Active
<1>2. /\ controller'[p].at = "done"
      /\ \A q \in Pids \ {p} : controller'[q] = controller[q]
  BY DEF PublishExit, Types, ControllerTypes, Unwatched
<1>3. \A q \in Pids : ~Active(q)'
  BY <1>1, <1>2 DEF Active, ActiveInv
<1>4. ~Starts(Main) \/ MaxAttempts = 0
  BY <1>1 DEF StarterInv
<1>5. CASE RestartsAlone(p)
  <2> DEFINE next == controller[p].attempts + 1
  <2>1. /\ status'.attempts = next
        /\ recovery' = [recovery EXCEPT !.sleeping = @ \cup {next}]
        /\ controller[p].attempts < MaxAttempts
    BY <1>5 DEF PublishExit, RestartsAlone
  <2>2. recovery.started < next /\ next \in Nat
    BY <1>1, OwnedTypes DEF BudgetInv
  <2>3. recovery'.started = recovery.started
    BY <2>1 DEF Types, RecoveryTypes
  <2>4. ~Starts(Main)
    BY <1>4, <2>1, OwnedTypes
  <2> HIDE DEF next
  <2>5. StarterInv'
    BY <1>1, <1>3, <2>4 DEF StarterInv, Starts
  <2>6. BudgetInv'
    BY <1>2, <1>3, <2>1, <2>2, <2>3, OwnedTypes DEF BudgetInv, Active
  <2> QED
    BY <1>1, <1>2, <1>3, <2>5, <2>6 DEF ActiveInv, SenderInv, Active
<1>6. CASE ~RestartsAlone(p)
  <2>1. status'.attempts = status.attempts /\ UNCHANGED recovery
    BY <1>6 DEF PublishExit
  <2>2. StarterInv'
    BY <1>1, <1>3, <2>1 DEF StarterInv, Starts
  <2>3. BudgetInv'
    BY <1>3, <2>1 DEF BudgetInv, Active
  <2> QED
    BY <1>1, <1>2, <1>3, <2>2, <2>3 DEF ActiveInv, SenderInv, Active
<1> QED
  BY <1>5, <1>6

LEMMA BudgetResetOwned ==
    ASSUME Types, OwnedInv, NEW p \in Pids, BudgetReset(p),
           UNCHANGED situation
    PROVE  OwnedInv'
<1> USE DEF OwnedInv, process, watch
<1>1. /\ UNCHANGED <<control, job, engine, controller>>
      /\ MaxAttempts' = MaxAttempts
      /\ \A q \in Pids : Active(q)' <=> Active(q)
  BY DEF BudgetReset, MaxAttempts, Active
<1>2. /\ status'.pid = status.pid /\ status'.phase = status.phase
      /\ recovery'.sleeping = recovery.sleeping
      /\ \/ status'.attempts = 0 /\ recovery'.started = 0
         \/ /\ status'.attempts = status.attempts
            /\ recovery'.started = recovery.started
  BY DEF BudgetReset, Types, StatusTypes, RecoveryTypes, Snapshot
<1>3. StarterInv'
  BY <1>1, <1>2 DEF StarterInv, Starts
<1>4. ActiveInv' /\ SenderInv'
  BY <1>1, <1>2 DEF ActiveInv, SenderInv
<1>5. BudgetInv'
  BY <1>1, <1>2, OwnedTypes DEF BudgetInv
<1> QED
  BY <1>3, <1>4, <1>5

-----------------------------------------------------------------------------
(* The theorems.                                                           *)

LEMMA InitOwned == Init => OwnedInv
<1> SUFFICES ASSUME Init
             PROVE  OwnedInv
  OBVIOUS
<1>1. MaxAttempts \in Nat /\ Main # Backoff
  BY SituationFacts, AgentsAssumption DEF Init
<1>2. /\ \A p \in Pids : controller[p].at = "none" /\ ~Active(p)
      /\ recovery.sleeping = {} /\ recovery.started = 0
      /\ status.attempts = 0
      /\ \A p \in Pids : engine[p] \notin Alive
  BY DEF Init, Unwatched, Active, Alive
<1>3. /\ Main \in Agents /\ Backoff \in Agents
      /\ \A a \in Agents : job[a].at = IF a = Main THEN "start" ELSE "idle"
  BY DEF Init, Agents, Idle
<1>4. StarterInv
  BY <1>1, <1>2, <1>3 DEF StarterInv, Starts
<1>5. ActiveInv /\ SenderInv
  BY <1>2, <1>3 DEF ActiveInv, SenderInv
<1>6. BudgetInv
  BY <1>2 DEF BudgetInv
<1> QED
  BY <1>4, <1>5, <1>6 DEF OwnedInv

LEMMA NextOwned ==
    ASSUME Types, OwnedInv, OneStarter, [Next]_vars
    PROVE  OwnedInv'
<1>1. UNCHANGED situation
  BY StepCases
<1>2. CASE CalmStep
  BY <1>2, ActiveKept DEF CalmStep
<1>3. CASE Starting
  BY <1>1, <1>3, StartCommandOwned, BackoffOwned, ClaimsOwned, SpawnOwned,
     PublishStartOwned DEF Starting
<1>4. CASE \E p \in Pids : Exiting(p) \/ BudgetReset(p)
  BY <1>1, <1>4, SeeExitOwned, ClearControlOwned, PublishExitOwned,
     BudgetResetOwned DEF Exiting
<1> QED
  BY <1>2, <1>3, <1>4, StepCases

LEMMA SupervisorInductive == Spec => [](Types /\ (OneStarter => OwnedInv))
<1>1. Init => Types /\ (OneStarter => OwnedInv)
  <2>1. Init => Types
    BY InitTypes
  <2> QED
    BY <2>1, InitOwned
<1>2. Types /\ (OneStarter => OwnedInv) /\ [Next]_vars
        => (Types /\ (OneStarter => OwnedInv))'
  <2> SUFFICES ASSUME Types, OneStarter => OwnedInv, [Next]_vars
               PROVE  Types' /\ (OneStarter' => OwnedInv')
    OBVIOUS
  <2>1. Types'
    BY NextTypes
  <2>2. UNCHANGED situation
    BY DEF Next, vars
  <2>3. OneStarter' => OneStarter
    BY <2>2 DEF OneStarter, MaxAttempts
  <2> QED
    BY <2>1, <2>3, NextOwned
<1> QED
  BY <1>1, <1>2, PTL DEF Spec

(* As long as one thread at a time starts engines, two never run at once.  *)
THEOREM OneEngineAtATime == Spec => []OneEngine
<1>1. Types /\ (OneStarter => OwnedInv) => OneEngine
  <2> SUFFICES ASSUME OwnedInv, NEW p \in Pids, NEW q \in Pids,
                      engine[p] \in Alive, engine[q] \in Alive
               PROVE  p = q
    BY DEF OneEngine
  <2>1. CASE controller[p].at = "watching" /\ controller[q].at = "watching"
    BY <2>1 DEF OwnedInv, ActiveInv, Active
  <2>2. CASE \E a \in Agents : job[a].at = "publish" /\ job[a].pid = p
    BY <2>2, OneStarts DEF OwnedInv, ActiveInv, SenderInv, Active, Starts
  <2>3. CASE \E a \in Agents : job[a].at = "publish" /\ job[a].pid = q
    BY <2>3, OneStarts DEF OwnedInv, ActiveInv, SenderInv, Active, Starts
  <2> QED
    BY <2>1, <2>2, <2>3 DEF OwnedInv, SenderInv
<1> QED
  BY <1>1, SupervisorInductive, PTL

(* As long as one thread at a time starts engines, none runs while the     *)
(* controls say Stopped, but for one that is about to be published.        *)
THEOREM StoppedIsGone == Spec => []StoppedMeansGone
<1>1. Types /\ (OneStarter => OwnedInv) => StoppedMeansGone
  BY DEF StoppedMeansGone, OwnedInv, ActiveInv, SenderInv, Active
<1> QED
  BY <1>1, SupervisorInductive, PTL

(* As long as one thread at a time starts engines, an engine is restarted  *)
(* by itself no more often than the budget allows.                         *)
THEOREM RestartBudgetHolds == Spec => [](OneStarter => RestartsBounded)
<1>1. Types /\ (OneStarter => OwnedInv) => (OneStarter => RestartsBounded)
  <2> SUFFICES ASSUME Types, OwnedInv
               PROVE  RestartsBounded
    OBVIOUS
  <2>1. /\ recovery.started \in Nat /\ MaxAttempts \in Nat
        /\ status.attempts \in 0 .. MaxAttempts
        /\ recovery.started <= status.attempts
    BY SituationFacts
       DEF Types, OwnedInv, BudgetInv, StatusTypes, RecoveryTypes, Snapshot,
           Attempts
  <2> QED
    BY <2>1 DEF RestartsBounded
<1> QED
  BY <1>1, SupervisorInductive, PTL

=============================================================================

-------------------------- MODULE EngineSupervisor --------------------------
(***************************************************************************)
(* The desktop supervisor (desktop/src-tauri/src/lifecycle.rs) and the     *)
(* engine process it owns (engine/entrypoint.py).                          *)
(*                                                                         *)
(* The supervisor is a snapshot under a lock, the sender of the current    *)
(* controller under another, and many threads: the main thread that runs   *)
(* the commands of the control window and the tray, one controller and one *)
(* output reader per engine, health checks, back-off and restart threads,  *)
(* and the update task. Each of them reads the snapshot, decides, and      *)
(* publishes later: an action here is one such read or one such write.     *)
(*                                                                         *)
(* The engine's `stopping' line changes nothing, as its `stopped' line     *)
(* does, and is left out; entrypoint.py never prints `error'. Two readings *)
(* of the snapshot in one condition (health check) are one here.           *)
(***************************************************************************)
EXTENDS Naturals, Sequences, FiniteSets

CONSTANTS
    Main, Backoff, Updater,     \* threads that start or stop an engine ...
    Restarters,                 \* ... and the threads restart_engine spawns
    Situations,                 \* what a behaviour is about, see below
    MaxEngines,                 \* bound: engines spawned
    MaxPipe                     \* bound: unread lines of an engine

(* A situation: the commands the user may give and how many, whether a     *)
(* caption session may run, what the first line of an engine may be, how   *)
(* many engines are spawned and how many crash by themselves (bounds), and *)
(* MAX_AUTOMATIC_RESTART_ATTEMPTS.                                         *)
Situation ==
    [commands : SUBSET {"start", "stop", "restart", "reset", "update", "quit",
                        "resume"},
     given : Nat, captions : BOOLEAN,
     firstLines : SUBSET {"starting", "incompatible"},
     engines : 1 .. MaxEngines, crashes : Nat, attempts : Nat]

ASSUME BoundsAssumption == MaxEngines \in Nat /\ MaxPipe \in Nat \ {0}
ASSUME SituationsAssumption == Situations \subseteq Situation

(* The main thread, the back-off thread, the update task and the restart   *)
(* threads are different threads.                                          *)
ASSUME AgentsAssumption ==
    /\ Main # Backoff /\ Main # Updater /\ Backoff # Updater
    /\ {Main, Backoff, Updater} \cap Restarters = {}

Agents == {Main, Backoff, Updater} \cup Restarters
Pids == 1 .. MaxEngines
NoPid == 0
Phases == {"Stopped", "Starting", "Ready", "CaptionsLive", "Stopping",
           "Updating", "RecoveryRequired", "Error"}
RunningPhases == {"Starting", "Ready", "CaptionsLive", "Stopping"}
Alive == {"booting", "idle", "live", "aborting", "closing"}

VARIABLES
    status,         \* the SupervisorSnapshot
    control,        \* engine whose controller's sender is stored, or NoPid
    job,            \* what each agent is doing
    recovery,       \* sleeping: restart_attempts each sleeping back-off thread
                    \* expects; started (history): automatic restarts since
                    \* the budget was last full
    quit,           \* "no", "waiting" (the quit thread), "exited"
    engine,         \* state of each engine process
    stdin,          \* engines that were sent the shutdown line
    pipe,           \* lines an engine has printed and nobody has read
    controller,     \* supervise_child of each engine
    mail,           \* control messages not yet received by it
    reader,         \* line whose PID the output reader has checked, or "none"
    health,         \* health-confirmation thread of each engine
    budget,         \* attempts the budget-reset thread of an engine expects
    commands,       \* bound counter
    crashes,        \* bound counter
    situation       \* the situation of this behaviour

threads == <<job, recovery, quit>>
process == <<engine, stdin, pipe, crashes>>
watch == <<controller, mail>>
checks == <<reader, health, budget>>
vars == <<status, control, threads, process, watch, checks, commands,
          situation>>

MaxAttempts == situation.attempts

Idle == [at |-> "idle", what |-> "none", pid |-> NoPid]
Do(a, next) == job' = [job EXCEPT ![a] = next]
Go(a, at) == Do(a, [job[a] EXCEPT !.at = at])
Up == quit # "exited"
Unwatched(at) == [at |-> at, deadline |-> FALSE, previous |-> "Stopped",
                  attempts |-> 0]

-----------------------------------------------------------------------------
(* The snapshot.                                                           *)

Publish(phase, pid, live, healthy) ==
    status' = [status EXCEPT !.phase = phase, !.pid = pid, !.live = live,
                             !.healthy = healthy]
PublishPhase(phase) == status' = [status EXCEPT !.phase = phase]

EngineIsRunning == status.phase \in RunningPhases

(* Mutant of StartRequiresSpawn: the displayed phase alone decides. *)
StartByPhase == ~EngineIsRunning

StartRequiresSpawn ==
    ~EngineIsRunning /\ status.pid = NoPid /\ control = NoPid

ForceStop ==
    mail' = IF control = NoPid THEN mail
            ELSE [mail EXCEPT ![control] = @ \cup {"force"}]

-----------------------------------------------------------------------------
(* start(): check, spawn and store the sender, publish.                    *)

CheckStart(a) ==
    /\ job[a].at = "start"
    /\ IF StartRequiresSpawn THEN Go(a, "spawn") ELSE Do(a, Idle)
    /\ UNCHANGED <<status, control, recovery, quit, process, watch, checks,
                   commands>>

Spawn(a) ==
    /\ job[a].at = "spawn"
    /\ \E p \in 1 .. situation.engines, line \in situation.firstLines :
         /\ engine[p] = "unborn" /\ \A o \in 1 .. (p - 1) : engine[o] # "unborn"
         /\ engine' = [engine EXCEPT ![p] = "booting"]
         /\ pipe' = [pipe EXCEPT ![p] = <<line>>]
         /\ control' = p
         /\ Do(a, [job[a] EXCEPT !.at = "publish", !.pid = p])
    /\ UNCHANGED <<status, recovery, quit, stdin, crashes, watch, checks,
                   commands>>

(* The executable is missing or cannot be run. *)
SpawnFails(a) ==
    /\ job[a].at = "spawn"
    /\ Do(a, Idle)
    /\ CASE job[a].what \in {"launch", "backoff"} -> PublishPhase("Error")
         [] job[a].what \in {"reset", "updateReady"} ->
                PublishPhase("RecoveryRequired")
         [] OTHER -> UNCHANGED status
    /\ UNCHANGED <<control, recovery, quit, process, watch, checks, commands>>

PublishStart(a) ==
    LET p == job[a].pid IN
    /\ job[a].at = "publish"
    /\ Publish("Starting", p, FALSE, FALSE)
    /\ controller' = [controller EXCEPT ![p].at = "watching"]
    /\ Do(a, Idle)
    /\ UNCHANGED <<control, recovery, quit, process, mail, checks, commands>>

-----------------------------------------------------------------------------
(* request_stop(): check and take the sender, publish Stopping, send. The  *)
(* agent then goes on with what it needed the stop for.                    *)

Continue(a, what) ==
    CASE what \in {"reset", "updateReady"} -> Go(a, "awaitExit")
      [] what = "restart" ->
            Do(a, [at |-> "handOver", what |-> what, pid |-> NoPid])
      [] OTHER -> Do(a, Idle)

RequestStop(a, what, allowed) ==
    IF status.live /\ ~allowed THEN Do(a, Idle)
    ELSE IF ~EngineIsRunning THEN Continue(a, what)
    ELSE IF control = NoPid THEN Do(a, Idle)
    ELSE Do(a, [at |-> "stopPublish", what |-> what, pid |-> control])

PublishStopping(a) ==
    /\ job[a].at = "stopPublish"
    /\ PublishPhase("Stopping")
    /\ Go(a, "stopSend")
    /\ UNCHANGED <<control, recovery, quit, process, watch, checks, commands>>

(* The send fails once the controller has returned. *)
SendStop(a) ==
    LET p == job[a].pid IN
    /\ job[a].at = "stopSend"
    /\ IF controller[p].at = "done"
       THEN Do(a, Idle) /\ UNCHANGED mail
       ELSE /\ Continue(a, job[a].what)
            /\ mail' = [mail EXCEPT ![p] = @ \cup {"stop"}]
    /\ UNCHANGED <<status, control, recovery, quit, process, controller,
                   checks, commands>>

-----------------------------------------------------------------------------
(* Commands: on the main thread one at a time; the update is a task.       *)

Command(a, what) ==
    /\ job[a] = Idle /\ quit = "no"
    /\ what \in situation.commands
    /\ commands < situation.given /\ commands' = commands + 1

(* start_engine; the button is there while no phase says running. *)
StartCommand ==
    /\ Command(Main, "start")
    /\ ~EngineIsRunning
    /\ status' = [status EXCEPT !.attempts = 0]
    /\ recovery' = [recovery EXCEPT !.started = 0]
    /\ Do(Main, [Idle EXCEPT !.at = "start", !.what = "start"])
    /\ UNCHANGED <<control, quit, process, watch, checks>>

(* stop_engine and restart_engine; the user confirms to stop live captions. *)
StopCommand(what, allowed) ==
    /\ Command(Main, what)
    /\ status.phase \in {"Starting", "Ready", "CaptionsLive"}
    /\ what = "restart" => status.phase # "Starting"
    /\ RequestStop(Main, what, allowed)
    /\ UNCHANGED <<status, control, recovery, quit, process, watch, checks>>

IsStable ==
    /\ ~status.live
    /\ \/ status.phase \in {"Ready", "Stopped"}
       \/ status.phase = "Error" /\ status.pid = NoPid

(* A ready engine is stopped first. *)
Maintain(a, what) ==
    Do(a, [at |-> IF status.phase = "Ready" THEN "stopCheck" ELSE "claim",
           what |-> what, pid |-> NoPid])

(* reset_operator_password *)
ResetCommand ==
    /\ Command(Main, "reset")
    /\ \/ IsStable
       \/ ~status.live /\ status.phase = "RecoveryRequired"
                       /\ status.pid = NoPid
    /\ Maintain(Main, "reset")
    /\ UNCHANGED <<status, control, recovery, quit, process, watch, checks>>

(* begin_update_install, after the download; a ready server is started     *)
(* again when the installation fails.                                      *)
UpdateCommand ==
    /\ Command(Updater, "update")
    /\ IsStable
    /\ Maintain(Updater,
                IF status.phase = "Ready" THEN "updateReady" ELSE "update")
    /\ UNCHANGED <<status, control, recovery, quit, process, watch, checks>>

CheckStop(a) ==
    /\ job[a].at = "stopCheck"
    /\ RequestStop(a, job[a].what, FALSE)
    /\ UNCHANGED <<status, control, recovery, quit, process, watch, checks,
                   commands>>

(* The engine is gone, or the wait of 25 seconds is over. *)
AwaitExit(a) ==
    /\ job[a].at = "awaitExit"
    /\ \/ status.pid = NoPid /\ Go(a, "claim")
       \/ status.pid # NoPid /\ Do(a, Idle)
    /\ UNCHANGED <<status, control, recovery, quit, process, watch, checks,
                   commands>>

PublishUpdating(a) ==
    /\ job[a].at = "claim"
    /\ Publish("Updating", status.pid, FALSE, FALSE)
    /\ Go(a, IF job[a].what = "reset" THEN "start" ELSE "install")
    /\ UNCHANGED <<control, recovery, quit, process, watch, checks, commands>>

(* recover_after_update_failure *)
InstallFails ==
    /\ job[Updater].at = "install"
    /\ Publish("Error", NoPid, FALSE, FALSE)
    /\ IF job[Updater].what = "updateReady" THEN Go(Updater, "start")
       ELSE Do(Updater, Idle)
    /\ UNCHANGED <<control, recovery, quit, process, watch, checks, commands>>

(* The application restarts into the new version. *)
InstallSucceeds ==
    /\ job[Updater].at = "install"
    /\ quit' = "exited"
    /\ Do(Updater, Idle)
    /\ UNCHANGED <<status, control, recovery, process, watch, checks, commands>>

(* restart_engine spawns its thread ... *)
HandOver ==
    /\ job[Main].at = "handOver"
    /\ \E r \in Restarters :
         /\ job[r] = Idle
         /\ job' = [job EXCEPT ![Main] = Idle,
                               ![r] = [Idle EXCEPT !.at = "wait",
                                                   !.what = "restart"]]
    /\ UNCHANGED <<status, control, recovery, quit, process, watch, checks,
                   commands>>

(* ... which waits for Stopped and starts, or gives up after 25 seconds. *)
RestarterWakes(r) ==
    /\ job[r].at = "wait"
    /\ \/ status.phase = "Stopped" /\ Go(r, "start") /\ UNCHANGED status
       \/ PublishPhase("RecoveryRequired") /\ Do(r, Idle)
    /\ UNCHANGED <<control, recovery, quit, process, watch, checks, commands>>

QuitCommand ==
    /\ Command(Main, "quit")
    /\ quit' = "waiting"
    /\ RequestStop(Main, "quit", TRUE)
    /\ UNCHANGED <<status, control, recovery, process, watch, checks>>

(* The quit thread: no engine is running, or 22 seconds have passed. *)
ExitApplication ==
    /\ quit = "waiting" /\ job[Main].what # "quit"
    /\ quit' = "exited"
    /\ IF EngineIsRunning THEN ForceStop ELSE UNCHANGED mail
    /\ UNCHANGED <<status, control, job, recovery, process, controller, checks,
                   commands>>

(* revalidate_after_resume *)
Resume ==
    /\ Command(Main, "resume")
    /\ status.phase \in {"Ready", "CaptionsLive"} /\ status.pid # NoPid
    /\ health[status.pid] = "none"
    /\ Do(Main, [at |-> "revalidate", what |-> "resume", pid |-> status.pid])
    /\ UNCHANGED <<status, control, recovery, quit, process, watch, checks>>

Revalidate ==
    /\ job[Main].at = "revalidate"
    /\ Publish("Starting", status.pid, FALSE, FALSE)
    /\ health' = [health EXCEPT ![job[Main].pid] = "probing"]
    /\ Do(Main, Idle)
    /\ UNCHANGED <<control, recovery, quit, process, watch, reader, budget,
                   commands>>

(* schedule_automatic_restart: the delay is over. *)
BackoffWakes(n) ==
    /\ n \in recovery.sleeping /\ job[Backoff] = Idle
    /\ LET wanted == /\ quit = "no" /\ status.phase = "Error"
                     /\ status.pid = NoPid /\ status.attempts = n
       IN  /\ recovery' = [sleeping |-> recovery.sleeping \ {n},
                           started |-> recovery.started + IF wanted THEN 1 ELSE 0]
           /\ IF wanted
              THEN Do(Backoff, [Idle EXCEPT !.at = "start", !.what = "backoff"])
              ELSE UNCHANGED job
    /\ UNCHANGED <<status, control, quit, process, watch, checks, commands>>

AgentStep(a) ==
    \/ CheckStart(a) \/ Spawn(a) \/ SpawnFails(a) \/ PublishStart(a)
    \/ CheckStop(a) \/ PublishStopping(a) \/ SendStop(a)
    \/ AwaitExit(a) \/ PublishUpdating(a)

-----------------------------------------------------------------------------
(* The engine process.                                                     *)

Says(p, line) ==
    /\ Len(pipe[p]) < MaxPipe
    /\ pipe' = [pipe EXCEPT ![p] = Append(@, line)]

Turn(p, from, to) ==
    /\ engine[p] = from
    /\ engine' = [engine EXCEPT ![p] = to]

RestUnchanged == UNCHANGED <<status, control, threads, watch, checks, commands>>

Serving(p) == engine[p] \in {"idle", "live"}

(* Both listeners are up; the ports are the same for every engine. Also an *)
(* engine that was told to stop while it boots still says that it is ready *)
EngineReady(p) ==
    /\ \A q \in Pids : ~Serving(q)
    /\ Turn(p, "booting", "idle") \/ Turn(p, "aborting", "closing")
    /\ Says(p, "ready")
    /\ UNCHANGED <<stdin, crashes>> /\ RestUnchanged

EngineCannotListen(p) ==
    /\ \E q \in Pids \ {p} : Serving(q)
    /\ Turn(p, "booting", "failed")
    /\ UNCHANGED <<stdin, pipe, crashes>> /\ RestUnchanged

(* monitor_caption_state: the operator starts or stops a caption session. *)
EngineCaptions(p) ==
    /\ situation.captions
    /\ \/ Turn(p, "idle", "live") /\ Says(p, "captions_live")
       \/ Turn(p, "live", "idle") /\ Says(p, "captions_idle")
    /\ UNCHANGED <<stdin, crashes>> /\ RestUnchanged

EngineObeys(p) ==
    /\ p \in stdin
    /\ \/ Turn(p, "booting", "aborting")
       \/ Serving(p) /\ engine' = [engine EXCEPT ![p] = "closing"]
    /\ UNCHANGED <<stdin, pipe, crashes>> /\ RestUnchanged

(* ... or ends with an error: a listener stopped before startup completed. *)
EngineExits(p) ==
    /\ \/ Turn(p, "closing", "ok") /\ Says(p, "stopped")
       \/ Turn(p, "aborting", "failed") /\ UNCHANGED pipe
    /\ UNCHANGED <<stdin, crashes>> /\ RestUnchanged

EngineCrashes(p) ==
    /\ engine[p] \in Alive
    /\ crashes < situation.crashes /\ crashes' = crashes + 1
    /\ engine' = [engine EXCEPT ![p] = "failed"]
    /\ UNCHANGED <<stdin, pipe>> /\ RestUnchanged

(* monitor_supervisor_process, or the Windows job object. *)
ParentGone(p) ==
    /\ quit = "exited" /\ engine[p] \in Alive
    /\ engine' = [engine EXCEPT ![p] = "ok"]
    /\ UNCHANGED <<stdin, pipe, crashes>> /\ RestUnchanged

EngineStep(p) ==
    \/ EngineReady(p) \/ EngineCannotListen(p) \/ EngineCaptions(p)
    \/ EngineObeys(p) \/ EngineExits(p) \/ EngineCrashes(p) \/ ParentGone(p)

-----------------------------------------------------------------------------
(* supervise_child(): receive, enforce the deadline, look for the exit.    *)

Kill(p) ==
    engine' = [engine EXCEPT ![p] = IF @ \in Alive THEN "failed" ELSE @]

Watching(p) == controller[p].at = "watching"
Receive(p, message) ==
    /\ Watching(p) /\ message \in mail[p]
    /\ mail' = [mail EXCEPT ![p] = @ \ {message}]

(* Mutant of TakeStop: the deadline is not set. *)
TakeStopWithoutDeadline(p) ==
    /\ Receive(p, "stop")
    /\ stdin' = stdin \cup {p}
    /\ UNCHANGED <<status, control, threads, engine, pipe, crashes, controller,
                   checks, commands>>

TakeStop(p) ==
    /\ Receive(p, "stop")
    /\ stdin' = stdin \cup {p}
    /\ controller' = [controller EXCEPT ![p].deadline = TRUE]
    /\ UNCHANGED <<status, control, threads, engine, pipe, crashes, checks,
                   commands>>

TakeForce(p) ==
    /\ Receive(p, "force")
    /\ Kill(p)
    /\ UNCHANGED <<status, control, threads, stdin, pipe, crashes, controller,
                   checks, commands>>

HoldsSender(a, p) ==
    job[a].pid = p /\ job[a].at \in {"stopPublish", "stopSend"}

(* Mutant of Disconnected: the lost sender goes unnoticed. *)
NeverDisconnected(p) == FALSE

Disconnected(p) ==
    /\ mail[p] = {} /\ control # p
    /\ \A a \in Agents : ~HoldsSender(a, p)

LostSender(p) ==
    /\ Watching(p) /\ engine[p] \in Alive
    /\ Disconnected(p)
    /\ Kill(p)
    /\ UNCHANGED <<status, control, threads, stdin, pipe, crashes, watch,
                   checks, commands>>

StopTimeout(p) ==
    /\ Watching(p) /\ controller[p].deadline
    /\ controller' = [controller EXCEPT ![p].deadline = FALSE]
    /\ Kill(p)
    /\ UNCHANGED <<status, control, threads, stdin, pipe, crashes, mail, checks,
                   commands>>

SeeExit(p) ==
    /\ Watching(p) /\ engine[p] \in {"ok", "failed"}
    /\ controller' = [controller EXCEPT
          ![p] = [at |-> "exiting", deadline |-> FALSE,
                  previous |-> status.phase, attempts |-> status.attempts]]
    /\ UNCHANGED <<status, control, threads, process, mail, checks, commands>>

ClearControl(p) ==
    /\ controller[p].at = "exiting"
    /\ control' = NoPid
    /\ controller' = [controller EXCEPT ![p].at = "cleared"]
    /\ UNCHANGED <<status, threads, process, mail, checks, commands>>

(* Mutant of RestartsAlone: the bound is off by one. *)
RestartsOnceMore(p) ==
    /\ engine[p] = "failed"
    /\ controller[p].previous \notin {"Stopping", "Updating", "RecoveryRequired"}
    /\ controller[p].attempts <= MaxAttempts

(* automatic_restart_delay() *)
RestartsAlone(p) ==
    /\ engine[p] = "failed"
    /\ controller[p].previous \notin {"Stopping", "Updating", "RecoveryRequired"}
    /\ controller[p].attempts < MaxAttempts

PhaseAfterExit(p) ==
    CASE controller[p].previous = "RecoveryRequired" -> "RecoveryRequired"
      [] \/ controller[p].previous = "Stopping"
         \/ engine[p] = "ok" -> "Stopped"
      [] OTHER -> "Error"

PublishExit(p) ==
    LET next == controller[p].attempts + 1 IN
    /\ controller[p].at = "cleared"
    /\ status' = [phase |-> PhaseAfterExit(p), pid |-> NoPid,
                  live |-> FALSE, healthy |-> FALSE,
                  attempts |-> IF RestartsAlone(p) THEN next ELSE status.attempts]
    /\ recovery' = IF RestartsAlone(p)
                   THEN [recovery EXCEPT !.sleeping = @ \cup {next}]
                   ELSE recovery
    /\ controller' = [controller EXCEPT ![p] = Unwatched("done")]
    /\ UNCHANGED <<control, job, quit, process, mail, checks, commands>>

ControllerStep(p) ==
    \/ TakeStop(p) \/ TakeForce(p) \/ LostSender(p) \/ StopTimeout(p)
    \/ SeeExit(p) \/ ClearControl(p) \/ PublishExit(p)

-----------------------------------------------------------------------------
(* apply_engine_event(): check the PID of a line, then publish it.         *)

ReadEvent(p) ==
    /\ controller[p].at # "none" /\ reader[p] = "none" /\ pipe[p] # <<>>
    /\ pipe' = [pipe EXCEPT ![p] = Tail(@)]
    /\ reader' = IF status.pid = p THEN [reader EXCEPT ![p] = Head(pipe[p])]
                 ELSE reader
    /\ UNCHANGED <<status, control, threads, engine, stdin, crashes, watch,
                   health, budget, commands>>

(* Mutant of ApplyRuntimeState: the engine's last line says Stopped. *)
ApplyStopped(p, line) ==
    CASE line \in {"starting", "ready"} -> Publish("Starting", p, FALSE, FALSE)
      [] line = "stopped" -> Publish("Stopped", NoPid, FALSE, FALSE)
      [] OTHER -> status' = [status EXCEPT !.pid = p]

(* apply_runtime_state() *)
ApplyRuntimeState(p, line) ==
    CASE line \in {"starting", "ready"} -> Publish("Starting", p, FALSE, FALSE)
      [] line = "captions_live" /\ status.healthy ->
            Publish("CaptionsLive", p, TRUE, TRUE)
      [] line = "captions_idle" /\ status.healthy ->
            Publish("Ready", p, FALSE, TRUE)
      [] OTHER -> status' = [status EXCEPT !.pid = p]

PublishEvent(p) ==
    /\ reader[p] # "none"
    /\ reader' = [reader EXCEPT ![p] = "none"]
    /\ IF reader[p] = "incompatible"
       THEN PublishPhase("RecoveryRequired") /\ ForceStop
       ELSE ApplyRuntimeState(p, reader[p]) /\ UNCHANGED mail
    /\ health' = IF reader[p] = "ready"
                 THEN [health EXCEPT ![p] = "probing"] ELSE health
    /\ UNCHANGED <<control, threads, process, controller, budget, commands>>

-----------------------------------------------------------------------------
(* The health confirmation of an engine, and the reset of its budget.      *)

(* Answered by whichever engine serves the port. *)
HealthAnswers(p) ==
    /\ health[p] = "probing"
    /\ \E q \in Pids :
         /\ Serving(q)
         /\ health' = [health EXCEPT
               ![p] = IF status.pid # p \/ status.phase # "Starting" THEN "none"
                      ELSE IF engine[q] = "live" THEN "CaptionsLive" ELSE "Ready"]
    /\ UNCHANGED <<status, control, threads, process, watch, reader, budget,
                   commands>>

PublishHealth(p) ==
    /\ health[p] \in {"Ready", "CaptionsLive"}
    /\ Publish(health[p], status.pid, health[p] = "CaptionsLive", TRUE)
    /\ health' = [health EXCEPT ![p] = "none"]
    /\ budget' = IF status.attempts = 0 THEN budget
                 ELSE [budget EXCEPT ![p] = status.attempts]
    /\ UNCHANGED <<control, threads, process, watch, reader, commands>>

HealthExpires(p) ==
    /\ health[p] = "probing"
    /\ health' = [health EXCEPT
          ![p] = IF status.pid # p \/ status.phase # "Starting" THEN "none"
                 ELSE "expired"]
    /\ UNCHANGED <<status, control, threads, process, watch, reader, budget,
                   commands>>

PublishExpiry(p) ==
    /\ health[p] = "expired"
    /\ Publish("RecoveryRequired", status.pid, status.live, FALSE)
    /\ ForceStop
    /\ health' = [health EXCEPT ![p] = "none"]
    /\ UNCHANGED <<control, threads, process, controller, reader, budget,
                   commands>>

BudgetReset(p) ==
    /\ budget[p] > 0
    /\ budget' = [budget EXCEPT ![p] = 0]
    /\ IF /\ status.pid = p /\ EngineIsRunning /\ status.healthy
          /\ status.attempts = budget[p]
       THEN /\ status' = [status EXCEPT !.attempts = 0]
            /\ recovery' = [recovery EXCEPT !.started = 0]
       ELSE UNCHANGED <<status, recovery>>
    /\ UNCHANGED <<control, job, quit, process, watch, reader, health, commands>>

CheckStep(p) ==
    \/ ReadEvent(p) \/ PublishEvent(p)
    \/ HealthAnswers(p) \/ PublishHealth(p)
    \/ HealthExpires(p) \/ PublishExpiry(p) \/ BudgetReset(p)

-----------------------------------------------------------------------------
(* start_on_launch() is the first thing the main thread does.              *)
Init ==
    /\ situation \in Situations
    /\ status = [phase |-> "Stopped", pid |-> NoPid, live |-> FALSE,
                 healthy |-> FALSE, attempts |-> 0]
    /\ control = NoPid
    /\ job = [a \in Agents |->
                IF a = Main THEN [Idle EXCEPT !.at = "start", !.what = "launch"]
                ELSE Idle]
    /\ recovery = [sleeping |-> {}, started |-> 0] /\ quit = "no"
    /\ engine = [p \in Pids |-> "unborn"]
    /\ stdin = {} /\ pipe = [p \in Pids |-> <<>>] /\ crashes = 0
    /\ controller = [p \in Pids |-> Unwatched("none")]
    /\ mail = [p \in Pids |-> {}]
    /\ reader = [p \in Pids |-> "none"] /\ health = [p \in Pids |-> "none"]
    /\ budget = [p \in Pids |-> 0]
    /\ commands = 0

UserStep ==
    \/ StartCommand \/ ResetCommand \/ UpdateCommand \/ QuitCommand \/ Resume
    \/ \E what \in {"stop", "restart"}, allowed \in BOOLEAN :
         StopCommand(what, allowed)

ThreadStep ==
    \/ HandOver \/ Revalidate \/ ExitApplication
    \/ InstallFails \/ InstallSucceeds
    \/ \E r \in Restarters : RestarterWakes(r)
    \/ \E n \in recovery.sleeping : BackoffWakes(n)

Next ==
    /\ \/ Up /\ (UserStep \/ ThreadStep)
       \/ \E a \in Agents : Up /\ AgentStep(a)
       \/ \E p \in Pids : Up /\ (ControllerStep(p) \/ CheckStep(p))
       \/ \E p \in Pids : EngineStep(p)
    /\ UNCHANGED situation

(* The supervisor's threads run; a killed or orphaned engine ends. The     *)
(* engine may never obey, and a user may never give a command.             *)
Fairness ==
    /\ \A a \in Agents : WF_vars(Up /\ AgentStep(a) /\ UNCHANGED situation)
    /\ \A p \in Pids :
         /\ WF_vars(/\ Up /\ (TakeStop(p) \/ TakeForce(p))
                    /\ UNCHANGED situation)
         /\ WF_vars(Up /\ LostSender(p) /\ UNCHANGED situation)
         /\ WF_vars(Up /\ StopTimeout(p) /\ UNCHANGED situation)
         /\ WF_vars(ParentGone(p) /\ UNCHANGED situation)

Spec == Init /\ [][Next]_vars
FairSpec == Spec /\ Fairness

-----------------------------------------------------------------------------
(* Properties.                                                             *)

(* The shape of the supervisor's and the engines' state: what a job may be *)
(* about, that no engine has more unread lines than its pipe holds, and    *)
(* that no attempt is counted, expected or remembered beyond the budget.   *)
Steps ==
    {"idle", "start", "spawn", "publish", "stopCheck", "stopPublish",
     "stopSend", "awaitExit", "handOver", "wait", "claim", "install",
     "revalidate"}
Reasons ==
    {"none", "launch", "start", "stop", "restart", "reset", "update",
     "updateReady", "quit", "resume", "backoff"}
Lines ==
    {"starting", "incompatible", "ready", "captions_live", "captions_idle",
     "stopped"}

Attempts == 0 .. MaxAttempts
Snapshot ==
    [phase : Phases, pid : Pids \cup {NoPid}, live : BOOLEAN,
     healthy : BOOLEAN, attempts : Attempts]
Job == [at : Steps, what : Reasons, pid : Pids \cup {NoPid}]
Watch ==
    [at : {"none", "watching", "exiting", "cleared", "done"},
     deadline : BOOLEAN, previous : Phases, attempts : Attempts]

SupervisorTypeOK ==
    /\ situation \in Situations
    /\ status \in Snapshot
    /\ control \in Pids \cup {NoPid}
    /\ job \in [Agents -> Job]
    /\ recovery \in [sleeping : SUBSET (1 .. MaxAttempts), started : Nat]
    /\ quit \in {"no", "waiting", "exited"}
    /\ engine \in [Pids -> Alive \cup {"unborn", "ok", "failed"}]
    /\ stdin \subseteq Pids
    /\ pipe \in [Pids -> Seq(Lines)]
    /\ \A p \in Pids : Len(pipe[p]) <= MaxPipe
    /\ controller \in [Pids -> Watch]
    /\ mail \in [Pids -> SUBSET {"stop", "force"}]
    /\ reader \in [Pids -> Lines \cup {"none"}]
    /\ health \in [Pids -> {"none", "probing", "Ready", "CaptionsLive",
                            "expired"}]
    /\ budget \in [Pids -> Attempts]

(* One thread at a time starts engines: no command but Start does, and no  *)
(* engine is restarted by itself where the user may start one too.         *)
OneStarter ==
    /\ situation.commands \subseteq {"start", "stop", "quit", "resume"}
    /\ "start" \in situation.commands => MaxAttempts = 0

(* As long as one thread at a time starts engines, two never run at once:  *)
(* no stale phase lets start() spawn a second one while the supervisor     *)
(* owns one, and no line or health answer of a dead engine does.           *)
OneEngine ==
    OneStarter =>
        \A p, q \in Pids : engine[p] \in Alive /\ engine[q] \in Alive => p = q

(* As long as one thread at a time starts them: while the controls say     *)
(* Stopped no engine runs, but for one that start() is about to publish;   *)
(* no early line of the engine and no stop request says so before it is    *)
(* gone.                                                                   *)
StoppedMeansGone ==
    OneStarter /\ status.phase = "Stopped" =>
        \A p \in Pids : engine[p] \in Alive =>
            \E a \in Agents : job[a].at = "publish" /\ job[a].pid = p

(* A sender is never left behind by a controller that is gone: it would    *)
(* block every later start and make every stop fail.                       *)
SenderHasReceiver ==
    control # NoPid => controller[control].at \notin {"cleared", "done"}

(* A stop request that reached its controller ends the engine, though the  *)
(* engine may ignore it: the 20 seconds of grace end too.                  *)
StopEnds ==
    \A p \in Pids : "stop" \in mail[p] ~> engine[p] \notin Alive

(* An engine whose control sender was replaced by that of another engine   *)
(* (two threads started one each) is killed: at most one survives.         *)
LostEnginesEnd ==
    \A p \in Pids : Watching(p) /\ control # p ~> engine[p] \notin Alive

(* An engine that keeps failing is restarted at most MaxAttempts times by  *)
(* itself until the user starts it or it has been healthy for a minute,    *)
(* whatever its delayed lines and health answers publish in between.       *)
RestartsBounded == recovery.started <= MaxAttempts

=============================================================================

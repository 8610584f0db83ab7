------------------------ MODULE MCEngineSupervisor ------------------------
(***************************************************************************)
(* Instances of EngineSupervisor for TLC: the situations a behaviour may   *)
(* be about, with their bounds.                                            *)
(***************************************************************************)
EXTENDS EngineSupervisor

(* One thread starts engines, and one of them may crash.                   *)
StartStop ==
    [commands |-> {"start", "stop", "resume"}, given |-> 2, captions |-> TRUE,
     firstLines |-> {"starting"}, engines |-> 2, crashes |-> 1, attempts |-> 0]

(* Any one command, with a restart thread and an engine that may crash.    *)
AnyCommand ==
    [commands |-> {"start", "stop", "restart", "reset", "update", "quit",
                   "resume"},
     given |-> 1, captions |-> TRUE, firstLines |-> {"starting", "incompatible"},
     engines |-> 2, crashes |-> 1, attempts |-> 0]

(* Engines that crash, and automatic restarts.                             *)
Recovery ==
    [commands |-> {}, given |-> 0, captions |-> TRUE,
     firstLines |-> {"starting"}, engines |-> 3, crashes |-> 2, attempts |-> 1]

(* Several threads start engines.                                          *)
TwoStarters ==
    [commands |-> {"start", "restart"}, given |-> 2, captions |-> FALSE,
     firstLines |-> {"starting"}, engines |-> 3, crashes |-> 0, attempts |-> 0]

OwnedSituations == {StartStop, AnyCommand, Recovery}
EndingSituations == {TwoStarters}

=============================================================================

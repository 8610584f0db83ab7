----------------------- MODULE MCTranscriptRetention -----------------------
(***************************************************************************)
(* Small instances of TranscriptRetention for TLC.  A behaviour is about a *)
(* process that may crash, or whose captions expire, with one saving       *)
(* thread; or about two saving threads of a process that keeps running,    *)
(* with no request in between.                                             *)
(***************************************************************************)
EXTENDS TranscriptRetention

CONSTANTS t1, t2

TwoThreads == {t1, t2}

VARIABLE situation

Crashing == [threads |-> {t1}, expired |-> 0, crashes |-> 1]
Expiring == [threads |-> {t1}, expired |-> 1, crashes |-> 0]
Saving == [threads |-> {t1, t2}, expired |-> 0, crashes |-> 0]

(* Two threads are looked at with saving on and cryptography installed.    *)
MCInit ==
    /\ RetentionInit
    /\ situation \in {Crashing, Expiring, Saving}
    /\ situation = Saving => crypto /\ saving

MCNext ==
    /\ RetentionNext
    /\ expired' <= situation.expired /\ crashes' <= situation.crashes
    /\ \A t \in Threads \ situation.threads : task'[t] = task[t]
    /\ situation = Saving => requests' = 0
    /\ UNCHANGED situation

MCSpec == MCInit /\ [][MCNext]_<<retentionVars, situation>> /\ Fairness

=============================================================================

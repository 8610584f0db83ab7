-------------------------- MODULE MCCaptionSession --------------------------
(* Model values for TLC.                                                   *)
EXTENDS CaptionSession

CONSTANTS c1, a1, a2

MCContexts == {c1}
MCAnalysts == {a1, a2}

=============================================================================

-------------------------- MODULE MCSpeechManager --------------------------
(* Model values for TLC.                                                   *)
EXTENDS SpeechManager

CONSTANTS es, fr, w1

MCLanguages == {es, fr}
MCListeners == {w1}

=============================================================================

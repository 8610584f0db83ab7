------------------------- MODULE MCLiveTranscriber -------------------------
(* Constants for TLC.                                                      *)
EXTENDS LiveTranscriber

=============================================================================

----------------------------- MODULE MCAppAccess -----------------------------
(* AppAccess for TLC: two passwords, one form of each kind, two codes, two  *)
(* sessions and the loss of one file; AppAccess.cfg gives the values.       *)
EXTENDS AppAccess, TLC

=============================================================================

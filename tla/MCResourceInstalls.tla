------------------------- MODULE MCResourceInstalls -------------------------
(* ResourceInstalls for TLC: two voice packages, two children, two requests,*)
(* in hand at a time, one restart, one kill; the kinds share no state, so a *)
(* behaviour is about one of them.                                          *)
EXTENDS ResourceInstalls, TLC

SingleKinds == {{k} : k \in Kinds}

=============================================================================

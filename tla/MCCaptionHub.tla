---------------------------- MODULE MCCaptionHub ----------------------------
(* Small instances of CaptionHub for TLC. *)
EXTENDS CaptionHub

CONSTANTS en, fa, c1, c2, u1, u2, k1, k2

OneTranslated == {fa}
TwoClients == {c1, c2}
OneCue == {u1}
OneRequest == {k1}

BothTranslated == [c \in TwoClients |-> fa]
BothEnglish == [c \in TwoClients |-> en]

=============================================================================

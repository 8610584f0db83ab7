----------------------- MODULE MCTranslationScheduler -----------------------
(***************************************************************************)
(* Small instances of TranslationScheduler for TLC.  A behaviour is either *)
(* about the backpressure of one language, with three cues for a queue of  *)
(* two, or about the turns of two languages, with two cues each.           *)
(***************************************************************************)
EXTENDS TranslationScheduler

CONSTANTS fa, zh, u1, u2, u3

TwoLanguages == {fa, zh}
ThreeUnits == {u1, u2, u3}

VARIABLE used       \* the languages and cues that are submitted

Backpressure == [languages |-> {fa}, units |-> {u1, u2, u3}]
Turns == [languages |-> {fa, zh}, units |-> {u1, u2}]

MCInit == Init /\ used \in {Backpressure, Turns}

(* Next, of the languages and cues that are submitted.                     *)
MCNext ==
    /\ \/ \E lang \in used.languages, unit \in used.units, rev \in Revisions,
             final \in BOOLEAN : Submit(lang, unit, rev, final)
       \/ Take \/ Publish \/ DropStale \/ Clear
    /\ UNCHANGED used

MCSpec == MCInit /\ [][MCNext]_<<vars, used>> /\ Fairness

=============================================================================

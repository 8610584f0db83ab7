--------------------------- MODULE MCSourceUnits ---------------------------
(* Small instances of SourceUnits for TLC. *)
EXTENDS SourceUnits

Word(text, other, stop) == [norm |-> text, misheard |-> other, stop |-> stop]

(* A word said three times, which is a loop here, a sentence end, and      *)
(* words that may be taken for others.                                     *)
Sermon == <<Word("us", "as", FALSE), Word("no", "know", FALSE), Word("no", "now", FALSE),
            Word("no", "know", FALSE), Word("pray", "play", TRUE)>>
Exact == {0}

(* The hypothesis of the theorem SpeechIsSpelt.                            *)
ASSUME ClearInstance == HeardClearly

=============================================================================

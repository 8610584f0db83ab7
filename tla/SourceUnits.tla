---------------------------- MODULE SourceUnits ----------------------------
(***************************************************************************)
(* SourceUnitBuilder: the cue ledger that turns the overlapping hypotheses *)
(* of a rolling recogniser into cues. A cue is revised while it is open    *)
(* and immutable once it is sealed. Words on which two consecutive         *)
(* hypotheses agree are confirmed; only the tail after them may change.    *)
(*                                                                         *)
(* Time is counted in ticks, and each spoken word takes WordTicks of them. *)
(* The recogniser is external: it hears a window of the last words, may    *)
(* mishear the newest one, and reports times that are off by Jitter.       *)
(***************************************************************************)
EXTENDS Integers, Sequences, SequencesExt, Subsequences

CONSTANTS
    Speech,             \* the speaker's words, what each may be misheard as,
                        \* and which end a sentence: <<[norm, misheard, stop], ...>>
    Jitter,             \* offsets of the reported times, in ticks
    WordTicks,          \* the length of a word
    WindowWords,        \* how many words the rolling window holds
    MaxPasses,          \* bound: passes over the same audio
    minimum_words,
    punctuation_minimum_words,
    maximum_words,
    maximum_duration,   \* maximum_duration_seconds, in ticks
    tolerance,          \* timestamp_tolerance_seconds, in ticks
    alignDistance,      \* how far apart the times of one word may be
    contextWords,       \* how much of the confirmed text is compared
    loopWords,          \* texts of fewer words are not searched for loops
    loopRepeats,        \* a loop is a phrase said so many times in a row,
    loopCovers,         \* in so many words at least,
    phraseWords,        \* of so many words at most
    loopTail,           \* how many words may follow a loop
    MaxResets           \* bound: blanks and clears

Positions == 1 .. Len(Speech)

(* pos is the word the recogniser heard: the code does not see it. *)
Token == [norm : {Speech[p].norm : p \in Positions} \union {Speech[p].misheard : p \in Positions},
          stop : BOOLEAN, pos : Positions, start : Int, end : Int]

ASSUME LimitsAssumption ==
    /\ minimum_words \in Nat \ {0}
    /\ punctuation_minimum_words \in Nat /\ punctuation_minimum_words >= minimum_words
    /\ maximum_words \in Nat /\ maximum_words >= punctuation_minimum_words
    /\ contextWords \in Nat /\ MaxPasses \in Nat /\ MaxResets \in Nat
    /\ {loopWords, loopRepeats, loopCovers, phraseWords} \subseteq Nat \ {0}
    /\ loopTail \in Nat
ASSUME SpeechAssumption ==
    /\ Len(Speech) \in Nat
    /\ \A p \in Positions : Speech[p].stop \in BOOLEAN
    /\ WordTicks \in Nat \ {0} /\ WindowWords \in Nat /\ Jitter \subseteq Int

(* What SpeechSpelt asks of the recogniser. The window holds a word for    *)
(* four passes; the times a word is given by different passes differ by    *)
(* less than half a word; and a misheard word is not taken for another one *)
(* that is near enough in time to be aligned with it. Words may repeat.    *)
Near(p, r) == \E a, b \in Jitter :
    (p - r) * WordTicks + a - b \in -alignDistance .. alignDistance

HeardClearly ==
    /\ WindowWords >= 4
    /\ tolerance \in Nat /\ alignDistance \in Nat
    /\ tolerance <= alignDistance /\ 2 * tolerance < WordTicks
    /\ \A a \in Jitter : -WordTicks < a /\ a < WordTicks
    /\ \A a, b \in Jitter : a - b <= tolerance
    /\ \A p, r \in Positions : p # r /\ Near(p, r) =>
          Speech[p].misheard \notin {Speech[r].norm, Speech[r].misheard}

VARIABLES
    timed,          \* the backend reports word times
    wordsSpoken,    \* words spoken so far
    passes,         \* recogniser passes since the last word
    from,           \* the first word its buffer still holds
    confirmed,      \* tokens of the open cue on which hypotheses agreed
    pending,        \* the tail of the newest hypothesis
    remembered,     \* all tokens confirmed since the last reset
    committedEnd,   \* end of the last confirmed word, 0 for None
    sealedEnd,      \* sealed_audio_end_monotonic, 0 for None
    cue,            \* the number of the open cue
    revision,       \* its revision
    draft,          \* the tokens it was last sent with, and how many are stable
    updates,        \* what the last ingest returned
    resets          \* bound: resets so far

unitsVars ==
    <<timed, wordsSpoken, passes, from, confirmed, pending, remembered,
      committedEnd, sealedEnd, cue, revision, draft, updates, resets>>

-----------------------------------------------------------------------------
(* The recogniser's hypotheses.                                            *)

Largest(S) == CHOOSE x \in S : \A y \in S : y <= x
Smallest(S) == CHOOSE x \in S : \A y \in S : x <= y

(* The window is trimmed to what follows the sealed audio, less one word   *)
(* of overlap.                                                             *)
WindowStart ==
    Largest({from, wordsSpoken - WindowWords + 1, sealedEnd \div WordTicks})

TokenAt(p, misheard, shift) ==
    [norm |-> IF misheard THEN Speech[p].misheard ELSE Speech[p].norm,
     stop |-> Speech[p].stop, pos |-> p,
     start |-> (p - 1) * WordTicks + shift, end |-> p * WordTicks + shift]

Hypothesis(mishears, shift) ==
    SubSeq([p \in Positions |-> TokenAt(p, mishears /\ p = wordsSpoken, shift)],
           WindowStart, wordsSpoken)

-----------------------------------------------------------------------------
(* The text of a cue.                                                      *)

Words(tokens) == [i \in 1 .. Len(tokens) |->
                     [norm |-> tokens[i].norm, stop |-> tokens[i].stop]]

(* How often the phrase of c[2] words at position c[1] is said in a row.   *)
Repeats(words, c) ==
    Largest({n \in 1 .. Len(words) :
                /\ c[1] + n * c[2] - 1 <= Len(words)
                /\ \A i \in c[1] .. c[1] + (n - 1) * c[2] - 1 :
                      words[i].norm = words[i + c[2]].norm})

(* The phrases said often enough, in enough of the text, to be taken for a *)
(* recogniser that is caught in a loop.                                    *)
Loops(words) ==
    {c \in (1 .. Len(words)) \X (1 .. phraseWords) :
        /\ Len(words) >= loopWords
        /\ c[1] + loopRepeats * c[2] - 1 <= Len(words)
        /\ Repeats(words, c) >= loopRepeats
        /\ Repeats(words, c) * c[2] >= Largest({loopCovers, Len(words) \div 2})}

(* collapse_repeated_phrase: of the loop that covers most, the first of    *)
(* these, one phrase is left. What follows it stays if it is short, and    *)
(* the full stop at the end goes.                                          *)
Collapse(words) ==
    LET Covered(c) == Repeats(words, c) * c[2]
        most == Largest({Covered(c) : c \in Loops(words)})
        Best == {c \in Loops(words) : Covered(c) = most}
        loop == CHOOSE c \in Best :
                   \A d \in Best : c[1] < d[1] \/ (c[1] = d[1] /\ c[2] <= d[2])
        rest == SubSeq(words, loop[1] + most, Len(words))
        kept == SubSeq(words, 1, loop[1] + loop[2] - 1)
                    \o IF Len(rest) <= loopTail THEN rest ELSE <<>>
    IN  [kept EXCEPT ![Len(kept)].stop = FALSE]

(* _join *)
Text(tokens) ==
    IF Loops(Words(tokens)) = {} THEN Words(tokens) ELSE Collapse(Words(tokens))

-----------------------------------------------------------------------------
(* Agreement of hypotheses.                                                *)

Same(left, right) == left.norm = right.norm

(* Tokens that the ledger has confirmed before are removed: by their times *)
(* if that removes any, else by the longest overlap of their words.        *)
StripCommittedOverlap(tokens) ==
    LET later == Filter(tokens, {t \in Token : t.end > committedEnd + tolerance})
        context == SubSeq(remembered,
                       Largest({1, Len(remembered) - contextWords + 1}),
                       Len(remembered))
        Overlaps(size) ==
            /\ size <= Len(context) /\ size <= Len(tokens)
            /\ \A i \in 1 .. size : Same(context[Len(context) - size + i], tokens[i])
        overlap == Largest({size \in 0 .. Len(tokens) : Overlaps(size)})
    IN  IF timed /\ committedEnd # 0 /\ Len(later) # Len(tokens)
        THEN later
        ELSE SubSeq(tokens, overlap + 1, Len(tokens))

(* How many words agree from position i of one and j of the other.         *)
Agreement(previous, i, current, j) ==
    Largest({n \in 0 .. Len(current) :
                /\ i + n - 1 <= Len(previous) /\ j + n - 1 <= Len(current)
                /\ \A k \in 0 .. n - 1 : Same(previous[i + k], current[j + k])})

Aligned(previous, i, current, j) ==
    /\ Same(previous[i], current[j])
    /\ previous[i].start - current[j].start \in -alignDistance .. alignDistance

(* _timed_alignment: the first of the longest common runs, of words whose  *)
(* times are close.                                                        *)
TimedAlignment(previous, current) ==
    LET Candidates == {c \in (1 .. Len(previous)) \X (1 .. Len(current)) :
                          Aligned(previous, c[1], current, c[2])}
        Run(c) == Agreement(previous, c[1], current, c[2])
        longest == Largest({Run(c) : c \in Candidates})
        Best == {c \in Candidates : Run(c) = longest}
    IN  CHOOSE c \in Best :
           \A d \in Best : c[1] < d[1] \/ (c[1] = d[1] /\ c[2] <= d[2])

CanAlign(previous, current) ==
    /\ timed
    /\ \E i \in 1 .. Len(previous), j \in 1 .. Len(current) :
          Aligned(previous, i, current, j)

(* The words that fell out of the window, so no hypothesis will agree.     *)
Fallen(previous, current) ==
    IF timed
    THEN LET start == Smallest({current[i].start : i \in 1 .. Len(current)})
         IN  Filter(previous, {t \in Token : t.end <= start + tolerance})
    ELSE <<>>

(* The tokens an ingest confirms, and the tail it leaves pending.          *)
Confirm(current, final) ==
    IF final THEN [tokens |-> current, tail |-> <<>>]
    ELSE IF CanAlign(pending, current)
    THEN LET c == TimedAlignment(pending, current)
             n == Agreement(pending, c[1], current, c[2])
         IN  [tokens |-> SubSeq(pending, 1, c[1] - 1)
                             \o SubSeq(current, c[2], c[2] + n - 1),
              tail |-> SubSeq(current, c[2] + n, Len(current))]
    ELSE LET n == Agreement(pending, 1, current, 1)
         IN  IF n > 0
             THEN [tokens |-> SubSeq(current, 1, n),
                   tail |-> SubSeq(current, n + 1, Len(current))]
             ELSE [tokens |-> Fallen(pending, current), tail |-> current]

-----------------------------------------------------------------------------
(* Sealing.                                                                *)

(* _boundary: how many of the confirmed tokens make the next sealed cue, 0 *)
(* if there is none yet.                                                   *)
Boundary(tokens, force) ==
    LET limit == Smallest({Len(tokens), maximum_words})
        stops == {i \in punctuation_minimum_words .. limit : tokens[i].stop}
    IN  IF tokens = <<>> THEN 0
        ELSE IF force THEN Len(tokens)
        ELSE IF stops # {} THEN Smallest(stops)
        ELSE IF Len(tokens) >= maximum_words THEN maximum_words
        ELSE IF timed /\ tokens[Len(tokens)].end - tokens[1].start >= maximum_duration
        THEN Len(tokens)
        ELSE 0

(* _seal_ready: the confirmed tokens are cut into cues, the n-th of which  *)
(* ends at token end[n], until there is no boundary; the rest stays open.  *)
SealReady(tokens, force) ==
    LET After(end) == SubSeq(tokens, end + 1, Len(tokens))
        end[n \in Nat] ==
            IF n = 0 THEN 0
            ELSE LET last == end[n - 1]
                 IN  last + Boundary(After(last), force)
        count == Smallest({n \in 0 .. Len(tokens) : end[n + 1] = end[n]})
    IN  [cues |-> [i \in 1 .. count |-> SubSeq(tokens, end[i - 1] + 1, end[i])],
         sealed |-> SubSeq(tokens, 1, end[count]),
         open |-> After(end[count])]

(* _segment: nothing is sent of a cue that is too short. A cue sealed at   *)
(* position i of the cuts is the open cue if i = 1, and a new one after.   *)
SealedUpdates(cuts) ==
    LET Update(i) == [cue |-> cue + i - 1,
                      rev |-> IF i = 1 THEN revision + 1 ELSE 1,
                      tokens |-> cuts[i], stable |-> Len(cuts[i]), final |-> TRUE]
    IN  Filter([i \in 1 .. Len(cuts) |-> Update(i)],
               {Update(i) : i \in {j \in 1 .. Len(cuts) :
                                       Len(Text(cuts[j])) >= minimum_words}})

(* Mutant of DraftUpdate: the tail is sent as stable, too. *)
DraftAllStable(cuts, open, tail) ==
    LET active == open \o tail
        last == IF cuts = <<>> THEN draft.tokens ELSE <<>>
    IN  IF Len(Text(active)) < minimum_words \/ Text(active) = Text(last)
        THEN <<>>
        ELSE <<[cue |-> cue + Len(cuts),
                rev |-> IF cuts = <<>> THEN revision + 1 ELSE 1,
                tokens |-> active, stable |-> Len(active), final |-> FALSE]>>

DraftUpdate(cuts, open, tail) ==
    LET active == open \o tail
        last == IF cuts = <<>> THEN draft.tokens ELSE <<>>
    IN  IF Len(Text(active)) < minimum_words \/ Text(active) = Text(last)
        THEN <<>>
        ELSE <<[cue |-> cue + Len(cuts),
                rev |-> IF cuts = <<>> THEN revision + 1 ELSE 1,
                tokens |-> active, stable |-> Len(open), final |-> FALSE]>>

(* Mutant of LastEnd: the times of confirmed words are forgotten, so that  *)
(* overlaps are only found by their words.                                 *)
NoLastEnd(tokens, before) == before

LastEnd(tokens, before) ==
    IF tokens = <<>> \/ ~timed THEN before
    ELSE Largest({before} \union {tokens[i].end : i \in 1 .. Len(tokens)})

NoDraft == [tokens |-> <<>>, stable |-> 0]

-----------------------------------------------------------------------------
(* The operations.                                                         *)

UnitsInit ==
    /\ timed \in BOOLEAN
    /\ wordsSpoken = 0 /\ passes = 0 /\ from = 1 /\ cue = 1 /\ resets = 0
    /\ confirmed = <<>> /\ pending = <<>> /\ remembered = <<>>
    /\ committedEnd = 0 /\ sealedEnd = 0
    /\ revision = 0 /\ draft = NoDraft /\ updates = <<>>

(* The speaker goes on. The recogniser has its pass between two words, so  *)
(* that a word stays in the window for WindowWords passes at least.        *)
Speak ==
    /\ wordsSpoken < Len(Speech)
    /\ passes > 0 \/ wordsSpoken < from
    /\ wordsSpoken' = wordsSpoken + 1
    /\ passes' = 0
    /\ updates' = <<>>
    /\ UNCHANGED <<timed, from, confirmed, pending, remembered, committedEnd,
                   sealedEnd, cue, revision, draft, resets>>

(* ingest of one hypothesis. *)
Ingest(mishears, shift, final) ==
    LET current == StripCommittedOverlap(Hypothesis(mishears, shift))
        agreed == Confirm(current, final)
        run == SealReady(confirmed \o agreed.tokens, final)
        drafts == IF final THEN <<>> ELSE DraftUpdate(run.cues, run.open, agreed.tail)
    IN  /\ from <= wordsSpoken
        /\ passes < MaxPasses
        /\ passes' = passes + 1
        /\ UNCHANGED <<timed, wordsSpoken, from, resets>>
        /\ IF current = <<>> /\ ~final
           THEN /\ updates' = <<>>
                /\ UNCHANGED <<confirmed, pending, remembered, committedEnd,
                               sealedEnd, cue, revision, draft>>
           ELSE /\ remembered' = remembered \o agreed.tokens
                /\ committedEnd' = LastEnd(agreed.tokens, committedEnd)
                /\ pending' = agreed.tail
                /\ confirmed' = run.open
                /\ sealedEnd' = LastEnd(run.sealed, sealedEnd)
                /\ cue' = cue + Len(run.cues)
                /\ updates' = SealedUpdates(run.cues) \o drafts
                /\ revision' = (IF run.cues = <<>> THEN revision ELSE 0) + Len(drafts)
                /\ draft' = IF drafts # <<>>
                            THEN [tokens |-> drafts[1].tokens, stable |-> drafts[1].stable]
                            ELSE IF run.cues = <<>> THEN draft ELSE NoDraft

(* A blank, a resume or a clear. The transcriber's buffer is cleared too.  *)
Reset ==
    /\ resets < MaxResets
    /\ resets' = resets + 1
    /\ passes' = 0 /\ from' = wordsSpoken + 1
    /\ cue' = cue + 1
    /\ confirmed' = <<>> /\ pending' = <<>> /\ remembered' = <<>>
    /\ committedEnd' = 0 /\ sealedEnd' = 0
    /\ revision' = 0 /\ draft' = NoDraft /\ updates' = <<>>
    /\ UNCHANGED <<timed, wordsSpoken>>

UnitsNext ==
    \/ Speak
    \/ \E mishears, final \in BOOLEAN, shift \in Jitter :
          Ingest(mishears, shift, final)
    \/ Reset

UnitsSpec == UnitsInit /\ [][UnitsNext]_unitsVars

-----------------------------------------------------------------------------
(* Properties.                                                             *)

(* Types. The open cue is short of every boundary, so it is never as long  *)
(* as a sealed one may be, and no audio is sealed that was not confirmed.  *)
UnitsTypeOK ==
    /\ timed \in BOOLEAN /\ wordsSpoken \in 0 .. Len(Speech) /\ from \in 1 .. Len(Speech) + 1
    /\ passes \in 0 .. MaxPasses /\ cue \in Nat \ {0} /\ resets \in 0 .. MaxResets
    /\ confirmed \in Seq(Token) /\ pending \in Seq(Token) /\ remembered \in Seq(Token)
    /\ Len(confirmed) < maximum_words
    /\ committedEnd \in Nat /\ sealedEnd \in 0 .. committedEnd
    /\ revision \in Nat /\ draft.stable \in 0 .. Len(draft.tokens)
    /\ revision = 0 <=> draft = NoDraft

Increasing(tokens) ==
    \A i, j \in 1 .. Len(tokens) : i < j => tokens[i].pos < tokens[j].pos

(* A pass that sealed all there was. *)
AllSealed ==
    /\ updates # <<>> /\ updates[Len(updates)].final
    /\ confirmed = <<>> /\ pending = <<>>

(* With word times, what is confirmed spells what was said: no word twice, *)
(* none out of order, and when a final pass has sealed the rest, none      *)
(* missing, however the recogniser changed its mind about the newest word. *)
(* An older design "permanently appended the old and corrected versions"   *)
(* (source_units.py:24).                                                   *)
SpeechSpelt ==
    timed => /\ Increasing(remembered)
             /\ AllSealed =>
                   {remembered[i].pos : i \in 1 .. Len(remembered)} = from .. wordsSpoken

(* A later revision of the cue, the sealed one included, goes on from the  *)
(* words that a draft showed as stable, and shows them again as long as no *)
(* loop is cut out of either text: only a loop takes them off a screen.    *)
KeepsStable(later) ==
    /\ IsPrefix(SubSeq(draft.tokens, 1, draft.stable), later)
    /\ Loops(Words(draft.tokens)) \cup Loops(Words(later)) = {} =>
          IsPrefix(SubSeq(Text(draft.tokens), 1, draft.stable), Text(later))

StableWordsStay ==
    [][resets' = resets =>
          \A i \in 1 .. Len(updates') :
             updates'[i].cue = cue => KeepsStable(updates'[i].tokens)]_unitsVars

=============================================================================

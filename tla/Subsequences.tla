---------------------------- MODULE Subsequences ----------------------------
(***************************************************************************)
(* The list comprehensions of the program, [x for x in s if ...]. What is  *)
(* kept is given as a set, where SelectSeq takes an operator: the provers  *)
(* can reason about this form.                                             *)
(***************************************************************************)
EXTENDS Naturals, Sequences

(* The elements of s that are in kept, in their order.                     *)
Filter(s, kept) ==
    LET upTo[n \in Nat] ==
            IF n = 0 THEN <<>>
            ELSE IF s[n] \in kept THEN Append(upTo[n - 1], s[n])
            ELSE upTo[n - 1]
    IN  upTo[Len(s)]

=============================================================================

------------------------------ MODULE Filtering -------------------------------
(***************************************************************************)
(* Array.prototype.filter, as the lobby's queue and the hand history use    *)
(* it.  The predicate is given as the set of what satisfies it.             *)
(***************************************************************************)
EXTENDS Integers, SequencesExt

\* The members of s that are in S, in their order.
Those(s, S) ==
  LET kept[i \in 0..Len(s)] ==
        IF i = 0 THEN <<>>
        ELSE IF s[i] \in S THEN Append(kept[i - 1], s[i]) ELSE kept[i - 1]
  IN  kept[Len(s)]
=============================================================================

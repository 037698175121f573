---------------------------- MODULE Subsequences ----------------------------
(***************************************************************************)
(* The elements of a sequence that are in a set, in their order: SelectSeq *)
(* with the test given as a set, defined by recursion over the length so   *)
(* that SubsequencesProofs can prove what it computes.                     *)
(***************************************************************************)
EXTENDS Integers, Sequences

\* Kept(s, S)[i] is what remains of the first i elements.
Kept(s, S) ==
    LET kept[i \in 0 .. Len(s)] ==
            IF i = 0 THEN <<>>
            ELSE IF s[i] \in S THEN Append(kept[i - 1], s[i]) ELSE kept[i - 1]
    IN  kept

Only(s, S) == Kept(s, S)[Len(s)]
=============================================================================

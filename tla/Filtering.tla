----------------------------- MODULE Filtering ------------------------------
(***************************************************************************)
(* A filter as a recursive function, which proofs can look into and        *)
(* SelectSeq is not.                                                       *)
(***************************************************************************)
EXTENDS Integers, Sequences

(* The members of a sequence that are in a set, in their order.            *)
Keep(seq, S) ==
  LET kept[n \in 0..Len(seq)] ==
        IF n = 0 THEN <<>>
        ELSE IF seq[n] \in S THEN Append(kept[n - 1], seq[n]) ELSE kept[n - 1]
  IN  kept[Len(seq)]
=============================================================================

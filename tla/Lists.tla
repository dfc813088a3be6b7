-------------------------------- MODULE Lists --------------------------------
(* What the loops over lists of several modules have in common.              *)
EXTENDS Naturals, Sequences, SequencesExt

(* The elements of a list that are in a set, in their order. *)
Keep(s, S) == FoldLeft(LAMBDA kept, x : IF x \in S THEN Append(kept, x) ELSE kept, <<>>, s)

=============================================================================

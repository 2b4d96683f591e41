--------------------------- MODULE SnapSequences ---------------------------
(***************************************************************************)
(* SelectSeq over a set of indices instead of a test: the provers know     *)
(* nothing of SelectSeq, and can be told nothing of an operator that takes *)
(* an operator.  SnapSequencesProofs has what the proofs need of it.       *)
(***************************************************************************)
EXTENDS Naturals, Sequences

\* the elements of s at the indices of I, in the order of s
Selected(s, I) ==
  LET upto[n \in 0..Len(s)] ==
        IF n = 0 THEN <<>>
        ELSE IF n \in I THEN Append(upto[n - 1], s[n]) ELSE upto[n - 1]
  IN  upto[Len(s)]
=============================================================================

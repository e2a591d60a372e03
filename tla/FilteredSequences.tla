------------------------- MODULE FilteredSequences -------------------------
(***************************************************************************)
(* The elements of a sequence that are in a set, in their order.  What     *)
(* SelectSeq does for a test, in a form the provers can expand.            *)
(***************************************************************************)
EXTENDS Naturals, Sequences

Among(s, S) ==
  LET f[i \in 0..Len(s)] ==
        IF i = 0 THEN <<>> ELSE IF s[i] \in S THEN Append(f[i - 1], s[i]) ELSE f[i - 1]
  IN  f[Len(s)]
=============================================================================

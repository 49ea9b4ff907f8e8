------------------------------ MODULE Iteration -----------------------------
(***************************************************************************)
(* Applying an operator along a sequence, from a base: a loop over a       *)
(* vector.  It computes what FoldLeft does, as a recursive function, whose *)
(* equation is what FoldRules reasons from.                                *)
(***************************************************************************)
EXTENDS Naturals, Sequences

Iterate(Op(_, _), base, seq) ==
    LET upTo[n \in 0 .. Len(seq)] == IF n = 0 THEN base ELSE Op(upTo[n - 1], seq[n])
    IN  upTo[Len(seq)]
=============================================================================

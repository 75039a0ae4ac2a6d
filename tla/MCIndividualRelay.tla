------------------------- MODULE MCIndividualRelay -------------------------
(* Callers are alike, so their names may be permuted.                       *)
EXTENDS IndividualRelay, TLC

Symmetry == Permutations(Phones)
=============================================================================

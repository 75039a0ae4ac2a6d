---------------------------- MODULE MCApplications ----------------------------
(* Applications with model values for TLC: the actors that meet in one        *)
(* behaviour, and the symmetry of conversations and of forms.                 *)
EXTENDS Applications, TLC

CONSTANTS p1, c1, c2, f1, f2, d1

McCasts == {{c1, c2}, {c1, d1}, {c1, f1, p1}, {f1, f2, d1, p1}}
Symmetry == Permutations({c1, c2}) \cup Permutations({f1, f2})

================================================================================

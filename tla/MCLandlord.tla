----------------------------- MODULE MCLandlord -----------------------------
(***************************************************************************)
(* Landlord on a small instance.                                           *)
(***************************************************************************)
EXTENDS Landlord, TLC

(* maxProperties of the cheaper plan and of the dearer one.                  *)
Limits == [basic |-> 1, pro |-> 2]

(* Numbers and tours meet in the property's deletion only.                   *)
Pairs == {{"number"}, {"tour"}}

(* Payments, subscriptions, properties, numbers and bookings are the same     *)
(* model values: no scene compares one kind with another, and permuting them  *)
(* together keeps the symmetry small.                                         *)
Symmetry == Permutations(Requests) \cup Permutations(Payments)
=============================================================================

--------------------------- MODULE MCZillowCycle ---------------------------
(* Instances of ZillowCycle for TLC: leads are interchangeable, and so are *)
(* the minute slots of the poll.                                           *)
EXTENDS ZillowCycle, TLC

Symmetry == Permutations(Leads) \union Permutations(PollSlots)
=============================================================================

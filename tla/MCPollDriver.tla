---------------------------- MODULE MCPollDriver ----------------------------
(* PollDriver for TLC: the ticks are interchangeable. *)
EXTENDS PollDriver, TLC


Symmetry == Permutations(Ticks)
=============================================================================

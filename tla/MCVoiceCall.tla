---------------------------- MODULE MCVoiceCall ----------------------------
(* Calls are alike, so their names may be permuted; only safety is checked. *)
EXTENDS VoiceCall, TLC

Symmetry == Permutations(Calls)
=============================================================================

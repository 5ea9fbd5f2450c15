-------------------------- MODULE MCEventStreams --------------------------
(* Small instances of EventStreams for TLC. *)
EXTENDS EventStreams, TLC

Symmetry == Permutations(Streams) \cup Permutations(Jobs)
=============================================================================

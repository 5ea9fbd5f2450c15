-------------------------- MODULE MCProjectAccess --------------------------
(* Small instances of ProjectAccess for TLC. *)
EXTENDS ProjectAccess, TLC

Symmetry == Permutations(Visitors) \cup Permutations(Projects)
              \cup Permutations(Challenges) \cup Permutations(Requests)
=============================================================================

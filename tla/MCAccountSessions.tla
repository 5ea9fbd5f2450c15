------------------------- MODULE MCAccountSessions -------------------------
(* Small instances of AccountSessions for TLC. *)
EXTENDS AccountSessions

Limits == [login    |-> [client |-> 1, name |-> 2, all |-> 2],
           register |-> [client |-> 1, name |-> 1, all |-> 2]]
Symmetry == Permutations(Clients) \cup Permutations(Names) \cup Permutations(Passwords)
=============================================================================

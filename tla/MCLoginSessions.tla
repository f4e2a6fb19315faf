-------------------------- MODULE MCLoginSessions --------------------------
(* Instances of LoginSessions for TLC. *)
EXTENDS LoginSessions, TLC

Symmetry == Permutations(Browser) \cup Permutations(Account) \cup Permutations(Request)

=============================================================================

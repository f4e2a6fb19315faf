--------------------------- MODULE MCAccountGate ---------------------------
(* Instances of AccountGate for TLC. *)
EXTENDS AccountGate, TLC

\* The mutex and starting leave at most one goroutine per account; one more
\* shows that this is so.
ASSUME EnoughGoroutines == Cardinality(Goroutine) > Cardinality(Account)

Events(signIn, change, crash) ==
    [e \in Event |-> CASE e = "signIn" -> signIn [] e = "change" -> change [] e = "crash" -> crash]

Everything == Events(1, 1, 1)

=============================================================================

------------------------------- MODULE MCRuns -------------------------------
(* Instances of Runs for TLC.  Request, Handler and Follower are sets of     *)
(* interchangeable model values; liveness runs do not use the symmetry.      *)
EXTENDS Runs, TLC

\* A follower slot is free whenever a run may start one.
ASSUME EnoughFollowers == Cardinality(Follower) >= Cardinality(Request)

AllConfigured == {Thread}                    \* every runtime is configured
MayBeRemoved  == {Thread, {}}                \* a restart may drop the runtimes

\* No fault, one of each kind but a restart of the gateway, or the three that
\* the liveness properties are about.
NoFault    == [k \in Fault |-> 0]
MostFaults == [k \in Fault |-> IF k = "restart" THEN 0 ELSE 1]
LiveFaults == [k \in Fault |-> IF k \in {"crash", "latePost", "restart"} THEN 1 ELSE 0]

Symmetry == Permutations(Request) \cup Permutations(Body) \cup Permutations(Handler) \cup Permutations(Follower)

=============================================================================

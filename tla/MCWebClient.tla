---------------------------- MODULE MCWebClient ----------------------------
(* Instances of WebClient for TLC. *)
EXTENDS WebClient

\* Two messages overtake each other and are retried, one of them in a new
\* conversation; or a conversation has two runs and the reply of one; or the
\* reply of one run has two versions.
Creating == [entry |-> 2, id |-> 2, new |-> 1, version |-> 0]
Replying == [entry |-> 2, id |-> 2, new |-> 0, version |-> 1]
Growing  == [entry |-> 1, id |-> 2, new |-> 1, version |-> 2]
Each     == {Creating, Replying, Growing}

\* A message that was displaced may be retried under a third id.
Retrying == [Creating EXCEPT !.id = 3]
Retries  == {Retrying}

=============================================================================

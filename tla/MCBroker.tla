------------------------------ MODULE MCBroker ------------------------------
(* Instances of Broker for TLC. *)
EXTENDS Broker, TLC

\* Two accounts are prepared, with one fault of each kind but a full disk; or
\* the update script and the broker move the owner's workspace, with one of
\* each kind but the torn port file of a preparation.
Events(new, update) ==
    [e \in Event |-> CASE e = "new" -> new [] e = "update" -> update
                       [] e = "torn" -> IF new = 0 THEN 0 ELSE 1
                       [] e = "disk" -> IF update = 0 THEN 0 ELSE 1
                       [] OTHER -> 1]

Preparing == Events(2, 0)
Updating  == Events(0, 2)
Either    == {Preparing, Updating}

=============================================================================

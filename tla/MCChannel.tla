------------------------------ MODULE MCChannel ------------------------------
(* Instances of Channel for TLC. *)
EXTENDS Channel, TLC

Events(crash, control, refuse) ==
    [e \in Event |-> CASE e = "crash" -> crash [] e = "control" -> control [] e = "refuse" -> refuse]

Everything == Events(1, 1, 1)
OneSteer   == Events(0, 1, 0)

=============================================================================

------------------------------- MODULE Leases -------------------------------
(***************************************************************************)
(* What the broker promises the backend and the gateways, with no files,   *)
(* no Docker and no crash in sight: an account gets its connection, a port *)
(* of its own with a key, once and for ever, and is told no other.  Broker *)
(* implements it.                                                          *)
(***************************************************************************)
EXTENDS Naturals

CONSTANTS Tenant, Port

VARIABLES
    lease,  \* the connection of each account
    told    \* the connections each account was told

leaseVars == <<lease, told>>

None       == [port |-> 0]
Connection == [port: Port, key: Nat]
Held(a) == lease[a] # None

\* No two accounts share a port.
Exclusive == \A a, b \in Tenant : Held(a) /\ Held(b) /\ lease[a].port = lease[b].port => a = b

LeaseInit ==
    /\ lease \in [Tenant -> Connection \cup {None}]
    /\ Exclusive
    /\ told = [a \in Tenant |-> {}]

\* An account gets a connection, with a port that no other account has.
Grant(a) ==
    /\ ~Held(a)
    /\ lease' \in [Tenant -> Connection \cup {None}]
    /\ lease'[a] \in Connection
    /\ \A b \in Tenant \ {a} : lease'[b] = lease[b]
    /\ Exclusive'
    /\ UNCHANGED told

Tell(a) ==
    /\ Held(a)
    /\ told' = [told EXCEPT ![a] = @ \cup {lease[a]}]
    /\ UNCHANGED lease

LeaseNext == \E a \in Tenant : Grant(a) \/ Tell(a)

LeaseSpec == LeaseInit /\ [][LeaseNext]_leaseVars

=============================================================================

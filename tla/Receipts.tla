------------------------------ MODULE Receipts ------------------------------
(* What the channel promises its client, the 386GPT backend: under an       *)
(* idempotency key there is at most one delivery; it stays with its         *)
(* conversation; once settled its status is final, except for requests that *)
(* began while it was open and still hold a copy of it.                     *)
EXTENDS FiniteSets

CONSTANTS Key, Chat

Final == {"completed", "failed", "cancelled", "interrupted"}

Absent == [state |-> "absent"]

VARIABLES
    receipt,   \* the receipt of each key
    held       \* keys whose receipt some request holds a copy of

Init == receipt = [k \in Key |-> Absent] /\ held = {}

Open(k) == receipt[k].state = "open"

\* A key is accepted; the request that brought it holds the receipt.
Accept(k, c) ==
    /\ receipt[k] = Absent
    /\ receipt' = [receipt EXCEPT ![k] = [state |-> "open", chat |-> c]]
    /\ held' = held \cup {k}

Take(k) ==
    /\ Open(k) /\ held' = held \cup {k}
    /\ UNCHANGED receipt

Drop == held' \in SUBSET held /\ UNCHANGED receipt

\* Open receipts are settled; a restart settles all of them.
Settle(S) ==
    /\ \A k \in S : Open(k)
    /\ \E f \in [S -> Final] :
          receipt' = [k \in Key |-> IF k \in S THEN [receipt[k] EXCEPT !.state = f[k]] ELSE receipt[k]]
    /\ UNCHANGED held

\* A request writes the copy it holds, whatever has become of the receipt.
WriteCopy(k) ==
    /\ k \in held
    /\ \E s \in {"open", "failed"} : receipt' = [receipt EXCEPT ![k].state = s]
    /\ held' \in SUBSET held

Next ==
    \/ \E k \in Key, c \in Chat : Accept(k, c)
    \/ \E k \in Key : Take(k) \/ WriteCopy(k)
    \/ Drop
    \/ \E S \in SUBSET Key : Settle(S)

ReceiptSpec == Init /\ [][Next]_<<receipt, held>>

=============================================================================

------------------------------ MODULE Gateway -------------------------------
(***************************************************************************)
(* The Hermes gateway behind its 386GPT channel, as the backend meets it:  *)
(* the record under each idempotency key and what may become of it.  Runs  *)
(* extends this module and relies on nothing else about a delivery;        *)
(* Channel, the model of the adapter's code, implements it.                *)
(***************************************************************************)
EXTENDS Naturals

CONSTANTS
    Thread,         \* conversations
    Body,           \* message bodies: input and skills
    Request,        \* idempotency keys, which are the ids of runs
    HermesStatus,   \* statuses the gateway reports
    MaxOutput       \* bound: versions of a reply (0 is the empty reply)

VARIABLE hermes     \* the gateway's deliveries by idempotency key

Active   == {"submitting", "queued", "running", "waiting_for_approval", "stopping"}
Terminal == {"completed", "failed", "cancelled", "interrupted"}
Output   == 0..MaxOutput

Delivery == [thread: Thread, body: Body, status: HermesStatus \cup {"queued", "interrupted", "failed"},
             output: Output, stop: BOOLEAN]
NoDelivery == [status |-> "none"]

Post == [id: Request, thread: Thread, body: Body]

GatewayInit == hermes = [q \in Request |-> NoDelivery]

Known(m)   == hermes[m.id] # NoDelivery
Matches(m) == hermes[m.id].thread = m.thread /\ hermes[m.id].body = m.body

\* A submission is accepted: a known key is answered from the record, a new
\* one gets a record.
Accept(m) ==
    \/ Known(m) /\ Matches(m) /\ UNCHANGED hermes
    \/ /\ ~Known(m)
       /\ hermes' = [hermes EXCEPT ![m.id] = [thread |-> m.thread, body |-> m.body,
                                              status |-> "queued", output |-> 0, stop |-> FALSE]]

\* It is refused: another message under the key, a busy conversation, a token
\* that is not accepted.  The backend cannot tell these apart, and relies on
\* none of them.
Refuse(m) == UNCHANGED hermes

AskStop(q) ==
    /\ hermes[q].status \in Active
    /\ hermes' = [hermes EXCEPT ![q].stop = TRUE]

Progress(q) ==
    /\ hermes[q].status \in Active
    /\ \E s \in HermesStatus \cap Active : hermes' = [hermes EXCEPT ![q].status = s]

Settle(q) ==
    /\ hermes[q].status \in Active
    /\ \E s \in HermesStatus \cap Terminal : hermes' = [hermes EXCEPT ![q].status = s]

\* Replies and edits may arrive after the turn has settled.
AddReply(q) ==
    /\ hermes[q] # NoDelivery /\ hermes[q].output < MaxOutput
    /\ hermes' = [hermes EXCEPT ![q].output = @ + 1]

\* A restart: what was active is interrupted, never executed again.
Interrupt ==
    hermes' = [q \in Request |-> IF hermes[q].status \in Active
                                 THEN [hermes[q] EXCEPT !.status = "interrupted"]
                                 ELSE hermes[q]]

\* The record is lost with the gateway's volume.
Forget(q) ==
    /\ hermes[q] # NoDelivery
    /\ hermes' = [hermes EXCEPT ![q] = NoDelivery]

\* A request that read the record while it was active writes its copy back, as
\* active or as failed, whatever has become of the record since.
Overwrite(q) ==
    /\ hermes[q] # NoDelivery
    /\ \E s \in (HermesStatus \cap Active) \cup {"queued", "failed"}, o \in Output :
          hermes' = [hermes EXCEPT ![q].status = s, ![q].output = o]

GatewayNext ==
    \/ \E m \in Post : Accept(m) \/ Refuse(m)
    \/ \E q \in Request : \/ AskStop(q) \/ Progress(q) \/ Settle(q) \/ AddReply(q)
                          \/ Forget(q) \/ Overwrite(q)
    \/ Interrupt

GatewaySpec == GatewayInit /\ [][GatewayNext]_hermes

=============================================================================

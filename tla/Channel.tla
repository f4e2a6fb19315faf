------------------------------- MODULE Channel -------------------------------
(***************************************************************************)
(* The 386GPT channel of the Hermes gateway:                               *)
(* src/deploy/hermes-gateway/386gpt-channel/adapter.py.                    *)
(*                                                                         *)
(* The adapter keeps one durable delivery per idempotency key and passes   *)
(* its message to the gateway's runner, which processes one turn at a time *)
(* per conversation and calls the hooks of the adapter.  Everything runs   *)
(* on one asyncio loop: code between two awaits is one step.  Two requests *)
(* write a record they read before an await: submit_message, whose message *)
(* is being handed to the runner, and control, which waits for the body of *)
(* its request.                                                            *)
(*                                                                         *)
(* The runner is external: BasePlatformAdapter.handle_message, the turn it *)
(* starts, the message it keeps pending while a turn runs, and the pending *)
(* approval of a turn.  Texts, session ids and pending_steer, which is     *)
(* only displayed, are left out.  The durable replies of a delivery are    *)
(* the ids of its messages.                                                *)
(***************************************************************************)
EXTENDS Naturals, FiniteSets

CONSTANTS
    Key,          \* idempotency keys
    Chat,         \* conversations
    Message,      \* platform message ids of replies, each sent once
    Request,      \* concurrent HTTP requests
    Controls,     \* kinds of control requests clients send
    MaxApproval,  \* bound: approvals asked for in a conversation
    Limits        \* bound: how often each event of Event may happen

Active   == {"queued", "running", "waiting_for_approval", "stopping"}
Terminal == {"completed", "failed", "cancelled", "interrupted"}

\* approval: an answer to an approval; steer: an update in plain text;
\* command: /stop, or an update that is a command.
ControlKind == {"approval", "steer", "command"}
Event       == {"crash", "control", "refuse"}

ASSUME ControlsAssumption == Controls \subseteq ControlKind
ASSUME MessageAssumption  == IsFiniteSet(Message)
ASSUME BoundAssumption    == MaxApproval \in Nat /\ Limits \in [Event -> Nat]

Approval == 0..MaxApproval      \* 0: none is pending

Delivery == [chat: Chat, seq: Nat, status: Active \cup Terminal,
             messages: SUBSET Message, approval: Approval]
NoDelivery == [status |-> "none"]

Idle == [pc |-> "idle"]
\* body: waits for the request body; hand: handle_message has been called.
RequestState == [pc: {"body", "hand"}, kind: ControlKind \cup {"submit"},
                 id: Key, copy: Delivery]

VARIABLES
    up,           \* the gateway process runs
    deliveries,   \* table deliveries
    nextRow,      \* its next rowid
    request,      \* locals of the HTTP requests
    turn,         \* the runner's turn of each conversation
    pending,      \* _pending_messages: a message waits for the turn to end
    approval,     \* the approval a turn waits for
    nextApproval, \* the next approval id of a conversation
    sent,         \* message ids already used
    handed,       \* history: how often the message of a key reached the runner
    revived,      \* history: keys a request made active again from its copy
    budget        \* events that may still happen

runner == <<turn, pending, approval, nextApproval>>
vars   == <<up, deliveries, nextRow, request, runner, sent, handed, revived, budget>>

IsActive(k)  == deliveries[k].status \in Active
IsSettled(k) == deliveries[k].status \in Terminal

\* _chat_run: the newest delivery of a conversation.
Newest(k) == \A j \in Key : (deliveries[j] # NoDelivery /\ deliveries[j].chat = deliveries[k].chat)
                              => deliveries[j].seq <= deliveries[k].seq
Latest(c) == {k \in Key : deliveries[k] # NoDelivery /\ deliveries[k].chat = c /\ Newest(k)}

Spend(kind) == budget[kind] > 0 /\ budget' = [budget EXCEPT ![kind] = @ - 1]

Init ==
    /\ up = TRUE
    /\ deliveries = [k \in Key |-> NoDelivery] /\ nextRow = 1
    /\ request = [h \in Request |-> Idle]
    /\ turn = [c \in Chat |-> "none"]
    /\ pending = [c \in Chat |-> FALSE]
    /\ approval = [c \in Chat |-> 0] /\ nextApproval = [c \in Chat |-> 1]
    /\ sent = {}
    /\ handed = [k \in Key |-> 0] /\ revived = {}
    /\ budget = Limits

----------------------------------------------------------------------------
(* submit_message *)

(* Definitions whose name ends in Variant are not part of the model: each is *)
(* what a mistake in the code it stands beside would make of it, and the     *)
(* properties are checked to tell it from the original.                      *)

KnownVariant(k) == IsActive(k)
Known(k) == deliveries[k] # NoDelivery

BusyVariant(c) == FALSE
Busy(c) == \E k \in Latest(c) : IsActive(k)

\* A known key is answered from its record, a busy conversation is refused;
\* neither changes anything.  A new delivery is stored before its message is
\* handed over.
Submit(h, k, c) ==
    LET d == [chat |-> c, seq |-> nextRow, status |-> "queued", messages |-> {}, approval |-> 0]
    IN /\ up /\ request[h] = Idle
       /\ ~Known(k) /\ ~Busy(c)
       /\ deliveries' = [deliveries EXCEPT ![k] = d]
       /\ nextRow' = nextRow + 1
       /\ request' = [request EXCEPT ![h] = [pc |-> "hand", kind |-> "submit", id |-> k, copy |-> d]]
       /\ UNCHANGED <<up, runner, sent, handed, revived, budget>>

\* The runner takes a message: it starts a turn, or keeps it for the next one.
Hand(c) ==
    /\ turn' = IF turn[c] = "none" THEN [turn EXCEPT ![c] = "admitted"] ELSE turn
    /\ pending' = IF turn[c] = "none" THEN pending ELSE [pending EXCEPT ![c] = TRUE]
    /\ UNCHANGED <<approval, nextApproval>>

Return(h) == request' = [request EXCEPT ![h] = Idle]

Admit(h) ==
    /\ request[h].pc = "hand" /\ request[h].kind = "submit"
    /\ Hand(request[h].copy.chat)
    /\ handed' = [handed EXCEPT ![request[h].id] = @ + 1]
    /\ Return(h)
    /\ UNCHANGED <<up, deliveries, nextRow, sent, revived, budget>>

\* handle_message raised or did not admit the message: the local record is
\* saved as failed.
Refuse(h) ==
    /\ request[h].pc = "hand" /\ request[h].kind = "submit" /\ Spend("refuse")
    /\ deliveries' = [deliveries EXCEPT ![request[h].id] = [request[h].copy EXCEPT !.status = "failed"]]
    /\ Return(h)
    /\ UNCHANGED <<up, nextRow, runner, sent, handed, revived>>

----------------------------------------------------------------------------
(* status and control *)

\* _refresh_approval
Refresh(d) ==
    IF approval[d.chat] # 0 /\ d.status \in Active
    THEN [d EXCEPT !.status = "waiting_for_approval", !.approval = approval[d.chat]]
    ELSE IF d.status = "waiting_for_approval"
         THEN [d EXCEPT !.status = "running", !.approval = 0]
         ELSE d

\* A status request, or the prompt for an approval (_send_exec_approval_prompt).
Status(k) ==
    /\ up /\ Known(k)
    /\ deliveries' = [deliveries EXCEPT ![k] = Refresh(@)]
    /\ UNCHANGED <<up, nextRow, request, runner, sent, handed, revived, budget>>

\* control reads the record, then awaits the request body.
ReadControl(h, k, kind) ==
    /\ up /\ request[h] = Idle /\ Spend("control")
    /\ IsActive(k)
    /\ request' = [request EXCEPT ![h] =
          [pc |-> "body", kind |-> kind, id |-> k, copy |-> Refresh(deliveries[k])]]
    /\ UNCHANGED <<up, deliveries, nextRow, runner, sent, handed, revived>>

\* The copy read before the await replaces the record.
SaveCopy(h, d) ==
    /\ deliveries' = [deliveries EXCEPT ![request[h].id] = d]
    /\ revived' = IF IsSettled(request[h].id) THEN revived \cup {request[h].id} ELSE revived

\* The answer must name the approval of the copy, and the approval must
\* still be the pending one.
Approve(h) ==
    LET d == request[h].copy
    IN /\ request[h].pc = "body" /\ request[h].kind = "approval"
       /\ d.approval # 0 /\ d.approval = approval[d.chat]
       /\ approval' = [approval EXCEPT ![d.chat] = 0]
       /\ SaveCopy(h, [d EXCEPT !.status = "running", !.approval = 0])
       /\ Return(h)
       /\ UNCHANGED <<up, nextRow, turn, pending, nextApproval, sent, handed, budget>>

\* An update in plain text is noted in the copy, which is saved, and then
\* handed over like any message.
Steer(h) ==
    /\ request[h].pc = "body" /\ request[h].kind = "steer"
    /\ SaveCopy(h, request[h].copy)
    /\ request' = [request EXCEPT ![h].pc = "hand"]
    /\ UNCHANGED <<up, nextRow, runner, sent, handed, budget>>

HandUpdate(h) ==
    /\ request[h].pc = "hand" /\ request[h].kind = "steer"
    /\ Hand(request[h].copy.chat)
    /\ Return(h)
    /\ UNCHANGED <<up, deliveries, nextRow, sent, handed, revived, budget>>

\* A command takes effect inside the running turn, or has a turn of its own.
HandCommand(h) ==
    LET c == request[h].copy.chat
    IN /\ request[h].pc = "body" /\ request[h].kind = "command"
       /\ turn' = IF turn[c] = "none" THEN [turn EXCEPT ![c] = "admitted"] ELSE turn
       /\ Return(h)
       /\ UNCHANGED <<up, deliveries, nextRow, pending, approval, nextApproval, sent,
                      handed, revived, budget>>

\* A control that is refused, or whose client goes away, before it is handed.
Abandon(h) ==
    /\ \/ request[h].pc = "body"
       \/ request[h].pc = "hand" /\ request[h].kind = "steer"
    /\ Return(h)
    /\ UNCHANGED <<up, deliveries, nextRow, runner, sent, handed, revived, budget>>

----------------------------------------------------------------------------
(* The runner and the hooks it calls *)

UpdateRun(S, status) ==
    deliveries' = [k \in Key |-> IF k \in S THEN [deliveries[k] EXCEPT !.status = status]
                                 ELSE deliveries[k]]

\* The delivery a hook may touch: the newest, if it is active.
HookRunVariant(c) == Latest(c)
HookRun(c) == {k \in Latest(c) : IsActive(k)}

\* on_processing_start
TurnStart(c) ==
    /\ up /\ turn[c] = "admitted"
    /\ turn' = [turn EXCEPT ![c] = "running"]
    /\ UpdateRun(HookRun(c), "running")
    /\ UNCHANGED <<up, nextRow, request, pending, approval, nextApproval, sent, handed,
                   revived, budget>>

StaysQueuedVariant(c) == TRUE
StaysQueued(c) == pending[c]

Outcome == {"success", "failure", "cancelled"}
StatusOf(outcome) ==
    [success |-> "completed", failure |-> "failed", cancelled |-> "cancelled"][outcome]

\* on_processing_complete: the delivery goes on as queued while a message
\* waits, otherwise it is settled by the outcome.
TurnEnd(c) ==
    /\ up /\ turn[c] = "running" /\ approval[c] = 0
    /\ turn' = [turn EXCEPT ![c] = "ending"]
    /\ IF StaysQueued(c)
       THEN UpdateRun(HookRun(c), "queued")
       ELSE \E outcome \in Outcome :
              deliveries' = [k \in Key |->
                  IF k \in HookRun(c)
                  THEN [deliveries[k] EXCEPT !.status = StatusOf(outcome), !.approval = 0]
                  ELSE deliveries[k]]
    /\ UNCHANGED <<up, nextRow, request, pending, approval, nextApproval, sent, handed,
                   revived, budget>>

\* The runner leaves the conversation, or goes on with the waiting message.
TurnNext(c) ==
    /\ up /\ turn[c] = "ending"
    /\ turn' = [turn EXCEPT ![c] = IF pending[c] THEN "admitted" ELSE "none"]
    /\ pending' = [pending EXCEPT ![c] = FALSE]
    /\ UNCHANGED <<up, deliveries, nextRow, request, approval, nextApproval, sent, handed,
                   revived, budget>>

\* A turn waits for an approval; it may give up waiting.
AskApproval(c) ==
    /\ up /\ turn[c] = "running" /\ approval[c] = 0 /\ nextApproval[c] <= MaxApproval
    /\ approval' = [approval EXCEPT ![c] = nextApproval[c]]
    /\ nextApproval' = [nextApproval EXCEPT ![c] = @ + 1]
    /\ UNCHANGED <<up, deliveries, nextRow, request, turn, pending, sent, handed, revived, budget>>

ExpireApproval(c) ==
    /\ up /\ approval[c] # 0
    /\ approval' = [approval EXCEPT ![c] = 0]
    /\ UNCHANGED <<up, deliveries, nextRow, request, turn, pending, nextApproval, sent, handed,
                   revived, budget>>

\* send and edit_message: a reply is stored with the newest delivery, settled
\* or not.
Send(c, m) ==
    /\ up /\ m \notin sent /\ Latest(c) # {}
    /\ sent' = sent \cup {m}
    /\ deliveries' = [k \in Key |-> IF k \in Latest(c)
                                    THEN [deliveries[k] EXCEPT !.messages = @ \cup {m}]
                                    ELSE deliveries[k]]
    /\ UNCHANGED <<up, nextRow, request, runner, handed, revived, budget>>

----------------------------------------------------------------------------
(* The process *)

Crash ==
    /\ up /\ Spend("crash")
    /\ up' = FALSE
    /\ request' = [h \in Request |-> Idle]
    /\ turn' = [c \in Chat |-> "none"]
    /\ pending' = [c \in Chat |-> FALSE]
    /\ approval' = [c \in Chat |-> 0]
    /\ UNCHANGED <<deliveries, nextRow, nextApproval, sent, handed, revived>>

\* __init__: what was active is interrupted, never executed again.
InterruptedVariant == {k \in Key : deliveries[k].status = "running"}
Interrupted == {k \in Key : IsActive(k)}

Boot ==
    /\ ~up /\ up' = TRUE
    /\ deliveries' = [k \in Key |->
          IF k \in Interrupted THEN [deliveries[k] EXCEPT !.status = "interrupted", !.approval = 0]
          ELSE deliveries[k]]
    /\ UNCHANGED <<nextRow, request, runner, sent, handed, revived, budget>>

----------------------------------------------------------------------------
RequestStep(h) ==
    \/ \E k \in Key, c \in Chat : Submit(h, k, c)
    \/ Admit(h) \/ Refuse(h)
    \/ \E k \in Key, kind \in Controls : ReadControl(h, k, kind)
    \/ Approve(h) \/ Steer(h) \/ HandUpdate(h) \/ HandCommand(h) \/ Abandon(h)

RunnerStep(c) ==
    \/ TurnStart(c) \/ TurnEnd(c) \/ TurnNext(c)
    \/ AskApproval(c) \/ ExpireApproval(c)
    \/ \E m \in Message : Send(c, m)

Next ==
    \/ \E h \in Request : RequestStep(h)
    \/ \E k \in Key : Status(k)
    \/ \E c \in Chat : RunnerStep(c)
    \/ Crash \/ Boot

Spec == Init /\ [][Next]_vars

\* The loop runs every task that is ready, the runner ends every turn, an
\* approval that nobody answers expires, and the gateway is started again.
Fairness ==
    /\ \A h \in Request : WF_vars(Admit(h)) /\ WF_vars(HandUpdate(h))
    /\ \A c \in Chat : /\ WF_vars(TurnStart(c)) /\ WF_vars(TurnEnd(c))
                       /\ WF_vars(TurnNext(c)) /\ WF_vars(ExpireApproval(c))
    /\ WF_vars(Boot)

FairSpec == Spec /\ Fairness

----------------------------------------------------------------------------
(* Properties *)

\* Every variable has the shape the table and the adapter's attributes give it.
TypeOK ==
    /\ up \in BOOLEAN
    /\ deliveries \in [Key -> Delivery \cup {NoDelivery}] /\ nextRow \in Nat
    /\ request \in [Request -> RequestState \cup {Idle}]
    /\ turn \in [Chat -> {"none", "admitted", "running", "ending"}]
    /\ pending \in [Chat -> BOOLEAN]
    /\ approval \in [Chat -> Approval] /\ nextApproval \in [Chat -> Nat]
    /\ sent \subseteq Message
    /\ handed \in [Key -> Nat] /\ revived \subseteq Key
    /\ budget \in [Event -> Nat]

\* However often a submission is repeated, before or after a restart, its
\* message reaches the runner at most once ("An accepted message is never
\* silently re-executed after gateway restart").
HandedOnce == \A k \in Key : handed[k] <= 1

\* Hooks and replies go to the newest delivery of a conversation; an active
\* delivery is that one, unless a control made an older one active again from
\* the copy it held.  In particular a conversation has one active delivery.
ActiveIsNewest == \A k \in Key : IsActive(k) /\ k \notin revived => Newest(k)

\* An active delivery is on its way to a hook that will move it on: its
\* message is being handed over, or the conversation has a turn that has not
\* had its last hook.  Otherwise it would block the conversation until the
\* gateway is restarted.
ActiveIsProcessed ==
    up => \A k \in Key : IsActive(k) /\ k \notin revived =>
        \/ \E h \in Request : request[h].pc = "hand" /\ request[h].kind = "submit" /\ request[h].id = k
        \/ turn[deliveries[k].chat] \in {"admitted", "running"}
        \/ turn[deliveries[k].chat] = "ending" /\ pending[deliveries[k].chat]

\* An accepted message is settled in the end, across refusals, updates,
\* approvals and restarts, unless a stale copy revived it.
AcceptedSettles ==
    \A k \in Key : IsActive(k) ~> ~IsActive(k) \/ k \in revived

\* A reply the channel has stored stays stored.  The code breaks this: control
\* saves the copy it read before it awaited the request body.
RepliesPersist ==
    [][\A k \in Key : Known(k) => deliveries[k].messages \subseteq deliveries'[k].messages]_vars

----------------------------------------------------------------------------
(* Refinement *)

Receipt(k) ==
    IF deliveries[k] = NoDelivery THEN [state |-> "absent"]
    ELSE [state |-> IF IsActive(k) THEN "open" ELSE deliveries[k].status,
          chat  |-> deliveries[k].chat]

\* Requests that may still write the record they hold.
Holds(h) == \/ request[h].pc = "body"
            \/ request[h].pc = "hand" /\ request[h].kind = "submit"

Held == {request[h].id : h \in {g \in Request : Holds(g)}}

Receipts == INSTANCE Receipts WITH receipt <- [k \in Key |-> Receipt(k)], held <- Held

\* A delivery is a receipt: it is final once no request that began while it
\* was open is still going on.
ImplementsReceipts == Receipts!ReceiptSpec

\* The record of a key as the backend meets it.  A version of the reply is a
\* number of messages; what was submitted goes by its conversation, and a
\* request to stop leaves no mark in the record.
Record(k) ==
    IF deliveries[k] = NoDelivery THEN NoDelivery
    ELSE [thread |-> deliveries[k].chat, body |-> "message", status |-> deliveries[k].status,
          output |-> Cardinality(deliveries[k].messages), stop |-> FALSE]

Gateway == INSTANCE Gateway WITH
    Thread <- Chat, Body <- {"message"}, Request <- Key, HermesStatus <- Active \cup Terminal,
    MaxOutput <- Cardinality(Message), hermes <- [k \in Key |-> Record(k)]

\* The channel is the gateway that Runs relies on.
ImplementsGateway == Gateway!GatewaySpec

=============================================================================

----------------------------- MODULE WebClient -----------------------------
(***************************************************************************)
(* The conversation view of the web client: frontend/src/App.tsx with the  *)
(* polling of useAgent.ts.  What the view holds is changed by the person,  *)
(* by answers to submissions, polls and the load of the transcript, and by *)
(* events of the socket, which arrive in any order.                        *)
(*                                                                         *)
(* A handler up to its next await, with the render and the effects it      *)
(* causes, is one action.  The backend is what Runs shows it to be: an id  *)
(* is reserved once, a conversation has one active run.                    *)
(***************************************************************************)
EXTENDS Integers, Sequences, FiniteSets

CONSTANTS
    Thread,         \* conversations
    Old,            \* those that exist at the beginning
    Nowhere,        \* the new chat
    MaxEntry,       \* bound: messages sent and conversations deleted, together
    MaxId,          \* bound: request ids drawn
    MaxVersion,     \* bound: versions of a reply
    MaxWire,        \* bound: socket events under way
    Scopes          \* bounds on the messages and deletions, the ids, the conversations
                    \*   created and the versions of all replies that one behaviour has

ASSUME ThreadAssumption == Old \subseteq Thread /\ Nowhere \notin Thread /\ IsFiniteSet(Thread)
ASSUME BoundAssumption ==
    /\ {MaxEntry, MaxId, MaxVersion, MaxWire} \subseteq Nat
    /\ Scopes \subseteq [entry: 0..MaxEntry, id: 0..MaxId, new: Nat, version: Nat]

\* Messages are numbered as they are typed, request ids as they are drawn.
Entry   == 1..MaxEntry
Id      == 1..MaxId
Version == 0..MaxVersion        \* 0: no output
None    == 0                    \* no draft, no id
Hidden  == -1                   \* as a version: not in the list

Place      == Thread \cup {Nowhere}
Submission == [id: Id, thread: Thread, entry: Entry]
Run        == [id: Id, thread: Thread, entry: Entry, v: Version, active: BOOLEAN]
Seen       == [id: Id, thread: Thread, v: Version, active: BOOLEAN]
Shown      == [v: Version, streaming: BOOLEAN]
NotShown   == [v |-> Hidden, streaming |-> FALSE]
Event      == [kind: {"message", "error"}, id: Id, v: Version, streaming: BOOLEAN]
Call       == [pc: {"create", "created", "post", "accepted", "refused"}, current: BOOLEAN,
               id: Id \cup {None}, thread: Place]
Idle       == [pc |-> "idle"]

VARIABLES
    threads,    \* backend: conversations that do not exist yet, exist, were deleted,
                \*   and were deleted with the view told so
    runs,       \* backend: its runs in the order of their rows
    activeId, sending, messages,    \* React state of App
    draft,      \* the text that a failure gave back, until it is sent
    pending,    \* pendingSubmission
    run,        \* agent.run
    call,       \* the sendMessage call of a message, between its awaits
    poll,       \* the answer to a refresh of useAgent that is not cancelled
    loading,    \* a request for the transcript that is not cancelled
    wire,       \* events the current socket has yet to deliver
    drawn,      \* ids drawn
    typed,      \* messages typed and sent
    scope,      \* the bounds of this behaviour
    moved,      \* history: an answer moved the view here from another conversation
    back,       \* history: the person came here when they had been told it is deleted
    late,       \* history: conversations deleted with an answer to a message to them
                \*   still on its way
    displaced   \* history: messages whose pending submission was replaced by that of
                \*   another, or cleared when another was accepted

backend == <<threads, runs>>
inbound == <<poll, loading, wire>>
history == <<moved, back, late, displaced, scope>>
vars    == <<backend, activeId, draft, sending, messages, pending, run, call, inbound,
             drawn, typed, history>>

Init ==
    /\ scope \in Scopes
    /\ threads = [t \in Thread |-> IF t \in Old THEN "kept" ELSE "none"] /\ runs = <<>>
    /\ activeId = Nowhere /\ draft = None /\ sending = FALSE
    /\ messages = [q \in Id |-> NotShown]
    /\ pending = Idle /\ run = Idle
    /\ call = [e \in Entry |-> Idle]
    /\ poll = Idle /\ loading = FALSE /\ wire = <<>>
    /\ drawn = 0
    /\ typed = 0
    /\ moved = FALSE /\ back = FALSE /\ late = {} /\ displaced = {}

----------------------------------------------------------------------------
(* The backend *)

(* Definitions whose name ends in Variant are not part of the model: each is *)
(* what a mistake in the code it stands beside would make of it, and the     *)
(* properties are checked to tell it from the original.                      *)

Exists(t)    == threads[t] = "kept"
Spent        == typed + Cardinality({t \in Thread : threads[t] \in {"deleted", "told"}})
Versions     == Cardinality({iv \in (DOMAIN runs) \X (1..MaxVersion) : iv[2] <= runs[iv[1]].v})
RunsOf(t)    == {i \in DOMAIN runs : runs[i].thread = t}
Latest(t)    == CHOOSE i \in RunsOf(t) : \A j \in RunsOf(t) : j <= i
HasActive(t) == \E i \in RunsOf(t) : runs[i].active
ThreadOf(q)  == runs[CHOOSE i \in DOMAIN runs : runs[i].id = q].thread

NewRun(q, t, e) == [id |-> q, thread |-> t, entry |-> e, v |-> 0, active |-> TRUE]

\* The hub sends to sockets of the conversation; any event, of two at most, may
\* be missed.
Broadcast(t, news) ==
    \E part \in {<<>>, news} \cup {<<news[i]>> : i \in DOMAIN news} :
        /\ part # <<>> => t = activeId /\ Len(wire) + Len(part) <= MaxWire
        /\ wire' = wire \o part

MessageOf(i, v, streaming) == [kind |-> "message", id |-> runs[i].id, v |-> v, streaming |-> streaming]
ErrorOf(i)                 == [kind |-> "error", id |-> runs[i].id, v |-> 0, streaming |-> FALSE]

\* A run gets further: text arrives, the run ends, and a reply may still come
\* afterwards, which nobody announces.
Stream(i) ==
    /\ runs[i].active /\ runs[i].v < MaxVersion /\ Versions < scope.version
    /\ runs' = [runs EXCEPT ![i].v = @ + 1]
    /\ Broadcast(runs[i].thread, <<MessageOf(i, runs[i].v + 1, TRUE)>>)
Settle(i) ==
    /\ runs[i].active
    /\ runs' = [runs EXCEPT ![i].active = FALSE]
    /\ LET final == IF runs[i].v > 0 THEN <<MessageOf(i, runs[i].v, FALSE)>> ELSE <<>>
       IN \E error \in {<<>>, <<ErrorOf(i)>>} : Broadcast(runs[i].thread, final \o error)
LateReply(i) ==
    /\ Exists(runs[i].thread) /\ i = Latest(runs[i].thread) /\ ~runs[i].active
    /\ runs[i].v < MaxVersion /\ Versions < scope.version
    /\ runs' = [runs EXCEPT ![i].v = @ + 1]
    /\ UNCHANGED wire

Proceed(i) ==
    /\ Stream(i) \/ Settle(i) \/ LateReply(i)
    /\ UNCHANGED <<threads, activeId, draft, sending, messages, pending, run, call,
                   poll, loading, drawn, typed, history>>

----------------------------------------------------------------------------
(* The list of messages *)

\* upsertMessage
UpsertVariant(list, q, m) == [list EXCEPT ![q] = m]
Upsert(list, q, m) ==
    IF m.streaming /\ list[q] # NotShown /\ (~list[q].streaming \/ list[q].v > m.v)
    THEN list ELSE [list EXCEPT ![q] = m]

\* mergeThreadMessages: what is shown already goes before what was stored.
Merge(list, rows, t) ==
    [q \in Id |-> CASE list[q] # NotShown /\ ThreadOf(q) = t -> list[q]
                    [] rows[q] # Hidden -> [v |-> rows[q], streaming |-> FALSE]
                    [] OTHER -> NotShown]

\* Another conversation is current: the effects cancel the poll and the load,
\* the socket is replaced, and the new ones begin.
SwitchVariant(t) ==
    /\ run' = Idle /\ UNCHANGED poll
    /\ loading' = (t # Nowhere) /\ wire' = <<>>
Switch(t) ==
    /\ run' = Idle /\ poll' = Idle
    /\ loading' = (t # Nowhere) /\ wire' = <<>>

SetActive(t) ==
    /\ activeId' = t
    /\ IF t = activeId THEN UNCHANGED <<run, inbound>> ELSE Switch(t)

\* activateConversation
Activate(t) ==
    /\ SetActive(t)
    /\ draft' = None /\ sending' = FALSE /\ pending' = Idle
    /\ messages' = [q \in Id |-> NotShown]
    /\ call' = [e \in Entry |-> IF call[e] = Idle THEN Idle ELSE [call[e] EXCEPT !.current = FALSE]]
    /\ moved' = FALSE /\ back' = (t # Nowhere /\ threads[t] = "told")
    /\ UNCHANGED <<runs, drawn, typed, displaced, scope>>

Open(t) == Activate(t) /\ UNCHANGED <<threads, late>>

\* The list of conversations has what the view has not been told is deleted; a
\* new one enters it when the answer to its creation is there (or was lost).
Listed(t) ==
    /\ threads[t] \in {"kept", "deleted"}
    /\ \A e \in Entry : call[e].pc = "created" => call[e].thread # t

NewChat         == Open(Nowhere)
SelectThread(t) == t # activeId /\ Listed(t) /\ Open(t)

\* Back also leads to conversations that are no longer in the list.
Back(t) == t # activeId /\ threads[t] = "told" /\ Open(t)

\* deleteThread: the backend deletes a conversation of the list that has no
\* active run.  The answer may be lost; if it arrives and the address still
\* names the conversation, the view leaves it for the new chat.
Delete(t) ==
    /\ Listed(t) /\ Exists(t) /\ ~HasActive(t) /\ Spent < scope.entry
    /\ threads' = [threads EXCEPT ![t] = "deleted"]
    /\ UNCHANGED <<runs, activeId, draft, sending, messages, pending, run, call, inbound,
                   drawn, typed, history>>

StillThereVariant(t) == activeId = t /\ ~sending
StillThere(t) == activeId = t   \* the address and activeId change together

Deleted(t) ==
    /\ threads[t] = "deleted" /\ threads' = [threads EXCEPT ![t] = "told"]
    /\ late' = late \cup {u \in {t} : \E e \in Entry : call[e].pc = "accepted" /\ call[e].thread = u}
    /\ IF StillThere(t)
       THEN Activate(Nowhere)
       ELSE UNCHANGED <<runs, activeId, draft, sending, messages, pending, run, call,
                        inbound, drawn, typed, moved, back, displaced, scope>>

----------------------------------------------------------------------------
(* sendMessage *)

IsActive(r) == r # Idle /\ r.active

\* The form is submitted, or Enter pressed, with the text that a failure gave
\* back or with another: typing shows nowhere before.
CanSend(e) ==
    /\ ~sending \/ IsActive(run)
    /\ IF e = draft THEN draft # None ELSE e = typed + 1 /\ Spent < scope.entry

\* During a run the text is an update to it, which clears the draft when it
\* is answered.
Steer ==
    /\ CanSend(draft) /\ IsActive(run) /\ draft' = None
    /\ UNCHANGED <<backend, activeId, sending, messages, pending, run, call, inbound, drawn, typed, history>>

\* The one pending submission is kept for a retry of its message, until that
\* of another replaces it or any is accepted.
Displace(e) == displaced' = displaced \cup (IF pending = Idle THEN {} ELSE {pending.entry} \ {e})

SameVariant(t, e) == FALSE
Same(t, e) == pending # Idle /\ pending.thread = t /\ pending.entry = e

Submit(t, e) ==
    /\ Displace(e)
    /\ IF Same(t, e) THEN UNCHANGED <<pending, drawn>>
       ELSE /\ drawn < scope.id
            /\ pending' = [id |-> drawn + 1, thread |-> t, entry |-> e]
            /\ drawn' = drawn + 1
    /\ call' = [call EXCEPT ![e] = [pc |-> "post", current |-> TRUE, id |-> pending'.id, thread |-> t]]

SendMessage(e) ==
    /\ CanSend(e) /\ ~IsActive(run)
    /\ sending' = TRUE /\ draft' = None
    /\ typed' = IF e = draft THEN typed ELSE e
    /\ IF activeId = Nowhere
       THEN /\ call' = [call EXCEPT ![e] = [pc |-> "create", current |-> TRUE, id |-> None, thread |-> Nowhere]]
            /\ UNCHANGED <<pending, drawn, displaced>>
       ELSE Submit(activeId, e)
    /\ UNCHANGED <<backend, activeId, messages, run, inbound, moved, back, late, scope>>

Goto(e, pc) == call' = [call EXCEPT ![e].pc = pc]
End(e)      == call' = [call EXCEPT ![e] = Idle]

\* The backend handles a request.
CreateThread(e) ==
    /\ call[e].pc = "create"
    /\ Cardinality({t \in Thread \ Old : threads[t] # "none"}) < scope.new
    /\ \E t \in Thread :
          /\ threads[t] = "none" /\ threads' = [threads EXCEPT ![t] = "kept"]
          /\ call' = [call EXCEPT ![e].pc = "created", ![e].thread = t]
    /\ UNCHANGED runs

CreateRun(e) ==
    LET m == call[e]
    IN /\ m.pc = "post" /\ UNCHANGED threads
       /\ CASE Exists(m.thread) /\ (\E i \in DOMAIN runs : runs[i].id = m.id) -> Goto(e, "accepted") /\ UNCHANGED runs
            [] ~Exists(m.thread) \/ HasActive(m.thread) -> Goto(e, "refused") /\ UNCHANGED runs
            [] OTHER -> Goto(e, "accepted") /\ runs' = Append(runs, NewRun(m.id, m.thread, e))

Handle(e) ==
    /\ CreateThread(e) \/ CreateRun(e)
    /\ UNCHANGED <<activeId, draft, sending, messages, pending, run, inbound,
                   drawn, typed, history>>

Created(e) ==
    LET m == call[e]
    IN /\ m.pc = "created"
       /\ IF ~m.current
          THEN End(e) /\ UNCHANGED <<activeId, messages, pending, run, inbound, drawn, displaced>>
          ELSE /\ SetActive(m.thread) /\ messages' = [q \in Id |-> NotShown]
               /\ Submit(m.thread, e)
       /\ UNCHANGED <<backend, draft, sending, typed, moved, back, late, scope>>

\* Whatever the person has opened since, the conversation becomes current.
Accepted(e) ==
    LET m == call[e]
    IN /\ m.pc = "accepted"
       /\ pending' = Idle /\ Displace(e) /\ SetActive(m.thread) /\ End(e)
       /\ moved' = (moved \/ m.thread # activeId)
       /\ back' = (back /\ m.thread = activeId)
       /\ UNCHANGED <<backend, draft, sending, messages, drawn, typed, late, scope>>

\* The request was refused, or it or its answer is lost.
Failed(e) ==
    /\ call[e] # Idle
    /\ IF call[e].current THEN draft' = e /\ sending' = FALSE ELSE UNCHANGED <<draft, sending>>
    /\ End(e)
    /\ UNCHANGED <<backend, activeId, messages, pending, run, inbound, drawn, typed, history>>

----------------------------------------------------------------------------
(* Polls, the transcript, the socket *)

SeenRunVariant(t) ==
    IF RunsOf(t) = {} THEN Idle
    ELSE LET r == runs[CHOOSE i \in RunsOf(t) : \A j \in RunsOf(t) : i <= j]
         IN [id |-> r.id, thread |-> t, v |-> r.v, active |-> r.active]
SeenRun(t) ==
    IF RunsOf(t) = {} THEN Idle
    ELSE LET r == runs[Latest(t)]
         IN [id |-> r.id, thread |-> t, v |-> r.v, active |-> r.active]

\* refresh asks, and the backend reads the run.
Poll ==
    /\ activeId # Nowhere /\ poll = Idle /\ Exists(activeId)
    /\ poll' = [pc |-> "answered", run |-> SeenRun(activeId)]
    /\ UNCHANGED <<backend, activeId, draft, sending, messages, pending, run, call,
                   loading, wire, drawn, typed, history>>

\* Any request of it may fail; a conversation that is deleted has no answers.
PollFails ==
    /\ poll # Idle /\ poll' = Idle
    /\ UNCHANGED <<backend, activeId, draft, sending, messages, pending, run, call,
                   loading, wire, drawn, typed, history>>

\* setRun, and the effect that follows it.
StillSendingVariant(r) == sending \/ r.active
StillSending(r) == r.active

ApplyPoll ==
    /\ poll # Idle /\ poll' = Idle
    /\ LET r == poll.run
       IN /\ run' = r
          /\ IF r = Idle \/ (r # Idle /\ r.thread # activeId)
             THEN UNCHANGED <<sending, messages>>
             ELSE /\ sending' = StillSending(r)
                  /\ messages' = IF r.v = 0 THEN messages
                                 ELSE Upsert(messages, r.id, [v |-> r.v, streaming |-> r.active])
    /\ UNCHANGED <<backend, activeId, draft, pending, call, loading, wire,
                   drawn, typed, history>>

\* Rows the backend may have answered with since it was asked.
Rows(t) ==
    {rows \in [Id -> {Hidden} \cup (Version \ {0})] : \A q \in Id : rows[q] # Hidden =>
        \E i \in RunsOf(t) : runs[i].id = q /\ ~runs[i].active /\ rows[q] <= runs[i].v}

Load ==
    /\ loading /\ loading' = FALSE
    /\ \/ UNCHANGED messages
       \/ \E rows \in Rows(activeId) : messages' = Merge(messages, rows, activeId)
    /\ UNCHANGED <<backend, activeId, draft, sending, pending, run, call, poll, wire,
                   drawn, typed, history>>

\* applySocketEvent
Deliver ==
    /\ wire # <<>> /\ wire' = Tail(wire)
    /\ LET e == Head(wire)
       IN IF e.kind = "error"
          THEN /\ messages' = [q \in Id |-> [messages[q] EXCEPT !.streaming = FALSE]]
               /\ sending' = FALSE
          ELSE /\ messages' = Upsert(messages, e.id, [v |-> e.v, streaming |-> e.streaming])
               /\ sending' = (sending /\ e.streaming)
    /\ UNCHANGED <<backend, activeId, draft, pending, run, call, poll, loading, drawn,
                   typed, history>>

----------------------------------------------------------------------------
Answer(e) == Created(e) \/ Accepted(e) \/ Failed(e)

Next ==
    \/ \E i \in DOMAIN runs : Proceed(i)
    \/ NewChat
    \/ \E t \in Thread : SelectThread(t) \/ Back(t) \/ Delete(t) \/ Deleted(t)
    \/ Steer
    \/ \E e \in Entry : SendMessage(e) \/ Handle(e) \/ Answer(e)
    \/ Poll \/ PollFails \/ ApplyPoll \/ Load \/ Deliver

Spec == Init /\ [][Next]_vars

\* A request is answered or given up; the interval asks every two seconds, and
\* a backend that is asked again and again answers at some point; the socket
\* delivers what it has.
Fairness ==
    /\ \A e \in Entry : WF_vars(Answer(e))
    /\ WF_vars(Poll) /\ SF_vars(ApplyPoll)
    /\ WF_vars(Deliver)

FairSpec == Spec /\ Fairness

----------------------------------------------------------------------------
(* Properties *)

\* What the view and the requests hold has its type.
TypeOK ==
    /\ threads \in [Thread -> {"none", "kept", "deleted", "told"}]
    /\ runs \in Seq(Run)
    /\ activeId \in Place /\ draft \in Entry \cup {None} /\ sending \in BOOLEAN
    /\ messages \in [Id -> Shown \cup {NotShown}]
    /\ pending \in Submission \cup {Idle} /\ run \in Seen \cup {Idle}
    /\ call \in [Entry -> Call \cup {Idle}]
    /\ poll \in [pc: {"answered"}, run: Seen \cup {Idle}] \cup {Idle}
    /\ loading \in BOOLEAN
    /\ wire \in Seq(Event) /\ Len(wire) <= MaxWire
    /\ drawn \in 0..MaxId
    /\ typed \in 0..MaxEntry /\ scope \in Scopes
    /\ moved \in BOOLEAN /\ back \in BOOLEAN /\ late \subseteq Thread /\ displaced \subseteq Entry

\* A message that is retried, as often as its submission seems to fail and
\* wherever the person goes meanwhile, runs once ("idempotent submission
\* retry"), but for one whose pending submission another message displaced.
RetryIsSame ==
    \A i, j \in DOMAIN runs : runs[i].entry = runs[j].entry => i = j \/ runs[i].entry \in displaced

\* The same of every message, as agent-ui.test.mjs:100 asserts it of a retry.
RunsOnce == \A i, j \in DOMAIN runs : runs[i].entry = runs[j].entry => i = j

\* The view shows messages and controls a run of the open conversation only,
\* whatever was under way when it was opened.  When an answer has moved the
\* view, the messages of the conversation it was moved from are still there.
OneConversation ==
    /\ run # Idle => run.thread = activeId
    /\ ~moved => \A q \in Id : messages[q] # NotShown => ThreadOf(q) = activeId

\* A conversation the person was told is deleted is not left open, whatever
\* was under way in it, unless they went back to it, or deleted it when a
\* message to it was accepted but not answered: that answer opens it again.
DeletedIsLeft == activeId # Nowhere /\ threads[activeId] = "told" => back \/ activeId \in late

\* While a conversation is open, a complete reply does not become a fragment
\* again, in whatever order polls and events arrive.
CompleteStays ==
    [][\A q \in Id : messages[q] # NotShown /\ ~messages[q].streaming
          => messages'[q] = NotShown \/ ~messages'[q].streaming]_vars

IsReply(t) ==
    /\ t = activeId /\ Exists(t) /\ RunsOf(t) # {}
    /\ ~runs[Latest(t)].active /\ runs[Latest(t)].v > 0

Displays(r) == messages[r.id] = [v |-> r.v, streaming |-> FALSE]

\* The latest reply of the open conversation is shown in full at some point,
\* whatever events were missed, and each version of it that comes later.
ReplyIsShown == \A t \in Thread : IsReply(t) ~> ~IsReply(t) \/ Displays(runs[Latest(t)])

\* The composer is free again at some point unless a run is going on; in a
\* conversation that was deleted behind the view nothing may come that frees it.
ComposerUnlocks == sending ~> ~sending \/ IsActive(run) \/ (activeId # Nowhere /\ ~Exists(activeId))

=============================================================================

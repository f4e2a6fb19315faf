-------------------------------- MODULE Runs --------------------------------
(***************************************************************************)
(* Durable agent runs of the 386GPT backend: src/backend/runs.go, the run  *)
(* store behind it (runs_store.go, store.go) and the HTTP handlers that    *)
(* touch a run (agent_http.go, http.go).                                   *)
(*                                                                         *)
(* A request handler reserves a run row and starts one follower (a         *)
(* goroutine) for it; the follower submits the saved body to the Hermes    *)
(* gateway under the run's id until the gateway accepts it, then polls it  *)
(* to a terminal status.  SQLite has one connection                        *)
(* (SetMaxOpenConns(1)), so a statement or a transaction is one step;      *)
(* every call of the gateway and every other gap between two store calls   *)
(* is a place where the other processes run, the process may crash or the  *)
(* server may be closed.                                                   *)
(*                                                                         *)
(* The gateway is the module Gateway, whose deliveries Runs shares: a      *)
(* conversation of Thread exists before the model starts, a body of Body   *)
(* is compared on a replay, and a run's id is the request id its client    *)
(* chose and the idempotency key of its delivery.                          *)
(***************************************************************************)
EXTENDS Gateway, FiniteSets

CONSTANTS
    Handler,        \* concurrent HTTP handlers
    Follower,       \* goroutines that may follow a run at the same time
    Configurations, \* sets of conversations whose runtime may be configured
    Streaming,      \* whether the gateway's live stream carries events
    MaxSession,     \* bound: sessions of a conversation (0 is the app's own)
    Limits          \* bound: how often each event of Fault may happen

\* close: the server is closed; crash: the process dies; storeError: a saveRun
\* or a read of the run table fails where the code goes on without an error
\* reply; latePost: a submission outlives the server's wait for its answer;
\* restart: the gateway restarts; forget: the gateway loses a delivery record;
\* rewrite: a request to the gateway writes an old copy of a record back.
Fault == {"close", "crash", "storeError", "latePost", "restart", "forget", "rewrite"}

ASSUME StatusAssumption == HermesStatus \subseteq (Active \cup Terminal) \ {"submitting"}
ASSUME BoundAssumption ==
    /\ Streaming \in BOOLEAN /\ MaxOutput \in Nat /\ MaxSession \in Nat \ {0}
    /\ Limits \in [Fault -> Nat]
    /\ Configurations \subseteq SUBSET Thread

Session == 0..MaxSession

\* A row of table runs with its JSON snapshot; seq stands for the rowid.
Run == [thread: Thread, body: Body, seq: Nat, status: Active \cup Terminal,
        accepted: BOOLEAN, session: Session, output: Output]
NoRun == [status |-> "none"]

Idle == [pc |-> "idle"]
HandlerState == [pc: {"checked", "reserve", "watch", "locked", "stop", "fetch", "refresh"},
                 id: Request, thread: Thread, body: Body, session: Session, output: Output]
FollowerState == [pc: {"load", "accept", "posting", "poll", "get", "save", "exit"},
                  id: Request, run: Run \cup {NoRun}, stopSent: BOOLEAN]

VARIABLES
    threads,     \* rows of table threads
    session,     \* thread_agents.session_id (meaningless once the thread is gone)
    runs,        \* rows of table runs
    nextRow,     \* the next rowid of table runs
    asked,       \* ids of runs whose "-user" message is in table messages
    replies,     \* content of the "-assistant" messages, 0 when there is none
    stopKeys,    \* agent_events with source key "stop:" and the run id
    stoppedKeys, \* agent_events with source key "stopped:" and the run id
    phase,       \* life of the server process
    configured,  \* conversations whose runtime the running server knows
    workers,     \* the map s.workers
    runMu,       \* the handler inside watch with s.runMu held, as a set
    recovering,  \* runs recoverRuns has still to watch
    handler,     \* locals of the HTTP handlers
    follower,    \* locals of the followRun goroutines
    chatSession, \* the gateway's live session of each conversation
    posts,       \* submissions the server gave up on, still on their way
    stranded,    \* history: runs left by a failing store, not watched since
    retired,     \* history: ids whose run was deleted with its conversation
    budget       \* faults that may still happen

storeVars   == <<threads, session, runs, nextRow, asked, replies, stopKeys, stoppedKeys>>
serverVars  == <<phase, configured, workers, runMu, recovering>>
gatewayVars == <<hermes, chatSession, posts>>
vars == <<storeVars, serverVars, handler, follower, gatewayVars, stranded, retired, budget>>

IsActive(q)   == runs[q].status \in Active
IsTerminal(q) == runs[q].status \in Terminal

\* The context s.ctx is not cancelled.
Running == phase \in {"booting", "up"}

Spend(kind) == budget[kind] > 0 /\ budget' = [budget EXCEPT ![kind] = @ - 1]

Init ==
    /\ threads = Thread
    /\ session = [t \in Thread |-> 0]
    /\ runs = [q \in Request |-> NoRun]
    /\ nextRow = 1
    /\ asked = {}
    /\ replies = [q \in Request |-> 0]
    /\ stopKeys = {} /\ stoppedKeys = {}
    /\ phase = "up"
    /\ configured \in Configurations
    /\ workers = {} /\ runMu = {} /\ recovering = {}
    /\ handler = [h \in Handler |-> Idle]
    /\ follower = [f \in Follower |-> Idle]
    /\ GatewayInit
    /\ chatSession = [t \in Thread |-> 1]
    /\ posts = {}
    /\ stranded = {} /\ retired = {}
    /\ budget = Limits

----------------------------------------------------------------------------
(* The store *)

(* Definitions whose name ends in Variant are not part of the model: each is *)
(* what a mistake in the code it stands beside would make of it, and the     *)
(* properties are checked to tell it from the original.                      *)

BusyVariant(t) == FALSE
Busy(t) == \E q \in Request : IsActive(q) /\ runs[q].thread = t

\* The foreign keys of runs, messages and agent_events.
ExistsVariant(t) == TRUE
Exists(t) == t \in threads

SaveRunVariant(q, r) ==
    IF runs[q] = NoRun THEN UNCHANGED <<runs, replies, session>>
    ELSE /\ runs' = [runs EXCEPT ![q] = r]
         /\ replies' = IF r.output = 0 THEN replies ELSE [replies EXCEPT ![q] = r.output]
         /\ session' = [session EXCEPT ![r.thread] = r.session]

\* saveRun: the snapshot, the final reply and the conversation's session in
\* one transaction.  Updating a row that is gone changes nothing.
SaveRun(q, r) ==
    IF runs[q] = NoRun THEN UNCHANGED <<runs, replies, session>>
    ELSE /\ runs' = [runs EXCEPT ![q] = r]
         /\ replies' = IF r.status \in Active \/ r.output = 0 THEN replies
                       ELSE [replies EXCEPT ![q] = r.output]
         /\ session' = [session EXCEPT ![r.thread] = r.session]

\* publishRun by follower f, which goes on at pc.  A failing save is only
\* logged; it strands the run when the follower was about to leave.
Publish(f, r, pc) ==
    /\ follower' = [follower EXCEPT ![f].run = r, ![f].pc = pc]
    /\ \/ SaveRun(follower[f].id, r) /\ UNCHANGED <<budget, stranded>>
       \/ /\ Spend("storeError")
          /\ stranded' = IF pc = "exit" THEN stranded \cup {follower[f].id} ELSE stranded
          /\ UNCHANGED <<runs, replies, session>>
    /\ UNCHANGED <<threads, nextRow, asked, stopKeys, stoppedKeys>>

----------------------------------------------------------------------------
(* submit: validate, check for a replay, read the session, reserve, watch *)

Goto(h, pc) == handler' = [handler EXCEPT ![h].pc = pc]
Return(h)   == handler' = [handler EXCEPT ![h] = Idle]
OnlyHandler == UNCHANGED <<storeVars, serverVars, follower, gatewayVars, stranded, retired, budget>>

SameSubmission(q, t, b) == runs[q].thread = t /\ runs[q].body = b

\* A request id that is already in use for the same input goes straight to
\* watch; a new one needs a conversation with a configured runtime.  Every
\* other case is an error reply that changes nothing.
BeginSubmit(h, q, t, b) ==
    /\ phase = "up" /\ handler[h] = Idle
    /\ \/ runs[q] # NoRun /\ SameSubmission(q, t, b)
       \/ runs[q] = NoRun /\ t \in threads /\ t \in configured
    /\ handler' = [handler EXCEPT ![h] =
          [pc |-> IF runs[q] = NoRun THEN "checked" ELSE "watch",
           id |-> q, thread |-> t, body |-> b, session |-> 0, output |-> 0]]
    /\ OnlyHandler

\* sessionID, after the gateway has answered the capability requests.
ReadSession(h) ==
    /\ handler[h].pc = "checked" /\ phase # "closed"
    /\ IF Exists(handler[h].thread)
       THEN handler' = [handler EXCEPT ![h].session = session[handler[h].thread],
                                       ![h].pc = "reserve"]
       ELSE Return(h)
    /\ OnlyHandler

NewRun(t, b, s) ==
    [thread |-> t, body |-> b, seq |-> nextRow, status |-> "submitting",
     accepted |-> FALSE, session |-> s, output |-> 0]

\* reserveRun: replay, conflict, busy, or the run and its user message.  The
\* foreign key refuses a conversation that has been deleted meanwhile.
ReserveRun(h) ==
    LET q == handler[h].id
        t == handler[h].thread
        b == handler[h].body
    IN /\ handler[h].pc = "reserve" /\ phase # "closed"
       /\ \/ /\ runs[q] # NoRun
             /\ IF SameSubmission(q, t, b) THEN Goto(h, "watch") ELSE Return(h)
             /\ UNCHANGED storeVars
          \/ /\ runs[q] = NoRun
             /\ Busy(t) \/ ~Exists(t)
             /\ Return(h) /\ UNCHANGED storeVars
          \/ /\ runs[q] = NoRun /\ ~Busy(t) /\ Exists(t)
             /\ runs' = [runs EXCEPT ![q] = NewRun(t, b, handler[h].session)]
             /\ nextRow' = nextRow + 1
             /\ asked' = asked \cup {q}
             /\ Goto(h, "watch")
             /\ UNCHANGED <<threads, session, replies, stopKeys, stoppedKeys>>
       /\ UNCHANGED <<serverVars, follower, gatewayVars, stranded, retired, budget>>

WatchRefusedVariant(q) == ~Running
WatchRefused(q) == q \in workers \/ ~Running

\* watch takes s.runMu and returns if the run has a worker or the server is
\* being closed; nothing else happens to the map while the lock is held.
WatchLock(h) ==
    /\ handler[h].pc = "watch" /\ runMu = {}
    /\ IF WatchRefused(handler[h].id)
       THEN Return(h) /\ runMu' = runMu
       ELSE Goto(h, "locked") /\ runMu' = {h}
    /\ UNCHANGED <<storeVars, phase, configured, workers, recovering, follower,
                   gatewayVars, stranded, retired, budget>>

StartFollower(f, q) ==
    /\ follower[f] = Idle
    /\ follower' = [follower EXCEPT ![f] = [pc |-> "load", id |-> q, run |-> NoRun, stopSent |-> FALSE]]
    /\ workers' = workers \cup {q}
    /\ stranded' = stranded \ {q}

WatchStart(h, f) ==
    /\ handler[h].pc = "locked"
    /\ StartFollower(f, handler[h].id)
    /\ runMu' = {}
    /\ Return(h)
    /\ UNCHANGED <<storeVars, phase, configured, recovering, gatewayVars, retired, budget>>

\* A gateway or store error, or a client that goes away, ends a handler
\* before its write.
Abandon(h) ==
    /\ handler[h].pc \in {"checked", "reserve", "stop", "fetch", "refresh"}
    /\ Return(h)
    /\ OnlyHandler

----------------------------------------------------------------------------
(* followRun *)

OnlyFollower == UNCHANGED <<serverVars, handler, gatewayVars, retired>>
Move(f, pc)  == /\ follower' = [follower EXCEPT ![f].pc = pc]
                /\ UNCHANGED <<storeVars, stranded, budget>>

ResumeAtVariant(r) == "accept"
ResumeAt(r) == IF r.accepted THEN "poll" ELSE "accept"

\* The first read of the run fails: the goroutine leaves, whatever the run is.
LoadFails(f) ==
    /\ Spend("storeError")
    /\ follower' = [follower EXCEPT ![f].pc = "exit"]
    /\ stranded' = stranded \cup {follower[f].id}
    /\ UNCHANGED storeVars

\* The run as stored decides where the follower starts: an accepted run is
\* never submitted again.
FollowLoad(f) ==
    LET r == runs[follower[f].id]
    IN /\ follower[f].pc = "load"
       /\ \/ LoadFails(f)
          \/ /\ r.status \notin Active
             /\ Move(f, "exit")
          \/ /\ r.status \in Active /\ r.thread \notin configured
             /\ Publish(f, [r EXCEPT !.status = "interrupted"], "exit")
          \/ /\ r.status \in Active /\ r.thread \in configured
             /\ follower' = [follower EXCEPT ![f].run = r, ![f].pc = ResumeAt(r)]
             /\ UNCHANGED <<storeVars, stranded, budget>>
       /\ OnlyFollower

\* s.ctx is done at one of the points where the follower looks at it.
FollowCancelled(f) ==
    /\ follower[f].pc \in {"accept", "poll"} /\ ~Running
    /\ Move(f, "exit")
    /\ OnlyFollower

\* 23 hours after its creation an unaccepted run is given up.  The clock is
\* not modelled: the window may have ended whenever the follower looks.
ExpireWindow(f) ==
    /\ follower[f].pc = "accept" /\ Running
    /\ Publish(f, [follower[f].run EXCEPT !.status = "interrupted"], "exit")
    /\ OnlyFollower

SendPost(f) ==
    /\ follower[f].pc = "accept" /\ Running
    /\ Move(f, "posting")
    /\ OnlyFollower

PostOf(f) == [id |-> follower[f].id, thread |-> follower[f].run.thread, body |-> follower[f].run.body]

\* The answer arrives: accepted, or a 4xx that fails the run for good.
PostAnswered(f) ==
    /\ follower[f].pc = "posting" /\ Running
    /\ \/ /\ Accept(PostOf(f))
          /\ Publish(f, [follower[f].run EXCEPT !.accepted = TRUE, !.status = "queued"], "poll")
       \/ /\ Refuse(PostOf(f))
          /\ Publish(f, [follower[f].run EXCEPT !.status = "failed"], "exit")
    /\ UNCHANGED <<serverVars, handler, chatSession, posts, retired>>

\* No usable answer: the error is published and the same submission is tried
\* again after a pause.
PostFailed(f) ==
    /\ follower[f].pc = "posting"
    /\ Publish(f, follower[f].run, IF Running THEN "accept" ELSE "exit")
    /\ UNCHANGED <<serverVars, handler, gatewayVars, retired>>

\* The gateway may still receive a submission that is being waited for: the
\* server stops waiting (25 s, a broken connection) before it gets through.
PostDetached(f) ==
    /\ follower[f].pc = "posting"
    /\ PostOf(f) \notin posts /\ Spend("latePost")
    /\ posts' = posts \cup {PostOf(f)}
    /\ UNCHANGED <<storeVars, serverVars, handler, follower, hermes, chatSession,
                   stranded, retired>>

\* Live-stream events between two polls: a text delta only changes the local
\* copy, an approval request is published.
StreamDelta(f) ==
    /\ follower[f].pc = "poll" /\ Running
    /\ Streaming /\ follower[f].run.output < MaxOutput
    /\ follower' = [follower EXCEPT ![f].run.output = @ + 1]
    /\ UNCHANGED <<storeVars, stranded, budget>>
    /\ OnlyFollower

StreamApproval(f) ==
    /\ follower[f].pc = "poll" /\ Running
    /\ Streaming
    /\ Publish(f, [follower[f].run EXCEPT !.status = "waiting_for_approval"], "poll")
    /\ OnlyFollower

StopDueVariant(f) ==
    ~follower[f].stopSent /\ follower[f].id \in stopKeys /\ follower[f].run.status = "running"
StopDue(f) == ~follower[f].stopSent /\ follower[f].id \in stopKeys

PollWithoutStop(f) ==
    /\ follower[f].pc = "poll" /\ Running /\ ~StopDue(f)
    /\ Move(f, "get")
    /\ OnlyFollower

\* The stored intent to stop is delivered once the run is known upstream.
StopAnswered(f) ==
    LET q == follower[f].id
    IN /\ follower[f].pc = "poll" /\ Running /\ StopDue(f)
       /\ AskStop(q)
       /\ follower' = [follower EXCEPT ![f].stopSent = TRUE, ![f].pc = "get"]
       /\ stoppedKeys' = stoppedKeys \cup {q}
       /\ UNCHANGED <<threads, session, runs, nextRow, asked, replies, stopKeys, serverVars,
                      handler, chatSession, posts, stranded, retired, budget>>

\* Refused, or the answer is lost after the gateway did or did not see it, or
\* the read of stopRequested failed and nothing was asked.
StopFailed(f) ==
    /\ follower[f].pc = "poll" /\ StopDue(f)
    /\ AskStop(follower[f].id) \/ UNCHANGED hermes
    /\ Move(f, "get")
    /\ UNCHANGED <<serverVars, handler, chatSession, posts, retired>>

\* The status answer is copied into the local run; an empty output keeps the
\* text gathered so far.
SnapshotVariant(r, d) ==
    [r EXCEPT !.status = IF d.stop THEN "cancelled" ELSE d.status,
              !.session = chatSession[d.thread],
              !.output = IF d.output = 0 THEN @ ELSE d.output]
Snapshot(r, d) ==
    [r EXCEPT !.status = d.status,
              !.session = chatSession[d.thread],
              !.output = IF d.output = 0 THEN @ ELSE d.output]

GetAnswered(f) ==
    LET q == follower[f].id
        d == hermes[q]
    IN /\ follower[f].pc = "get" /\ Running
       /\ d # NoDelivery
       /\ follower' = [follower EXCEPT ![f].run = Snapshot(@, d), ![f].pc = "save"]
       /\ UNCHANGED <<storeVars, stranded, budget>>
       /\ OnlyFollower

\* 404: the gateway no longer has the run; it is not submitted again.
GetMissing(f) ==
    /\ follower[f].pc = "get" /\ Running
    /\ hermes[follower[f].id] = NoDelivery
    /\ Publish(f, [follower[f].run EXCEPT !.status = "interrupted"], "exit")
    /\ OnlyFollower

\* Any other error, or an unknown status: published, and polled again.
GetFailed(f) ==
    /\ follower[f].pc = "get"
    /\ Publish(f, follower[f].run, "poll")
    /\ OnlyFollower

\* syncTranscript: the pages it reads, if any, may report a newer session than
\* the status did; the events it stores are not modelled.
Transcribed(r) == {[r EXCEPT !.session = s] : s \in {r.session, chatSession[r.thread]}}

SaveStatus(f) ==
    /\ follower[f].pc = "save"
    /\ \E r \in Transcribed(follower[f].run) :
          Publish(f, r, IF r.status \in Active THEN "poll" ELSE "exit")
    /\ OnlyFollower

\* The deferred functions: the goroutine leaves the map under s.runMu.
FollowExit(f) ==
    /\ follower[f].pc = "exit" /\ runMu = {}
    /\ workers' = workers \ {follower[f].id}
    /\ follower' = [follower EXCEPT ![f] = Idle]
    /\ UNCHANGED <<storeVars, phase, configured, runMu, recovering, handler, gatewayVars,
                   stranded, retired, budget>>

----------------------------------------------------------------------------
(* controlRun (stop), listRuns and DeleteThread *)

\* The handler reads the run, then decodes the body, then stores the intent.
BeginStop(h, q, t) ==
    /\ phase = "up" /\ handler[h] = Idle
    /\ IsActive(q) /\ runs[q].thread = t
    /\ handler' = [handler EXCEPT ![h] = [pc |-> "stop", id |-> q, thread |-> t,
                                          body |-> runs[q].body, session |-> 0, output |-> 0]]
    /\ OnlyHandler

RequestStop(h) ==
    /\ handler[h].pc = "stop" /\ phase # "closed"
    /\ stopKeys' = IF Exists(handler[h].thread) THEN stopKeys \cup {handler[h].id} ELSE stopKeys
    /\ Return(h)
    /\ UNCHANGED <<threads, session, runs, nextRow, asked, replies, stoppedKeys, serverVars,
                   follower, gatewayVars, stranded, retired, budget>>

Latest(q) == \A p \in Request :
    (runs[p] # NoRun /\ runs[p].thread = runs[q].thread) => runs[p].seq <= runs[q].seq

\* listRuns asks the gateway for a late reply of the newest run.
BeginList(h, q) ==
    /\ phase = "up" /\ handler[h] = Idle
    /\ IsTerminal(q) /\ runs[q].accepted /\ Latest(q) /\ runs[q].thread \in configured
    /\ handler' = [handler EXCEPT ![h] = [pc |-> "fetch", id |-> q, thread |-> runs[q].thread,
                                          body |-> runs[q].body, session |-> 0, output |-> runs[q].output]]
    /\ OnlyHandler

FetchReply(h) ==
    LET d == hermes[handler[h].id]
    IN /\ handler[h].pc = "fetch"
       /\ d # NoDelivery
       /\ IF d.output \in {0, handler[h].output}
          THEN Return(h)
          ELSE handler' = [handler EXCEPT ![h].output = d.output, ![h].pc = "refresh"]
       /\ OnlyHandler

\* refreshReply: only the reply, and only of a run that is not active.
RefreshReply(h) ==
    LET q == handler[h].id
    IN /\ handler[h].pc = "refresh" /\ phase # "closed"
       /\ IF IsTerminal(q)
          THEN /\ runs' = [runs EXCEPT ![q].output = handler[h].output]
               /\ replies' = [replies EXCEPT ![q] = handler[h].output]
          ELSE UNCHANGED <<runs, replies>>
       /\ Return(h)
       /\ UNCHANGED <<threads, session, nextRow, asked, stopKeys, stoppedKeys, serverVars,
                      follower, gatewayVars, stranded, retired, budget>>

\* DeleteThread: one statement, refused while a run is active; rows,
\* messages and events follow through ON DELETE CASCADE.
DeleteThread(t) ==
    LET mine == {q \in Request : runs[q] # NoRun /\ runs[q].thread = t}
    IN /\ phase = "up"
       /\ Exists(t) /\ ~Busy(t)
       /\ threads' = threads \ {t}
       /\ runs' = [q \in Request |-> IF q \in mine THEN NoRun ELSE runs[q]]
       /\ replies' = [q \in Request |-> IF q \in mine THEN 0 ELSE replies[q]]
       /\ asked' = asked \ mine
       /\ stopKeys' = stopKeys \ mine
       /\ stoppedKeys' = stoppedKeys \ mine
       /\ retired' = retired \cup mine
       /\ UNCHANGED <<session, nextRow, serverVars, handler, follower, gatewayVars,
                      stranded, budget>>

----------------------------------------------------------------------------
(* Life of the process *)

\* close: cancel the context, pass the barrier on s.runMu, wait for runWG.
CloseCancel ==
    /\ phase = "up" /\ Spend("close")
    /\ phase' = "closing"
    /\ UNCHANGED <<storeVars, configured, workers, runMu, recovering, handler, follower,
                   gatewayVars, stranded, retired>>

BarrierPassedVariant == TRUE
BarrierPassed == runMu = {}

CloseBarrier ==
    /\ phase = "closing" /\ BarrierPassed
    /\ phase' = "waiting"
    /\ UNCHANGED <<storeVars, configured, workers, runMu, recovering, handler, follower,
                   gatewayVars, stranded, retired, budget>>

CloseWait ==
    /\ phase = "waiting" /\ \A f \in Follower : follower[f] = Idle
    /\ phase' = "closed"
    /\ UNCHANGED <<storeVars, configured, workers, runMu, recovering, handler, follower,
                   gatewayVars, stranded, retired, budget>>

\* What dies with the process.
LoseMemory ==
    /\ phase' = "down"
    /\ workers' = {} /\ runMu' = {} /\ recovering' = {}
    /\ handler' = [h \in Handler |-> Idle]
    /\ follower' = [f \in Follower |-> Idle]
    /\ UNCHANGED <<storeVars, configured, gatewayVars, stranded, retired>>

Leave == phase = "closed" /\ LoseMemory /\ UNCHANGED budget
Crash == phase # "down" /\ Spend("crash") /\ LoseMemory

ToRecoverVariant == {q \in Request : runs[q].status = "submitting"}
ToRecover == {q \in Request : IsActive(q)}

\* recoverRuns reads the active runs once and watches each of them.  When the
\* read fails that is only logged, and the server goes up without them.
Boot ==
    /\ phase = "down"
    /\ phase' = "booting"
    /\ configured' \in Configurations
    /\ \/ /\ recovering' = ToRecover
          /\ UNCHANGED <<stranded, budget>>
       \/ /\ Spend("storeError")
          /\ recovering' = {}
          /\ stranded' = stranded \cup {q \in Request : IsActive(q)}
    /\ UNCHANGED <<storeVars, workers, runMu, handler, follower, gatewayVars, retired>>

RecoverRun(q, f) ==
    /\ phase = "booting" /\ q \in recovering
    /\ StartFollower(f, q)
    /\ recovering' = recovering \ {q}
    /\ UNCHANGED <<storeVars, phase, configured, runMu, handler, gatewayVars, retired, budget>>

RecoverDone ==
    /\ phase = "booting" /\ recovering = {}
    /\ phase' = "up"
    /\ UNCHANGED <<storeVars, configured, workers, runMu, recovering, handler, follower,
                   gatewayVars, stranded, retired, budget>>

----------------------------------------------------------------------------
(* The gateway *)

OnlyGateway == UNCHANGED <<storeVars, serverVars, handler, follower, stranded, retired>>

GwProgress(q) ==
    /\ Progress(q)
    /\ UNCHANGED <<chatSession, posts, budget>>
    /\ OnlyGateway

GwSettle(q) ==
    /\ Settle(q)
    /\ UNCHANGED <<chatSession, posts, budget>>
    /\ OnlyGateway

GwReply(q) ==
    /\ AddReply(q)
    /\ UNCHANGED <<chatSession, posts, budget>>
    /\ OnlyGateway

GwRotateSession(t) ==
    /\ chatSession[t] < MaxSession
    /\ chatSession' = [chatSession EXCEPT ![t] = @ + 1]
    /\ UNCHANGED <<hermes, posts, budget>>
    /\ OnlyGateway

GwRestart ==
    /\ Interrupt /\ Spend("restart")
    /\ UNCHANGED <<chatSession, posts>>
    /\ OnlyGateway

GwForget(q) ==
    /\ Forget(q) /\ Spend("forget")
    /\ UNCHANGED <<chatSession, posts>>
    /\ OnlyGateway

GwRewrite(q) ==
    /\ Overwrite(q) /\ Spend("rewrite")
    /\ UNCHANGED <<chatSession, posts>>
    /\ OnlyGateway

\* A submission the server gave up on reaches the gateway after all, or not.
LatePost(m) ==
    /\ m \in posts /\ posts' = posts \ {m}
    /\ Accept(m) \/ UNCHANGED hermes
    /\ UNCHANGED <<chatSession, budget>>
    /\ OnlyGateway

----------------------------------------------------------------------------
HandlerStep(h) ==
    \/ \E q \in Request, t \in Thread, b \in Body : BeginSubmit(h, q, t, b)
    \/ ReadSession(h) \/ ReserveRun(h)
    \/ WatchLock(h) \/ \E f \in Follower : WatchStart(h, f)
    \/ \E q \in Request, t \in Thread : BeginStop(h, q, t)
    \/ RequestStop(h)
    \/ \E q \in Request : BeginList(h, q)
    \/ FetchReply(h) \/ RefreshReply(h)
    \/ Abandon(h)

FollowerStep(f) ==
    \/ FollowLoad(f) \/ FollowCancelled(f)
    \/ ExpireWindow(f) \/ SendPost(f) \/ PostAnswered(f) \/ PostFailed(f)
    \/ PostDetached(f)
    \/ StreamDelta(f) \/ StreamApproval(f)
    \/ PollWithoutStop(f) \/ StopAnswered(f) \/ StopFailed(f)
    \/ GetAnswered(f) \/ GetMissing(f) \/ GetFailed(f) \/ SaveStatus(f)
    \/ FollowExit(f)

ProcessStep ==
    \/ CloseCancel \/ CloseBarrier \/ CloseWait \/ Leave \/ Crash
    \/ Boot \/ (\E q \in Request, f \in Follower : RecoverRun(q, f)) \/ RecoverDone

GatewayStep ==
    \/ \E q \in Request : GwProgress(q) \/ GwSettle(q) \/ GwReply(q) \/ GwForget(q) \/ GwRewrite(q)
    \/ \E t \in Thread : GwRotateSession(t)
    \/ GwRestart
    \/ \E m \in posts : LatePost(m)

Next ==
    \/ \E h \in Handler : HandlerStep(h)
    \/ \E f \in Follower : FollowerStep(f)
    \/ \E t \in Thread : DeleteThread(t)
    \/ ProcessStep
    \/ GatewayStep

Spec == Init /\ [][Next]_vars

----------------------------------------------------------------------------
(* Fairness.  Goroutines and handlers are scheduled and their calls of the   *)
(* gateway time out, so each local step is weakly fair; a gateway that is    *)
(* asked again and again answers at some point; it carries out a stop; the   *)
(* service manager starts a process that is down.  A client owes nothing,    *)
(* and a run that nobody stops may take for ever.                            *)

GatewayObeysStop(q) ==
    /\ hermes[q].status \in Active /\ hermes[q].stop
    /\ GwSettle(q)

Fairness ==
    /\ \A h \in Handler :
         /\ WF_vars(ReserveRun(h) \/ WatchLock(h) \/ RequestStop(h))
         /\ WF_vars(\E f \in Follower : WatchStart(h, f))
    /\ \A f \in Follower :
         /\ WF_vars(FollowLoad(f) \/ FollowCancelled(f) \/ SendPost(f) \/ PostFailed(f))
         /\ WF_vars(PollWithoutStop(f) \/ StopFailed(f) \/ GetFailed(f))
         /\ WF_vars(SaveStatus(f)) /\ WF_vars(FollowExit(f))
         /\ SF_vars(PostAnswered(f)) /\ SF_vars(StopAnswered(f))
         /\ SF_vars(GetAnswered(f)) /\ SF_vars(GetMissing(f))
    /\ \A q \in Request :
         /\ WF_vars(GatewayObeysStop(q))
         /\ \A f \in Follower : WF_vars(RecoverRun(q, f))
    /\ WF_vars(CloseBarrier) /\ WF_vars(CloseWait) /\ WF_vars(Leave)
    /\ WF_vars(Boot) /\ WF_vars(RecoverDone)

FairSpec == Spec /\ Fairness

----------------------------------------------------------------------------
(* Properties *)

\* Every variable has the shape the schema and the Go types give it.
TypeOK ==
    /\ threads \subseteq Thread
    /\ session \in [Thread -> Session]
    /\ runs \in [Request -> Run \cup {NoRun}]
    /\ nextRow \in Nat
    /\ asked \subseteq Request
    /\ replies \in [Request -> Output]
    /\ stopKeys \subseteq Request /\ stoppedKeys \subseteq Request
    /\ phase \in {"down", "booting", "up", "closing", "waiting", "closed"}
    /\ configured \in Configurations
    /\ workers \subseteq Request /\ runMu \subseteq Handler /\ recovering \subseteq Request
    /\ handler \in [Handler -> HandlerState \cup {Idle}]
    /\ follower \in [Follower -> FollowerState \cup {Idle}]
    /\ hermes \in [Request -> Delivery \cup {NoDelivery}]
    /\ chatSession \in [Thread -> Session]
    /\ posts \subseteq Post
    /\ stranded \subseteq Request /\ retired \subseteq Request
    /\ budget \in [Fault -> Nat]

\* A conversation never has two active runs, however submissions, replays,
\* late saves and recoveries interleave (reserveRun, index runs_one_active).
OneActivePerThread ==
    \A p, q \in Request :
        IsActive(p) /\ IsActive(q) /\ runs[p].thread = runs[q].thread => p = q

\* The reply a conversation shows is the output of its settled run, and an
\* active run has none: saveRun and refreshReply keep the two tables in step.
ReplyMatchesRun ==
    \A q \in Request : replies[q] = IF IsTerminal(q) THEN runs[q].output ELSE 0

\* Whatever a handler was in the middle of when its conversation was deleted,
\* no run, message or stop intent is left without a conversation.
NoOrphans ==
    \A q \in Request :
        /\ runs[q] # NoRun => runs[q].thread \in threads
        /\ q \in asked <=> runs[q] # NoRun
        /\ q \in stopKeys \cup stoppedKeys => runs[q] # NoRun

\* At most one goroutine follows a run, and s.workers names exactly the runs
\* that are followed (watch and the deferred delete).
SingleFollower ==
    /\ workers = {follower[f].id : f \in {g \in Follower : follower[g] # Idle}}
    /\ \A f, g \in Follower :
          follower[f] # Idle /\ follower[g] # Idle /\ follower[f].id = follower[g].id => f = g

\* While the server is up no active run is left behind: a follower works on
\* it, or the handler that reserved it is about to start one.  Exempt, until the
\* next replay or restart, are the runs a failing store strands: the last save
\* of the follower, the read it starts with and the read of recoverRuns are
\* each only logged or not even that.  Exempt too is an id used again after its
\* run was deleted with its conversation (a goroutine of the old run may still
\* be in s.workers; the client draws a fresh UUID for every submission).
ActiveRunIsFollowed ==
    phase = "up" => \A q \in Request : IsActive(q) =>
        \/ q \in stranded \cup retired
        \/ \E f \in Follower : follower[f] # Idle /\ follower[f].id = q /\ follower[f].pc # "exit"
        \/ \E h \in Handler : handler[h].pc \in {"watch", "locked"} /\ handler[h].id = q

\* When close returns no goroutine follows a run and none can start any more,
\* so the store may be closed (accountManager.close).
CloseQuiesces ==
    phase = "closed" =>
        /\ \A f \in Follower : follower[f] = Idle
        /\ \A h \in Handler : handler[h].pc # "locked"

\* The gateway has neither lost a record nor written an old copy back.
RecordsKept == \A kind \in {"forget", "rewrite"} : budget[kind] = Limits[kind]

\* As long as that is so, a run is reported completed or cancelled only if that
\* is how the gateway ended it.
OutcomeIsGateways ==
    \A q \in Request :
        runs[q].status \in {"completed", "cancelled"} /\ RecordsKept => hermes[q].status = runs[q].status

\* A settled run is settled for good: until its conversation is deleted only
\* its reply changes, in spite of followers and refreshes that hold older copies.
TerminalIsFinal ==
    [][\A q \in Request : IsTerminal(q) =>
          \/ runs'[q] = NoRun
          \/ runs'[q] = [runs[q] EXCEPT !.output = runs'[q].output]]_vars

\* A run is submitted only while it is active and no acceptance has been
\* stored, across retries, crashes and recoveries ("It has not been resubmitted").
NotResubmitted ==
    [][\A f \in Follower :
          follower[f].pc # "posting" /\ follower'[f].pc = "posting" =>
              IsActive(follower[f].id) /\ ~runs[follower[f].id].accepted]_vars

\* A stored intent to stop ends its run, even when it comes before acceptance
\* or the server is restarted in between (controlRun, stopRequested).
StopSettles ==
    \A q \in Request : q \in stopKeys /\ IsActive(q) ~> ~IsActive(q)

\* The outcome of a run the gateway accepted reaches the store, across lost
\* answers, crashes and restarts (followRun, recoverRuns).
OutcomeRecorded ==
    \A q \in Request : IsActive(q) /\ hermes[q].status \in Terminal ~> ~IsActive(q)

----------------------------------------------------------------------------
(* Refinement *)

LedgerEntry(q) ==
    IF runs[q] = NoRun THEN [state |-> "absent"]
    ELSE [state  |-> IF IsActive(q) THEN "open" ELSE "settled",
          thread |-> runs[q].thread,
          reply  |-> replies[q]]

Ledger == INSTANCE RunLedger WITH ledger <- [q \in Request |-> LedgerEntry(q)]

\* Seen through its tables the backend behaves like the ledger: every save,
\* refresh, replay, recovery and deletion is one of the ledger's steps or
\* leaves what a conversation shows as it was.
ImplementsLedger == Ledger!LedgerSpec

=============================================================================

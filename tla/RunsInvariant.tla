--------------------------- MODULE RunsInvariant ---------------------------
(***************************************************************************)
(* The inductive invariant of Runs and its proof, for every value of the   *)
(* constants: the types, then three layers that rest on one another.       *)
(* RunsProofs draws the properties of Runs from it.                        *)
(***************************************************************************)
EXTENDS Runs, TLAPS

(* Points at which a follower holds a copy of its run. *)
Working == {"accept", "posting", "poll", "get", "save"}

LocalRuns == \A f \in Follower : follower[f].pc \in Working => follower[f].run \in Run

TypeInv == TypeOK /\ LocalRuns

-----------------------------------------------------------------------------

LEMMA InitTyped == Init => TypeInv
  BY StatusAssumption, BoundAssumption DEF Init, GatewayInit, TypeInv, TypeOK, LocalRuns, Working, Session, Output, Idle, NoRun, NoDelivery

LEMMA SpendTyped ==
  ASSUME TypeOK, NEW kind \in Fault, Spend(kind)
  PROVE  budget' \in [Fault -> Nat]
BY DEF Spend, TypeOK

\* What the gateway does keeps the type of its records.
LEMMA ContractTyped ==
  ASSUME hermes \in [Request -> Delivery \cup {NoDelivery}], GatewayNext
  PROVE  hermes' \in [Request -> Delivery \cup {NoDelivery}]
<1>1. \A q \in Request : hermes[q] # NoDelivery => hermes[q] \in Delivery
  OBVIOUS
<1>2. \A q \in Request : hermes[q].status \in Active => hermes[q] # NoDelivery
  BY DEF NoDelivery, Active
<1>3. CASE \E m \in Post : Accept(m)
  <2>1. PICK m \in Post : Accept(m)
    BY <1>3
  <2>2. [thread |-> m.thread, body |-> m.body, status |-> "queued", output |-> 0, stop |-> FALSE] \in Delivery
    BY BoundAssumption DEF Post, Delivery, Output
  <2>3. hermes' = hermes \/ \E d \in Delivery : hermes' = [hermes EXCEPT ![m.id] = d]
    BY <2>1, <2>2 DEF Accept
  <2> QED
    BY <2>3
<1>4. CASE \E m \in Post : Refuse(m)
  BY <1>4 DEF Refuse
<1>5. CASE \E q \in Request : AskStop(q)
  <2>1. PICK q \in Request : hermes[q] # NoDelivery /\ hermes' = [hermes EXCEPT ![q].stop = TRUE]
    BY <1>2, <1>5 DEF AskStop
  <2>2. [hermes[q] EXCEPT !.stop = TRUE] \in Delivery
    BY <1>1, <2>1 DEF Delivery
  <2> QED
    BY <2>1, <2>2
<1>6. CASE \E q \in Request : Progress(q) \/ Settle(q)
  BY <1>1, <1>2, <1>6 DEF Progress, Settle, Delivery
<1>7. CASE \E q \in Request : AddReply(q)
  BY <1>1, <1>7, BoundAssumption DEF AddReply, Delivery, Output
<1>8. CASE \E q \in Request : Forget(q)
  BY <1>8 DEF Forget
<1>9. CASE \E q \in Request : Overwrite(q)
  <2>1. PICK q \in Request, s \in (HermesStatus \cap Active) \cup {"queued", "failed"}, o \in Output :
           hermes[q] # NoDelivery /\ hermes' = [hermes EXCEPT ![q].status = s, ![q].output = o]
    BY <1>9 DEF Overwrite
  <2>2. [hermes[q] EXCEPT !.status = s, !.output = o] \in Delivery
    BY <1>1, <2>1 DEF Delivery
  <2> QED
    BY <2>1, <2>2
<1>10. CASE Interrupt
  BY <1>1, <1>2, <1>10 DEF Interrupt, Delivery
<1> QED
  BY <1>3, <1>4, <1>5, <1>6, <1>7, <1>8, <1>9, <1>10 DEF GatewayNext

LEMMA SaveRunTyped ==
  ASSUME TypeOK, NEW q \in Request, NEW r \in Run, SaveRun(q, r)
  PROVE  /\ runs' \in [Request -> Run \cup {NoRun}]
         /\ replies' \in [Request -> Output]
         /\ session' \in [Thread -> Session]
  BY DEF SaveRun, TypeOK, Run

LEMMA PublishTyped ==
  ASSUME TypeInv, NEW f \in Follower, follower[f] # Idle, NEW r \in Run,
         NEW pc \in Working \cup {"exit"}, Publish(f, r, pc)
  PROVE  /\ runs' \in [Request -> Run \cup {NoRun}]
         /\ replies' \in [Request -> Output]
         /\ session' \in [Thread -> Session]
         /\ follower' \in [Follower -> FollowerState \cup {Idle}]
         /\ LocalRuns'
         /\ stranded' \subseteq Request
         /\ budget' \in [Fault -> Nat]
         /\ threads' = threads /\ nextRow' = nextRow /\ asked' = asked
         /\ stopKeys' = stopKeys /\ stoppedKeys' = stoppedKeys
<1>1. follower[f] \in FollowerState
  BY DEF TypeInv, TypeOK
<1>2. follower' \in [Follower -> FollowerState \cup {Idle}] /\ LocalRuns'
  BY <1>1 DEF Publish, TypeInv, TypeOK, LocalRuns, FollowerState, Working
<1>3. /\ runs' \in [Request -> Run \cup {NoRun}]
      /\ replies' \in [Request -> Output]
      /\ session' \in [Thread -> Session]
  BY <1>1, SaveRunTyped DEF Publish, TypeInv, TypeOK, FollowerState
<1>4. stranded' \subseteq Request /\ budget' \in [Fault -> Nat]
  BY <1>1, SpendTyped DEF Publish, TypeInv, TypeOK, FollowerState, Fault
<1> QED
  BY <1>2, <1>3, <1>4 DEF Publish

-----------------------------------------------------------------------------
(* Type correctness, one lemma per process.                                  *)

LEMMA HandlerTyped ==
  ASSUME TypeInv, NEW h \in Handler, HandlerStep(h)
  PROVE  TypeInv'
<1> USE DEF TypeInv, TypeOK, LocalRuns, HandlerState, OnlyHandler, storeVars, serverVars,
            gatewayVars, Return, Goto
<1>1. CASE \E q \in Request, t \in Thread, b \in Body : BeginSubmit(h, q, t, b)
  BY <1>1, BoundAssumption DEF BeginSubmit, Session, Output
<1>2. CASE ReadSession(h)
  BY <1>2 DEF ReadSession, Idle
<1>3. CASE ReserveRun(h)
  <2> DEFINE n == NewRun(handler[h].thread, handler[h].body, handler[h].session)
  <2>1. handler[h] \in HandlerState
    BY <1>3 DEF ReserveRun, Idle
  <2>2. n \in Run
    BY <2>1, BoundAssumption DEF NewRun, Run, Active, Output
  <2>3. handler' \in [Handler -> HandlerState \cup {Idle}]
    BY <2>1, <1>3 DEF ReserveRun
  <2>4. runs' \in [Request -> Run \cup {NoRun}] /\ nextRow' \in Nat /\ asked' \subseteq Request
    BY <2>1, <2>2, <1>3 DEF ReserveRun
  <2> QED
    BY <2>3, <2>4, <1>3 DEF ReserveRun
<1>4. CASE WatchLock(h)
  BY <1>4 DEF WatchLock, Idle
<1>5. CASE \E f \in Follower : WatchStart(h, f)
  BY <1>5 DEF WatchStart, StartFollower, FollowerState, Idle, Working
<1>6. CASE \E q \in Request, t \in Thread : BeginStop(h, q, t)
  BY <1>6, BoundAssumption DEF BeginStop, IsActive, Active, NoRun, Run, Session, Output
<1>7. CASE RequestStop(h)
  BY <1>7 DEF RequestStop, Idle
<1>8. CASE \E q \in Request : BeginList(h, q)
  BY <1>8, BoundAssumption DEF BeginList, IsTerminal, Terminal, NoRun, Run, Session
<1>9. CASE FetchReply(h)
  BY <1>9 DEF FetchReply, Delivery, Idle
<1>10. CASE RefreshReply(h)
  BY <1>10 DEF RefreshReply, IsTerminal, Terminal, NoRun, Run, Idle
<1>11. CASE Abandon(h)
  BY <1>11 DEF Abandon
<1> QED
  BY <1>1, <1>2, <1>3, <1>4, <1>5, <1>6, <1>7, <1>8, <1>9, <1>10, <1>11 DEF HandlerStep

LEMMA FollowerTyped ==
  ASSUME TypeInv, NEW f \in Follower, FollowerStep(f)
  PROVE  TypeInv'
<1> USE DEF OnlyFollower, Move, storeVars, serverVars, gatewayVars
<1>1. CASE FollowLoad(f)
  <2> DEFINE r == runs[follower[f].id]
  <2>1. follower[f] \in FollowerState /\ r \in Run \cup {NoRun}
    BY <1>1 DEF FollowLoad, TypeInv, TypeOK, FollowerState, Idle
  <2>2. CASE r.status \notin Active /\ Move(f, "exit")
    BY <2>1, <2>2, <1>1 DEF FollowLoad, TypeInv, TypeOK, LocalRuns, FollowerState, Working
  <2>5. CASE LoadFails(f)
    BY <2>1, <2>5, <1>1, SpendTyped DEF FollowLoad, LoadFails, TypeInv, TypeOK, LocalRuns, FollowerState,
       Working, Idle, Fault
  <2>3. CASE r.status \in Active /\ r.thread \notin configured /\ ~LoadFails(f)
    <3>1. [r EXCEPT !.status = "interrupted"] \in Run
      BY <2>1, <2>3 DEF Run, NoRun, Active, Terminal
    <3>2. Publish(f, [r EXCEPT !.status = "interrupted"], "exit")
      BY <2>3, <1>1 DEF FollowLoad
    <3> QED
      BY <3>1, <3>2, <2>1, <1>1, PublishTyped DEF FollowLoad, TypeInv, TypeOK, FollowerState, Idle
  <2>4. CASE r.status \in Active /\ r.thread \in configured /\ ~LoadFails(f)
    BY <2>1, <2>4, <1>1 DEF FollowLoad, TypeInv, TypeOK, LocalRuns, FollowerState, Working, ResumeAt,
       NoRun, Active
  <2> QED BY <1>1, <2>2, <2>3, <2>4, <2>5 DEF FollowLoad
<1>2. CASE FollowCancelled(f)
  BY <1>2 DEF FollowCancelled, TypeInv, TypeOK, LocalRuns, FollowerState, Working, Idle
<1> DEFINE r == follower[f].run
<1>3. CASE follower[f].pc \in Working
  <2>1. follower[f] # Idle /\ follower[f] \in FollowerState /\ r \in Run
    BY <1>3 DEF TypeInv, TypeOK, LocalRuns, Idle, Working
  <2>2. PostOf(f) \in Post
    BY <2>1 DEF PostOf, Post, FollowerState, Run
  <2>3. CASE ExpireWindow(f)
    <3>1. [r EXCEPT !.status = "interrupted"] \in Run
      BY <2>1 DEF Run, Terminal
    <3> QED BY <2>3, <2>1, <3>1, PublishTyped DEF ExpireWindow, TypeInv, TypeOK
  <2>4. CASE SendPost(f)
    BY <2>4, <2>1 DEF SendPost, TypeInv, TypeOK, LocalRuns, FollowerState, Working
  <2>5. CASE PostAnswered(f)
    <3>1. GatewayNext
      BY <2>5, <2>2 DEF PostAnswered, GatewayNext
    <3>2. hermes' \in [Request -> Delivery \cup {NoDelivery}]
      BY <3>1, ContractTyped DEF TypeInv, TypeOK
    <3>3. [r EXCEPT !.accepted = TRUE, !.status = "queued"] \in Run
      BY <2>1 DEF Run, Active
    <3>4. [r EXCEPT !.status = "failed"] \in Run
      BY <2>1 DEF Run, Terminal
    <3>5. \E n \in Run, pc \in Working \cup {"exit"} : Publish(f, n, pc)
      BY <2>5, <3>3, <3>4 DEF PostAnswered, Working
    <3> QED BY <2>5, <2>1, <3>2, <3>5, PublishTyped DEF PostAnswered, TypeInv, TypeOK
  <2>6. CASE PostFailed(f)
    BY <2>6, <2>1, PublishTyped DEF PostFailed, TypeInv, TypeOK, Working
  <2>7. CASE PostDetached(f)
    <3>1. budget' \in [Fault -> Nat]
      BY <2>7, SpendTyped DEF PostDetached, TypeInv, Fault
    <3> QED BY <3>1, <2>7, <2>2 DEF PostDetached, TypeInv, TypeOK, LocalRuns
  <2>8. CASE StreamDelta(f)
    <3>1. follower'[f].run \in Run
      BY <2>8, <2>1, BoundAssumption DEF StreamDelta, Run, Output, FollowerState, TypeInv, TypeOK
    <3> QED
      BY <3>1, <2>8, <2>1 DEF StreamDelta, TypeInv, TypeOK, LocalRuns, FollowerState
  <2>9. CASE StreamApproval(f)
    <3>1. [r EXCEPT !.status = "waiting_for_approval"] \in Run
      BY <2>1 DEF Run, Active
    <3> QED BY <2>9, <2>1, <3>1, PublishTyped DEF StreamApproval, TypeInv, TypeOK, Working
  <2>10. CASE PollWithoutStop(f)
    BY <2>10, <2>1 DEF PollWithoutStop, TypeInv, TypeOK, LocalRuns, FollowerState, Working
  <2>11. CASE StopAnswered(f)
    <3>1. hermes' \in [Request -> Delivery \cup {NoDelivery}]
      BY <2>11, <2>1, ContractTyped DEF StopAnswered, GatewayNext, TypeInv, TypeOK, FollowerState
    <3> QED
      BY <3>1, <2>11, <2>1 DEF StopAnswered, TypeInv, TypeOK, LocalRuns, FollowerState, Working
  <2>12. CASE StopFailed(f)
    <3>1. hermes' \in [Request -> Delivery \cup {NoDelivery}]
      BY <2>12, <2>1, ContractTyped DEF StopFailed, GatewayNext, TypeInv, TypeOK, FollowerState
    <3> QED
      BY <3>1, <2>12, <2>1 DEF StopFailed, TypeInv, TypeOK, LocalRuns, FollowerState, Working
  <2>13. CASE GetAnswered(f)
    <3>1. hermes[follower[f].id] \in Delivery /\ chatSession[hermes[follower[f].id].thread] \in Session
      BY <2>13, <2>1 DEF GetAnswered, TypeInv, TypeOK, FollowerState, Delivery
    <3>2. Snapshot(r, hermes[follower[f].id]) \in Run
      BY <3>1, <2>1, StatusAssumption DEF Snapshot, Run, Delivery, Active, Terminal
    <3> QED
      BY <3>2, <2>13, <2>1 DEF GetAnswered, TypeInv, TypeOK, LocalRuns, FollowerState, Working
  <2>14. CASE GetMissing(f)
    <3>1. [r EXCEPT !.status = "interrupted"] \in Run
      BY <2>1 DEF Run, Terminal
    <3> QED BY <2>14, <2>1, <3>1, PublishTyped DEF GetMissing, TypeInv, TypeOK
  <2>15. CASE GetFailed(f)
    BY <2>15, <2>1, PublishTyped DEF GetFailed, TypeInv, TypeOK, Working
  <2>16. CASE SaveStatus(f)
    <3>1. PICK s \in {r.session, chatSession[r.thread]} :
             Publish(f, [r EXCEPT !.session = s],
                     IF [r EXCEPT !.session = s].status \in Active THEN "poll" ELSE "exit")
      BY <2>16 DEF SaveStatus, Transcribed
    <3>2. [r EXCEPT !.session = s] \in Run
      BY <2>1 DEF Run, TypeInv, TypeOK
    <3> QED BY <2>16, <2>1, <3>1, <3>2, PublishTyped DEF SaveStatus, TypeInv, TypeOK, Working
  <2>17. CASE FollowLoad(f) \/ FollowCancelled(f)
    BY <2>17, <1>1, <1>2
  <2>18. ~FollowExit(f)
    BY <1>3 DEF FollowExit, Working
  <2> QED
    BY <2>3, <2>4, <2>5, <2>6, <2>7, <2>8, <2>9, <2>10, <2>11, <2>12, <2>13, <2>14, <2>15, <2>16,
       <2>17, <2>18 DEF FollowerStep
<1>4. CASE FollowExit(f)
  BY <1>4 DEF FollowExit, TypeInv, TypeOK, LocalRuns, Idle, Working
<1> QED
  BY <1>1, <1>2, <1>3, <1>4 DEF FollowerStep, Working, ExpireWindow, SendPost, PostAnswered,
     PostFailed, PostDetached, StreamDelta, StreamApproval, PollWithoutStop, StopAnswered,
     StopFailed, GetAnswered, GetMissing, GetFailed, SaveStatus

LEMMA DeleteTyped ==
  ASSUME TypeInv, NEW t \in Thread, DeleteThread(t)
  PROVE  TypeInv'
BY BoundAssumption DEF DeleteThread, TypeInv, TypeOK, LocalRuns, serverVars, gatewayVars, Output

LEMMA ProcessTyped ==
  ASSUME TypeInv, ProcessStep
  PROVE  TypeInv'
<1> USE DEF TypeInv, TypeOK, LocalRuns, storeVars, serverVars, gatewayVars
<1>1. CASE CloseCancel
  BY <1>1, SpendTyped DEF CloseCancel, Fault
<1>2. CASE CloseBarrier \/ CloseWait \/ RecoverDone
  BY <1>2 DEF CloseBarrier, CloseWait, RecoverDone
<1>3. CASE Leave \/ Crash
  BY <1>3, SpendTyped DEF Leave, Crash, LoseMemory, Idle, Working, Fault
<1>4. CASE Boot
  BY <1>4, SpendTyped DEF Boot, ToRecover, Fault
<1>5. CASE \E q \in Request, f \in Follower : RecoverRun(q, f)
  BY <1>5 DEF RecoverRun, StartFollower, FollowerState, Working
<1> QED
  BY <1>1, <1>2, <1>3, <1>4, <1>5 DEF ProcessStep

LEMMA GatewayTyped ==
  ASSUME TypeInv, GatewayStep
  PROVE  TypeInv'
<1>1. GatewayNext \/ UNCHANGED hermes
  BY DEF GatewayStep, GatewayNext, GwProgress, GwSettle, GwReply, GwForget, GwRewrite, GwRotateSession,
     GwRestart, LatePost, TypeInv, TypeOK
<1>2. hermes' \in [Request -> Delivery \cup {NoDelivery}]
  BY <1>1, ContractTyped DEF TypeInv, TypeOK
<1>3. budget' \in [Fault -> Nat]
  BY SpendTyped DEF GatewayStep, GwProgress, GwSettle, GwReply, GwForget, GwRewrite, GwRotateSession,
     GwRestart, LatePost, Fault, TypeInv, TypeOK
<1>4. chatSession' \in [Thread -> Session]
  BY BoundAssumption DEF GatewayStep, GwProgress, GwSettle, GwReply, GwForget, GwRewrite, GwRotateSession,
     GwRestart, LatePost, Session, TypeInv, TypeOK
<1>5. OnlyGateway /\ posts' \subseteq posts
  BY DEF GatewayStep, GwProgress, GwSettle, GwReply, GwForget, GwRewrite, GwRotateSession,
     GwRestart, LatePost
<1> QED
  BY <1>2, <1>3, <1>4, <1>5 DEF OnlyGateway, TypeInv, TypeOK, LocalRuns, storeVars, serverVars

LEMMA StutterTyped ==
  ASSUME TypeInv, UNCHANGED vars
  PROVE  TypeInv'
BY DEF TypeInv, TypeOK, LocalRuns, vars, storeVars, serverVars, gatewayVars

LEMMA TypeStep == TypeInv /\ [Next]_vars => TypeInv'
BY HandlerTyped, FollowerTyped, DeleteTyped, ProcessTyped, GatewayTyped, StutterTyped DEF Next

-----------------------------------------------------------------------------
(* The inductive invariant, in three layers.                                 *)

\* Layer 1: who holds s.runMu, who follows what, and what each phase of the
\* process rules out.
LockInv ==
    /\ \A h \in Handler : handler[h].pc = "locked" <=> h \in runMu
    /\ \A g, h \in runMu : g = h
    /\ \A h \in runMu : handler[h].id \notin workers

PhaseInv ==
    /\ phase \in {"down", "booting"} => \A h \in Handler : handler[h] = Idle
    /\ phase \in {"waiting", "closed"} => runMu = {}
    /\ phase \in {"down", "closed"} => \A f \in Follower : follower[f] = Idle
    /\ phase = "booting" => recovering \cap workers = {}

Structure == LockInv /\ PhaseInv /\ SingleFollower

\* Layer 2: a follower past loading owns an active row of its run, and nobody
\* else writes an active row.
OwnsActive ==
    \A f \in Follower : follower[f].pc \in Working =>
        /\ IsActive(follower[f].id)
        /\ follower[f].run.thread = runs[follower[f].id].thread
        /\ follower[f].pc # "save" => follower[f].run.status \in Active

Unaccepted ==
    \A f \in Follower : follower[f].pc \in {"accept", "posting"} =>
        ~runs[follower[f].id].accepted /\ ~follower[f].run.accepted

\* A handler about to store a stop intent holds a run of an existing
\* conversation, or a conversation that is gone.
StopTarget ==
    \A h \in Handler : handler[h].pc = "stop" /\ handler[h].thread \in threads =>
        /\ runs[handler[h].id] # NoRun
        /\ runs[handler[h].id].thread = handler[h].thread

Rows == /\ OwnsActive /\ Unaccepted /\ StopTarget
        /\ OneActivePerThread /\ ReplyMatchesRun /\ NoOrphans

\* Layer 3: an id somebody works with has or had a row; a follower leaves an
\* active row behind only when the server is being closed, or when the run
\* is one of the exceptions.
KnownIds ==
    /\ \A f \in Follower : follower[f] # Idle /\ runs[follower[f].id] = NoRun =>
          follower[f].id \in retired
    /\ \A h \in Handler : handler[h].pc \in {"watch", "locked"} /\ runs[handler[h].id] = NoRun =>
          handler[h].id \in retired
    /\ phase = "booting" => \A q \in recovering : runs[q] # NoRun

Leaving ==
    \A f \in Follower : Running /\ follower[f].pc = "exit" /\ IsActive(follower[f].id) =>
        follower[f].id \in stranded \cup retired

Held(q) ==
    \/ \E f \in Follower : follower[f] # Idle /\ follower[f].id = q /\ follower[f].pc # "exit"
    \/ \E h \in Handler : handler[h].pc \in {"watch", "locked"} /\ handler[h].id = q

Followed ==
    Running => \A q \in Request : IsActive(q) =>
        \/ q \in stranded \cup retired
        \/ phase = "booting" /\ q \in recovering
        \/ Held(q)

Care == KnownIds /\ Leaving /\ Followed

-----------------------------------------------------------------------------
(* Layer 1 *)

\* What every step of a follower other than its exit leaves alone.
LEMMA FollowerKeeps ==
  ASSUME TypeInv, NEW f \in Follower, FollowerStep(f), ~FollowExit(f)
  PROVE  /\ follower[f] # Idle /\ follower'[f] # Idle
         /\ follower'[f].id = follower[f].id
         /\ \A g \in Follower \ {f} : follower'[g] = follower[g]
         /\ UNCHANGED <<serverVars, handler, retired>>
<1>1. follower[f] \in FollowerState
  BY DEF TypeInv, TypeOK, FollowerStep, Idle, FollowLoad, FollowCancelled, ExpireWindow,
     SendPost, PostAnswered, PostFailed, PostDetached, StreamDelta, StreamApproval,
     PollWithoutStop, StopAnswered, StopFailed, GetAnswered, GetMissing, GetFailed, SaveStatus
<1> DEFINE Kept == /\ follower'[f] # Idle
                   /\ follower'[f].id = follower[f].id
                   /\ \A g \in Follower \ {f} : follower'[g] = follower[g]
<1>2. ASSUME NEW r, NEW pc \in Working \cup {"exit"}, Publish(f, r, pc)
      PROVE  Kept
  BY <1>1, <1>2 DEF Publish, TypeInv, TypeOK, FollowerState, Idle, Working
<1>3. ASSUME NEW pc \in Working \cup {"exit"}, Move(f, pc)
      PROVE  Kept
  BY <1>1, <1>3 DEF Move, TypeInv, TypeOK, FollowerState, Idle, Working
<1>4. CASE FollowLoad(f)
  BY <1>1, <1>2, <1>3, <1>4 DEF FollowLoad, LoadFails, ResumeAt, OnlyFollower, TypeInv, TypeOK, FollowerState, Idle
<1>5. CASE FollowCancelled(f) \/ SendPost(f) \/ PollWithoutStop(f) \/ StopFailed(f)
  BY <1>1, <1>3, <1>5 DEF FollowCancelled, SendPost, PollWithoutStop, StopFailed, OnlyFollower, Idle,
     FollowerState, Working
<1>6. CASE ExpireWindow(f) \/ StreamApproval(f) \/ GetMissing(f) \/ GetFailed(f)
  BY <1>1, <1>2, <1>6 DEF ExpireWindow, StreamApproval, GetMissing, GetFailed, OnlyFollower, Idle,
     FollowerState, Working
<1>7. CASE PostAnswered(f) \/ PostFailed(f)
  BY <1>1, <1>2, <1>7 DEF PostAnswered, PostFailed, Idle, FollowerState, Working
<1>8. CASE SaveStatus(f)
  BY <1>1, <1>2, <1>8 DEF SaveStatus, OnlyFollower, Idle, FollowerState, Working
<1>9. CASE PostDetached(f)
  BY <1>1, <1>9 DEF PostDetached, Idle, FollowerState
<1>10. CASE StreamDelta(f)
  BY <1>1, <1>10 DEF StreamDelta, OnlyFollower, Idle, FollowerState, TypeInv, TypeOK
<1>11. CASE StopAnswered(f) \/ GetAnswered(f)
  BY <1>1, <1>11 DEF StopAnswered, GetAnswered, OnlyFollower, Idle, FollowerState, TypeInv, TypeOK
<1> QED
  BY <1>4, <1>5, <1>6, <1>7, <1>8, <1>9, <1>10, <1>11 DEF FollowerStep

LEMMA StructureFollower ==
  ASSUME TypeInv, Structure, NEW f \in Follower, FollowerStep(f)
  PROVE  Structure'
<1>1. CASE FollowExit(f)
  <2>1. LockInv'
    BY <1>1 DEF FollowExit, Structure, LockInv
  <2>2. PhaseInv'
    BY <1>1 DEF FollowExit, Structure, PhaseInv, TypeInv, TypeOK
  <2>3. SingleFollower'
    BY <1>1 DEF FollowExit, Structure, SingleFollower, TypeInv, TypeOK, Idle
  <2> QED BY <2>1, <2>2, <2>3 DEF Structure
<1>2. CASE ~FollowExit(f)
  <2>1. LockInv'
    BY <1>2, FollowerKeeps DEF Structure, LockInv, serverVars
  <2>2. PhaseInv'
    BY <1>2, FollowerKeeps DEF Structure, PhaseInv, serverVars
  <2>3. SingleFollower'
    BY <1>2, FollowerKeeps DEF Structure, SingleFollower, serverVars
  <2> QED BY <2>1, <2>2, <2>3 DEF Structure
<1> QED BY <1>1, <1>2

LEMMA StartFollowerSingle ==
  ASSUME TypeInv, SingleFollower, NEW f \in Follower, NEW q \in Request, q \notin workers,
         StartFollower(f, q)
  PROVE  SingleFollower'
BY DEF StartFollower, SingleFollower, TypeInv, TypeOK, Idle

LEMMA StructureHandler ==
  ASSUME TypeInv, Structure, NEW h \in Handler, HandlerStep(h)
  PROVE  Structure'
<1>1. CASE WatchLock(h)
  <2>1. LockInv'
    BY <1>1 DEF WatchLock, WatchRefused, Goto, Return, Idle, Structure, LockInv, TypeInv, TypeOK, HandlerState
  <2>2. PhaseInv'
    BY <1>1 DEF WatchLock, WatchRefused, Running, Goto, Return, Idle, Structure, PhaseInv, TypeInv, TypeOK
  <2>3. SingleFollower'
    BY <1>1 DEF WatchLock, Structure, SingleFollower
  <2> QED BY <2>1, <2>2, <2>3 DEF Structure
<1>2. CASE \E f \in Follower : WatchStart(h, f)
  <2>1. PICK f \in Follower : WatchStart(h, f)
    BY <1>2
  <2>2. h \in runMu /\ handler[h].id \in Request \ workers
    BY <2>1 DEF WatchStart, Structure, LockInv, TypeInv, TypeOK, HandlerState, Idle
  <2>3. LockInv'
    BY <2>1, <2>2 DEF WatchStart, Return, Idle, Structure, LockInv, TypeInv, TypeOK
  <2>4. PhaseInv'
    BY <2>1, <2>2 DEF WatchStart, StartFollower, Return, Idle, Structure, PhaseInv, TypeInv, TypeOK
  <2>5. SingleFollower'
    BY <2>1, <2>2, StartFollowerSingle DEF WatchStart, Structure
  <2> QED BY <2>3, <2>4, <2>5 DEF Structure
<1>3. CASE /\ handler[h].pc # "locked" /\ handler'[h].pc # "locked"
           /\ \A g \in Handler \ {h} : handler'[g] = handler[g]
           /\ handler[h] # Idle \/ phase = "up"
           /\ UNCHANGED <<serverVars, follower>>
  <2>1. LockInv'
    BY <1>3 DEF Structure, LockInv, serverVars, TypeInv, TypeOK
  <2>2. PhaseInv'
    BY <1>3 DEF Structure, PhaseInv, serverVars
  <2>3. SingleFollower'
    BY <1>3 DEF Structure, SingleFollower, serverVars
  <2> QED BY <2>1, <2>2, <2>3 DEF Structure
<1>4. ASSUME ~WatchLock(h), ~\E f \in Follower : WatchStart(h, f)
      PROVE  /\ handler[h].pc # "locked" /\ handler'[h].pc # "locked"
             /\ \A g \in Handler \ {h} : handler'[g] = handler[g]
             /\ handler[h] # Idle \/ phase = "up"
             /\ UNCHANGED <<serverVars, follower>>
  BY <1>4 DEF HandlerStep, BeginSubmit, ReadSession, ReserveRun, BeginStop, RequestStop, BeginList,
     FetchReply, RefreshReply, Abandon, OnlyHandler, Return, Goto, Idle, HandlerState, TypeInv, TypeOK
<1> QED BY <1>1, <1>2, <1>3, <1>4

LEMMA StructureStep == TypeInv /\ Structure /\ [Next]_vars => Structure'
<1> SUFFICES ASSUME TypeInv, Structure, [Next]_vars
             PROVE  Structure'
  OBVIOUS
<1>1. CASE \E h \in Handler : HandlerStep(h)
  BY <1>1, StructureHandler
<1>2. CASE \E f \in Follower : FollowerStep(f)
  BY <1>2, StructureFollower
<1>3. CASE UNCHANGED <<serverVars, handler, follower>>
  BY <1>3 DEF Structure, LockInv, PhaseInv, SingleFollower, serverVars
<1>4. CASE (\E t \in Thread : DeleteThread(t)) \/ GatewayStep \/ UNCHANGED vars
  BY <1>3, <1>4 DEF DeleteThread, GatewayStep, GwProgress, GwSettle, GwReply, GwForget, GwRewrite,
     GwRotateSession, GwRestart, LatePost, OnlyGateway, vars
<1>5. CASE ProcessStep
  <2>1. CASE CloseCancel \/ CloseBarrier \/ CloseWait \/ RecoverDone
    BY <2>1 DEF CloseCancel, CloseBarrier, BarrierPassed, CloseWait, RecoverDone, Structure,
       LockInv, PhaseInv, SingleFollower
  <2>2. CASE Leave \/ Crash
    <3>1. LoseMemory
      BY <2>2 DEF Leave, Crash
    <3> QED BY <3>1 DEF LoseMemory, Structure, LockInv, PhaseInv, SingleFollower, Idle
  <2>3. CASE Boot
    BY <2>3 DEF Boot, Structure, LockInv, PhaseInv, SingleFollower
  <2>4. CASE \E q \in Request, f \in Follower : RecoverRun(q, f)
    <3>1. PICK q \in Request, f \in Follower : RecoverRun(q, f)
      BY <2>4
    <3>2. q \notin workers /\ runMu = {}
      BY <3>1 DEF RecoverRun, Structure, PhaseInv, LockInv, TypeInv, TypeOK, Idle
    <3>3. SingleFollower'
      BY <3>1, <3>2, StartFollowerSingle DEF RecoverRun, Structure
    <3>4. LockInv' /\ PhaseInv'
      BY <3>1, <3>2 DEF RecoverRun, StartFollower, Structure, LockInv, PhaseInv
    <3> QED BY <3>3, <3>4 DEF Structure
  <2> QED BY <1>5, <2>1, <2>2, <2>3, <2>4 DEF ProcessStep
<1> QED BY <1>1, <1>2, <1>4, <1>5 DEF Next

LEMMA StructureInit == Init => Structure
BY DEF Init, Structure, LockInv, PhaseInv, SingleFollower, Idle

-----------------------------------------------------------------------------
(* Layer 2 *)

\* The steps of a follower other than its exit are of two kinds: it publishes
\* a copy of its run, which is active in the store, or it moves on without
\* writing the run.  It goes to its exit with the run settled, the server being
\* closed or the run stranded.
Verdict == {"completed", "cancelled"}

Publishes(f) ==
    \E r \in Run, pc \in {"accept", "poll", "exit"} :
        /\ IsActive(follower[f].id)
        /\ r.thread = runs[follower[f].id].thread
        /\ pc # "exit" => r.status \in Active
        /\ pc = "exit" => r.status \in Terminal \/ ~Running
        /\ pc = "accept" => ~r.accepted /\ ~runs[follower[f].id].accepted
        /\ r.status \in Verdict => follower[f].pc \in Working /\ r.status = follower[f].run.status
        /\ Publish(f, r, pc)

Moves(f) ==
    /\ UNCHANGED <<threads, runs, asked, replies, stopKeys>>
    /\ stranded \subseteq stranded'
    /\ stoppedKeys' \subseteq stoppedKeys \cup {p \in Request : runs[p] # NoRun}
    /\ follower'[f].pc \in Working =>
          /\ IsActive(follower[f].id)
          /\ follower'[f].run.thread = runs[follower[f].id].thread
          /\ follower'[f].pc # "save" => follower'[f].run.status \in Active
    /\ follower'[f].pc \in {"accept", "posting"} =>
          ~runs[follower[f].id].accepted /\ ~follower'[f].run.accepted
    /\ follower'[f].pc = "save" => /\ follower'[f].run.status = hermes[follower[f].id].status
                                  /\ UNCHANGED hermes
    /\ follower'[f].pc = "exit" =>
          ~IsActive(follower[f].id) \/ ~Running \/ follower[f].id \in stranded'

LEMMA FollowerCases ==
  ASSUME TypeInv, Structure, Rows, NEW f \in Follower, FollowerStep(f), ~FollowExit(f)
  PROVE  Publishes(f) \/ Moves(f)
<1> DEFINE q == follower[f].id
           r == follower[f].run
<1>1. /\ follower[f] # Idle /\ follower[f] \in FollowerState /\ q \in Request
      /\ follower \in [Follower -> FollowerState \cup {Idle}] /\ UNCHANGED handler
  BY FollowerKeeps DEF TypeInv, TypeOK, FollowerState
<1>2. CASE FollowLoad(f)
  <2>1. CASE runs[q].status \notin Active /\ Move(f, "exit")
    BY <1>1, <1>2, <2>1 DEF Moves, FollowLoad, Move, storeVars, FollowerState, Working, IsActive
  <2>4. CASE LoadFails(f)
    BY <1>1, <1>2, <2>4 DEF Moves, FollowLoad, LoadFails, storeVars, FollowerState, Working
  <2>2. CASE runs[q].status \in Active /\ runs[q].thread \notin configured /\ ~LoadFails(f)
    <3>1. [runs[q] EXCEPT !.status = "interrupted"] \in Run
      BY <1>1, <2>2 DEF TypeInv, TypeOK, Run, NoRun, Active, Terminal
    <3>2. Publish(f, [runs[q] EXCEPT !.status = "interrupted"], "exit")
      BY <1>2, <2>2 DEF FollowLoad
    <3>3. /\ [runs[q] EXCEPT !.status = "interrupted"].thread = runs[q].thread
          /\ [runs[q] EXCEPT !.status = "interrupted"].status \in Terminal \ Verdict
      BY <1>1, <2>2 DEF TypeInv, TypeOK, Run, NoRun, Active, Terminal, Verdict
    <3> QED BY <1>1, <2>2, <3>1, <3>2, <3>3 DEF Publishes, IsActive
  <2>3. CASE runs[q].status \in Active /\ runs[q].thread \in configured /\ ~LoadFails(f)
    BY <1>1, <1>2, <2>3 DEF Moves, FollowLoad, ResumeAt, storeVars, FollowerState, IsActive,
       Working
  <2> QED BY <1>2, <2>1, <2>2, <2>3, <2>4 DEF FollowLoad
<1>3. CASE follower[f].pc = "exit" \/ FollowCancelled(f)
  <2>1. FollowCancelled(f)
    BY <1>3 DEF FollowerStep, FollowLoad, FollowCancelled, ExpireWindow,
       SendPost, PostAnswered, PostFailed, PostDetached, StreamDelta, StreamApproval,
       PollWithoutStop, StopAnswered, StopFailed, GetAnswered, GetMissing, GetFailed, SaveStatus
  <2> QED
    BY <1>1, <2>1 DEF Moves, FollowCancelled, Move, storeVars, FollowerState, Working
<1>4. CASE follower[f].pc \in Working
  <2>1. /\ r \in Run /\ IsActive(q) /\ r.thread = runs[q].thread
        /\ follower[f].pc # "save" => r.status \in Active
        /\ follower[f].pc \in {"accept", "posting"} => ~r.accepted /\ ~runs[q].accepted
    BY <1>4 DEF TypeInv, LocalRuns, Rows, OwnsActive, Unaccepted
  <2>2. ASSUME NEW s \in Active \cup Terminal
        PROVE  /\ [r EXCEPT !.status = s] \in Run
               /\ [r EXCEPT !.status = s].thread = r.thread
               /\ [r EXCEPT !.status = s].status = s
    BY <2>1 DEF Run
  <2>3. CASE ExpireWindow(f) \/ GetMissing(f)
    <3>1. "interrupted" \in Terminal \ Verdict BY DEF Terminal, Verdict
    <3>2. Publish(f, [r EXCEPT !.status = "interrupted"], "exit")
      BY <2>3 DEF ExpireWindow, GetMissing
    <3> QED BY <1>1, <2>1, <2>2, <3>1, <3>2 DEF Publishes
  <2>4. CASE SendPost(f)
    BY <1>1, <2>1, <2>4 DEF Moves, SendPost, Move, storeVars, FollowerState
  <2>5. CASE PostAnswered(f)
    <3>1. CASE Publish(f, [r EXCEPT !.accepted = TRUE, !.status = "queued"], "poll")
      <4>1. [r EXCEPT !.accepted = TRUE, !.status = "queued"] \in Run
        BY <2>1 DEF Run, Active
      <4>2. /\ [r EXCEPT !.accepted = TRUE, !.status = "queued"].thread = runs[q].thread
            /\ [r EXCEPT !.accepted = TRUE, !.status = "queued"].status \in Active \ Verdict
        BY <2>1 DEF Run, Active, Verdict
      <4> QED BY <1>1, <2>1, <3>1, <4>1, <4>2 DEF Publishes
    <3>2. CASE Publish(f, [r EXCEPT !.status = "failed"], "exit")
      <4>1. "failed" \in Terminal \ Verdict BY DEF Terminal, Verdict
      <4> QED BY <1>1, <2>1, <2>2, <3>2, <4>1 DEF Publishes
    <3> QED BY <2>5, <3>1, <3>2 DEF PostAnswered
  <2>6. CASE PostFailed(f)
    <3>1. r.status \in Active \ Verdict /\ ~r.accepted /\ ~runs[q].accepted
      BY <2>1, <2>6 DEF PostFailed, Active, Verdict
    <3>2. Publish(f, r, "accept") \/ (~Running /\ Publish(f, r, "exit"))
      BY <2>6 DEF PostFailed
    <3> QED BY <1>1, <2>1, <3>1, <3>2 DEF Publishes
  <2>7. CASE PostDetached(f)
    BY <1>1, <2>1, <2>7 DEF Moves, PostDetached, storeVars
  <2>8. CASE StreamDelta(f)
    <3>1. /\ follower'[f].pc = "poll" /\ follower'[f].run = [r EXCEPT !.output = @ + 1]
      BY <1>1, <2>8 DEF StreamDelta, FollowerState
    <3>2. follower'[f].run.thread = r.thread /\ follower'[f].run.status = r.status
      BY <3>1, <2>1 DEF Run
    <3> QED BY <1>1, <2>1, <2>8, <3>1, <3>2 DEF Moves, StreamDelta, storeVars
  <2>9. CASE StreamApproval(f)
    <3>1. "waiting_for_approval" \in Active \ Verdict BY DEF Active, Verdict
    <3>2. Publish(f, [r EXCEPT !.status = "waiting_for_approval"], "poll")
      BY <2>9 DEF StreamApproval
    <3> QED BY <1>1, <2>1, <2>2, <3>1, <3>2 DEF Publishes
  <2>10. CASE PollWithoutStop(f) \/ StopFailed(f)
    BY <1>1, <2>1, <2>10 DEF Moves, PollWithoutStop, StopFailed, Move, storeVars, FollowerState
  <2>11. CASE StopAnswered(f)
    <3>1. runs[q] # NoRun
      BY <2>1 DEF IsActive, NoRun, Active
    <3>2. follower'[f].pc = "get" /\ follower'[f].run = r
      BY <1>1, <2>11 DEF StopAnswered, FollowerState
    <3> QED BY <1>1, <2>1, <2>11, <3>1, <3>2 DEF Moves, StopAnswered
  <2>12. CASE GetAnswered(f)
    <3>1. /\ follower'[f].pc = "save" /\ follower'[f].run = Snapshot(r, hermes[q])
          /\ UNCHANGED hermes
      BY <1>1, <2>12 DEF GetAnswered, OnlyFollower, gatewayVars, FollowerState
    <3>2. follower'[f].run.thread = r.thread /\ follower'[f].run.status = hermes[q].status
      BY <3>1, <2>1 DEF Snapshot, Run
    <3> QED BY <1>1, <2>1, <2>12, <3>1, <3>2 DEF Moves, GetAnswered, storeVars
  <2>13. CASE GetFailed(f)
    <3>1. r.status \in Active \ Verdict
      BY <2>1, <2>13 DEF GetFailed, Active, Verdict
    <3> QED BY <1>1, <2>1, <2>13, <3>1 DEF Publishes, GetFailed
  <2>14. CASE SaveStatus(f)
    <3>1. PICK s \in {r.session, chatSession[r.thread]} :
             Publish(f, [r EXCEPT !.session = s],
                     IF [r EXCEPT !.session = s].status \in Active THEN "poll" ELSE "exit")
      BY <2>14 DEF SaveStatus, Transcribed
    <3>2. /\ [r EXCEPT !.session = s] \in Run /\ [r EXCEPT !.session = s].thread = r.thread
          /\ [r EXCEPT !.session = s].status \in Active \cup Terminal
          /\ [r EXCEPT !.session = s].status = r.status
      BY <2>1 DEF Run, TypeInv, TypeOK
    <3> QED BY <1>1, <1>4, <2>1, <3>1, <3>2 DEF Publishes
  <2> QED
    BY <1>2, <1>3, <2>3, <2>4, <2>5, <2>6, <2>7, <2>8, <2>9, <2>10, <2>11, <2>12, <2>13, <2>14
       DEF FollowerStep
<1>5. follower[f].pc \in Working \/ follower[f].pc = "exit" \/ FollowLoad(f)
  BY <1>1 DEF FollowerState, Working, FollowerStep, FollowLoad, FollowCancelled, ExpireWindow,
       SendPost, PostAnswered, PostFailed, PostDetached, StreamDelta, StreamApproval,
       PollWithoutStop, StopAnswered, StopFailed, GetAnswered, GetMissing, GetFailed, SaveStatus
<1> QED BY <1>2, <1>3, <1>4, <1>5

\* Publishing a run that is active in the store, from the follower that owns it.
LEMMA PublishRows ==
  ASSUME TypeInv, Structure, Rows, NEW f \in Follower, follower[f] # Idle,
         IsActive(follower[f].id),
         NEW r \in Run, r.thread = runs[follower[f].id].thread,
         NEW pc \in {"accept", "poll", "exit"},
         pc # "exit" => r.status \in Active,
         pc = "accept" => ~r.accepted /\ ~runs[follower[f].id].accepted,
         Publish(f, r, pc), UNCHANGED handler
  PROVE  Rows'
<1> DEFINE q == follower[f].id
<1>1. follower[f] \in FollowerState /\ q \in Request /\ runs[q] \in Run /\ runs[q] # NoRun
  BY DEF TypeInv, TypeOK, FollowerState, IsActive, NoRun, Active
<1>2. /\ \A p \in Request \ {q} : runs'[p] = runs[p] /\ replies'[p] = replies[p]
      /\ runs'[q] \in {runs[q], r}
      /\ UNCHANGED <<threads, asked, stopKeys, stoppedKeys>>
      /\ replies' \in [Request -> Output]
  BY <1>1 DEF Publish, SaveRun, TypeInv, TypeOK, Run
<1>3. replies'[q] = IF runs'[q].status \in Terminal THEN runs'[q].output ELSE 0
  BY <1>1 DEF Publish, SaveRun, TypeInv, TypeOK, Run, Rows, ReplyMatchesRun, IsTerminal, IsActive,
     Active, Terminal
<1>4. /\ follower'[f].pc = pc /\ follower'[f].run = r /\ follower'[f].id = q
      /\ \A g \in Follower \ {f} : follower'[g] = follower[g]
  BY <1>1 DEF Publish, TypeInv, TypeOK, FollowerState
<1>5. runs'[q].status \in Active \/ pc = "exit"
  BY <1>2 DEF IsActive
<1>6. \A g \in Follower \ {f} : follower[g].pc \in Working => follower[g].id \in Request \ {q}
  BY <1>1 DEF Structure, SingleFollower, TypeInv, TypeOK, FollowerState, Working, Idle
<1>7. OwnsActive'
  BY <1>1, <1>2, <1>4, <1>5, <1>6 DEF Rows, OwnsActive, IsActive, Working
<1>8. Unaccepted'
  BY <1>1, <1>2, <1>4, <1>6 DEF Rows, Unaccepted, Working
<1>9. StopTarget'
  BY <1>1, <1>2 DEF Rows, StopTarget, TypeInv, TypeOK, HandlerState, Idle, Run, NoRun
<1>10. OneActivePerThread'
  BY <1>1, <1>2 DEF Rows, OneActivePerThread, IsActive
<1>11. ReplyMatchesRun'
  BY <1>2, <1>3 DEF Rows, ReplyMatchesRun, IsTerminal
<1>12. NoOrphans'
  BY <1>1, <1>2 DEF Rows, NoOrphans, Run, NoRun
<1> QED BY <1>7, <1>8, <1>9, <1>10, <1>11, <1>12 DEF Rows

\* A follower that moves on without writing the store.
LEMMA MoveRows ==
  ASSUME TypeInv, Structure, Rows, NEW f \in Follower, FollowerStep(f), ~FollowExit(f), Moves(f)
  PROVE  Rows'
<1>1. /\ follower'[f].id = follower[f].id
      /\ \A g \in Follower \ {f} : follower'[g] = follower[g]
      /\ UNCHANGED handler
  BY FollowerKeeps
<1>2. OwnsActive' /\ Unaccepted'
  BY <1>1 DEF Moves, Rows, OwnsActive, Unaccepted, IsActive, Working
<1>3. StopTarget' /\ OneActivePerThread' /\ ReplyMatchesRun'
  BY <1>1 DEF Moves, Rows, StopTarget, OneActivePerThread, ReplyMatchesRun, IsActive, IsTerminal
<1>4. NoOrphans'
  BY DEF Moves, Rows, NoOrphans
<1> QED BY <1>2, <1>3, <1>4 DEF Rows

LEMMA RowsFollower ==
  ASSUME TypeInv, Structure, Rows, NEW f \in Follower, FollowerStep(f)
  PROVE  Rows'
<1>1. CASE FollowExit(f)
  BY <1>1 DEF FollowExit, storeVars, Rows, OwnsActive, Unaccepted, StopTarget, OneActivePerThread,
     ReplyMatchesRun, NoOrphans, IsActive, IsTerminal, Working, TypeInv, TypeOK, Idle
<1>2. CASE ~FollowExit(f) /\ Moves(f)
  BY <1>2, MoveRows
<1>3. CASE ~FollowExit(f) /\ Publishes(f)
  <2>1. follower[f] # Idle /\ UNCHANGED handler
    BY <1>3, FollowerKeeps
  <2> QED BY <1>3, <2>1, PublishRows DEF Publishes
<1> QED BY <1>1, <1>2, <1>3, FollowerCases

LEMMA RowsHandler ==
  ASSUME TypeInv, Structure, Rows, NEW h \in Handler, HandlerStep(h)
  PROVE  Rows'
<1>1. CASE ReserveRun(h) /\ UNCHANGED storeVars
  <2>1. \A g \in Handler : handler'[g].pc = "stop" => handler'[g] = handler[g]
    <3>1. handler[h] \in HandlerState
      BY <1>1 DEF ReserveRun, Idle, TypeInv, TypeOK
    <3>2. Goto(h, "watch") \/ Return(h)
      BY <1>1 DEF ReserveRun
    <3> QED BY <3>1, <3>2 DEF Goto, Return, Idle, HandlerState, TypeInv, TypeOK
  <2>2. UNCHANGED follower
    BY <1>1 DEF ReserveRun
  <2> QED
    BY <1>1, <2>1, <2>2 DEF storeVars, Rows, OwnsActive, Unaccepted, StopTarget,
       OneActivePerThread, ReplyMatchesRun, NoOrphans, IsActive, IsTerminal
<1>2. CASE ReserveRun(h) /\ ~UNCHANGED storeVars
  <2> DEFINE q == handler[h].id
             t == handler[h].thread
             n == NewRun(t, handler[h].body, handler[h].session)
  <2>1. handler[h] \in HandlerState /\ q \in Request /\ t \in Thread
    BY <1>2 DEF ReserveRun, TypeInv, TypeOK, HandlerState, Idle
  <2>2. /\ runs[q] = NoRun /\ ~Busy(t) /\ t \in threads
        /\ runs' = [runs EXCEPT ![q] = n]
        /\ asked' = asked \cup {q}
        /\ UNCHANGED <<threads, replies, stopKeys, stoppedKeys, follower>>
        /\ handler' = [handler EXCEPT ![h].pc = "watch"]
    BY <1>2 DEF ReserveRun, Goto, Exists
  <2>3. n # NoRun /\ n.thread = t /\ n.status \in Active /\ n.status \notin Terminal
    BY DEF NewRun, NoRun, Active, Terminal
  <2>4. \A f \in Follower : follower[f].pc \in Working => follower[f].id # q
    BY <2>2 DEF Rows, OwnsActive, IsActive, NoRun, Active
  <2>5. OwnsActive'
    BY <2>1, <2>2, <2>4 DEF Rows, OwnsActive, IsActive, TypeInv, TypeOK
  <2>6. Unaccepted'
    BY <2>1, <2>2, <2>4 DEF Rows, Unaccepted, TypeInv, TypeOK, Working
  <2>7. StopTarget'
    BY <2>1, <2>2, <2>3 DEF Rows, StopTarget, TypeInv, TypeOK, HandlerState
  <2>8. OneActivePerThread'
    BY <2>1, <2>2, <2>3 DEF Rows, OneActivePerThread, Busy, IsActive, TypeInv, TypeOK
  <2>9. ReplyMatchesRun'
    BY <2>1, <2>2, <2>3 DEF Rows, ReplyMatchesRun, IsTerminal, NoRun, Terminal, TypeInv, TypeOK
  <2>10. NoOrphans'
    BY <2>1, <2>2, <2>3 DEF Rows, NoOrphans, TypeInv, TypeOK
  <2> QED BY <2>5, <2>6, <2>7, <2>8, <2>9, <2>10 DEF Rows
<1>3. CASE RequestStop(h)
  <2>1. handler[h] \in HandlerState /\ handler[h].pc = "stop"
    BY <1>3 DEF RequestStop, TypeInv, TypeOK, Idle
  <2>2. NoOrphans'
    BY <1>3, <2>1 DEF RequestStop, Exists, Rows, NoOrphans, StopTarget
  <2>3. StopTarget'
    BY <1>3, <2>1 DEF RequestStop, Return, Idle, Rows, StopTarget, TypeInv, TypeOK
  <2> QED
    BY <1>3, <2>2, <2>3 DEF RequestStop, Rows, OwnsActive, Unaccepted, OneActivePerThread,
       ReplyMatchesRun, IsActive, IsTerminal
<1>4. CASE RefreshReply(h)
  <2> DEFINE q == handler[h].id
  <2>1. handler[h] \in HandlerState /\ q \in Request
    BY <1>4 DEF RefreshReply, TypeInv, TypeOK, HandlerState, Idle
  <2>2. StopTarget'
    <3>1. \A g \in Handler : handler'[g].pc = "stop" => g # h /\ handler'[g] = handler[g]
      BY <1>4 DEF RefreshReply, Return, Idle, TypeInv, TypeOK
    <3>2. \A p \in Request : runs[p] # NoRun => runs'[p] # NoRun /\ runs'[p].thread = runs[p].thread
      BY <1>4, <2>1 DEF RefreshReply, IsTerminal, Terminal, TypeInv, TypeOK, Run, NoRun
    <3> QED BY <3>1, <3>2, <1>4 DEF RefreshReply, Rows, StopTarget, TypeInv, TypeOK, HandlerState, Idle
  <2>3. CASE ~IsTerminal(q)
    BY <1>4, <2>2, <2>3 DEF RefreshReply, Rows, OwnsActive, Unaccepted, OneActivePerThread,
       ReplyMatchesRun, NoOrphans, IsActive, IsTerminal
  <2>4. CASE IsTerminal(q)
    <3>1. runs[q] \in Run /\ runs[q] # NoRun /\ ~IsActive(q)
      BY <2>1, <2>4 DEF IsTerminal, IsActive, NoRun, Terminal, Active, TypeInv, TypeOK, Run
    <3> DEFINE n == [runs[q] EXCEPT !.output = handler[h].output]
    <3>2. n # NoRun /\ n.thread = runs[q].thread /\ n.status = runs[q].status /\ n.output = handler[h].output
      BY <3>1 DEF Run, NoRun
    <3>3. /\ runs' = [runs EXCEPT ![q] = n]
          /\ replies' = [replies EXCEPT ![q] = handler[h].output]
          /\ UNCHANGED <<threads, asked, stopKeys, stoppedKeys, follower>>
      BY <1>4, <2>4 DEF RefreshReply
    <3>4. \A f \in Follower : follower[f].pc \in Working => follower[f].id # q
      BY <3>1 DEF Rows, OwnsActive
    <3>5. OwnsActive' /\ Unaccepted'
      BY <2>1, <3>3, <3>4 DEF Rows, OwnsActive, Unaccepted, IsActive, TypeInv, TypeOK, Working
    <3>6. OneActivePerThread'
      BY <2>1, <3>1, <3>2, <3>3 DEF Rows, OneActivePerThread, IsActive, TypeInv, TypeOK
    <3>7. ReplyMatchesRun'
      BY <2>1, <2>4, <3>2, <3>3 DEF Rows, ReplyMatchesRun, IsTerminal, TypeInv, TypeOK
    <3>8. NoOrphans'
      BY <2>1, <3>1, <3>2, <3>3 DEF Rows, NoOrphans, TypeInv, TypeOK
    <3> QED BY <2>2, <3>5, <3>6, <3>7, <3>8 DEF Rows
  <2> QED BY <2>3, <2>4
<1>5. CASE \E q \in Request, t \in Thread : BeginStop(h, q, t)
  <2>1. StopTarget'
    BY <1>5 DEF BeginStop, OnlyHandler, storeVars, Rows, StopTarget, IsActive, Active, NoRun, TypeInv, TypeOK
  <2> QED
    BY <1>5, <2>1 DEF BeginStop, OnlyHandler, storeVars, Rows, OwnsActive, Unaccepted,
       OneActivePerThread, ReplyMatchesRun, NoOrphans, IsActive, IsTerminal
<1>6. CASE \E f \in Follower : WatchStart(h, f)
  <2>1. \A g \in Handler : handler'[g].pc = "stop" => handler'[g] = handler[g]
    BY <1>6 DEF WatchStart, Return, Idle, TypeInv, TypeOK
  <2>2. \A g \in Follower : follower'[g].pc \in Working => follower'[g] = follower[g]
    BY <1>6 DEF WatchStart, StartFollower, TypeInv, TypeOK, Working
  <2> QED
    BY <1>6, <2>1, <2>2 DEF WatchStart, storeVars, Rows, OwnsActive, Unaccepted, StopTarget,
       OneActivePerThread, ReplyMatchesRun, NoOrphans, IsActive, IsTerminal, Working
<1>7. CASE /\ UNCHANGED <<storeVars, follower>>
           /\ \A g \in Handler : handler'[g].pc = "stop" => handler'[g] = handler[g]
  BY <1>7 DEF storeVars, Rows, OwnsActive, Unaccepted, StopTarget,
       OneActivePerThread, ReplyMatchesRun, NoOrphans, IsActive, IsTerminal
<1>8. ASSUME \/ \E q \in Request, t \in Thread, b \in Body : BeginSubmit(h, q, t, b)
             \/ ReadSession(h) \/ WatchLock(h) \/ (\E q \in Request : BeginList(h, q))
             \/ FetchReply(h) \/ Abandon(h)
      PROVE  /\ UNCHANGED <<storeVars, follower>>
             /\ \A g \in Handler : handler'[g].pc = "stop" => handler'[g] = handler[g]
  BY <1>8 DEF BeginSubmit, ReadSession, WatchLock, BeginList, FetchReply, Abandon, OnlyHandler,
     Return, Goto, Idle, HandlerState, TypeInv, TypeOK
<1> QED BY <1>1, <1>2, <1>3, <1>4, <1>5, <1>6, <1>7, <1>8 DEF HandlerStep

LEMMA RowsDelete ==
  ASSUME TypeInv, Structure, Rows, NEW t \in Thread, DeleteThread(t)
  PROVE  Rows'
<1>1. \A q \in Request : IsActive(q) => runs[q].thread # t
  BY DEF DeleteThread, Busy
<1>2. OwnsActive' /\ Unaccepted'
  BY <1>1 DEF DeleteThread, Rows, OwnsActive, Unaccepted, IsActive, Working, TypeInv, TypeOK,
     FollowerState, Idle, Active, NoRun
<1>3. StopTarget'
  BY DEF DeleteThread, Rows, StopTarget, TypeInv, TypeOK, HandlerState, Idle
<1>4. OneActivePerThread'
  BY DEF DeleteThread, Rows, OneActivePerThread, IsActive, NoRun, Active
<1>5. ReplyMatchesRun'
  BY DEF DeleteThread, Rows, ReplyMatchesRun, IsTerminal, NoRun, Terminal
<1>6. NoOrphans'
  BY DEF DeleteThread, Rows, NoOrphans
<1> QED BY <1>2, <1>3, <1>4, <1>5, <1>6 DEF Rows

LEMMA RowsStep == TypeInv /\ Structure /\ Rows /\ [Next]_vars => Rows'
<1> SUFFICES ASSUME TypeInv, Structure, Rows, [Next]_vars
             PROVE  Rows'
  OBVIOUS
<1>1. CASE UNCHANGED <<storeVars, handler, follower>>
  BY <1>1 DEF storeVars, Rows, OwnsActive, Unaccepted, StopTarget,
     OneActivePerThread, ReplyMatchesRun, NoOrphans, IsActive, IsTerminal
<1>2. CASE GatewayStep \/ UNCHANGED vars
  BY <1>1, <1>2 DEF GatewayStep, GwProgress, GwSettle, GwReply, GwForget, GwRewrite, GwRotateSession, GwRestart,
     LatePost, OnlyGateway, vars
<1>3. CASE ProcessStep
  <2>1. CASE CloseCancel \/ CloseBarrier \/ CloseWait \/ RecoverDone \/ Boot
    BY <1>1, <2>1 DEF CloseCancel, CloseBarrier, CloseWait, RecoverDone, Boot
  <2>2. CASE Leave \/ Crash
    <3>1. LoseMemory
      BY <2>2 DEF Leave, Crash
    <3> QED
      BY <3>1 DEF LoseMemory, storeVars, Rows, OwnsActive, Unaccepted, StopTarget, Idle, Working,
         OneActivePerThread, ReplyMatchesRun, NoOrphans, IsActive, IsTerminal
  <2>3. CASE \E q \in Request, f \in Follower : RecoverRun(q, f)
    <3>1. \A g \in Follower : follower'[g].pc \in Working => follower'[g] = follower[g]
      BY <2>3 DEF RecoverRun, StartFollower, TypeInv, TypeOK, Working
    <3> QED
      BY <2>3, <3>1 DEF RecoverRun, storeVars, Rows, OwnsActive, Unaccepted, StopTarget,
         OneActivePerThread, ReplyMatchesRun, NoOrphans, IsActive, IsTerminal, Working
  <2> QED BY <1>3, <2>1, <2>2, <2>3 DEF ProcessStep
<1> QED BY <1>2, <1>3, RowsHandler, RowsFollower, RowsDelete DEF Next

LEMMA RowsInit == Init => Rows
BY DEF Init, Rows, OwnsActive, Unaccepted, StopTarget, OneActivePerThread, ReplyMatchesRun, NoOrphans,
   IsActive, IsTerminal, Idle, Working, NoRun, Active, Terminal

-----------------------------------------------------------------------------
(* Layer 3 *)

\* What a step of a follower other than its exit does to the rows: only the
\* row of its own run changes, only from active, and never into another
\* conversation; an active row is left by the follower only if its save
\* or first read failed or the server is being closed.
LEMMA FollowerWrites ==
  ASSUME TypeInv, Structure, Rows, NEW f \in Follower, FollowerStep(f), ~FollowExit(f)
  PROVE  /\ follower[f].id \in Request
         /\ UNCHANGED threads
         /\ \A p \in Request \ {follower[f].id} : runs'[p] = runs[p] /\ replies'[p] = replies[p]
         /\ \/ /\ runs'[follower[f].id] = runs[follower[f].id]
               /\ replies'[follower[f].id] = replies[follower[f].id]
            \/ /\ IsActive(follower[f].id) /\ runs'[follower[f].id] \in Run
               /\ runs'[follower[f].id].thread = runs[follower[f].id].thread
         /\ stranded \subseteq stranded'
         /\ Running /\ follower'[f].pc = "exit" =>
               runs'[follower[f].id].status \notin Active \/ follower[f].id \in stranded'
<1> DEFINE q == follower[f].id
<1>1. follower[f] \in FollowerState /\ q \in Request
  BY FollowerKeeps DEF TypeInv, TypeOK, FollowerState
<1>2. CASE Moves(f)
  BY <1>1, <1>2, FollowerCases DEF Moves, IsActive
<1>3. CASE Publishes(f)
  <2>1. PICK r \in Run, pc \in {"accept", "poll", "exit"} :
           /\ IsActive(q) /\ r.thread = runs[q].thread
           /\ pc = "exit" => r.status \in Terminal \/ ~Running
           /\ Publish(f, r, pc)
    BY <1>3 DEF Publishes
  <2>2. follower'[f].pc = pc
    BY <1>1, <2>1 DEF Publish, FollowerState, TypeInv, TypeOK
  <2>3. runs[q] \in Run /\ runs[q] # NoRun
    BY <1>1, <2>1 DEF TypeInv, TypeOK, IsActive, NoRun, Active
  <2>4. CASE SaveRun(q, r) /\ UNCHANGED <<budget, stranded>>
    BY <1>1, <2>1, <2>2, <2>3, <2>4 DEF Publish, SaveRun, TypeInv, TypeOK, Active, Terminal
  <2>5. CASE UNCHANGED <<runs, replies>> /\ stranded' = IF pc = "exit" THEN stranded \cup {q} ELSE stranded
    BY <1>1, <2>1, <2>2, <2>5 DEF Publish
  <2> QED BY <2>1, <2>4, <2>5 DEF Publish
<1> QED BY <1>2, <1>3, FollowerCases

LEMMA CareFollower ==
  ASSUME TypeInv, Structure, Rows, Care, NEW f \in Follower, FollowerStep(f)
  PROVE  Care'
<1>1. CASE FollowExit(f)
  <2>1. /\ follower[f].pc = "exit" /\ follower'[f] = Idle
        /\ \A g \in Follower \ {f} : follower'[g] = follower[g]
        /\ UNCHANGED <<runs, phase, recovering, handler, stranded, retired>>
    BY <1>1 DEF FollowExit, storeVars, TypeInv, TypeOK
  <2>2. KnownIds' /\ Leaving'
    BY <2>1 DEF Care, KnownIds, Leaving, IsActive, Running, Idle
  <2>3. Followed'
    BY <2>1 DEF Care, Followed, Held, IsActive, Running, Idle
  <2> QED BY <2>2, <2>3 DEF Care
<1>2. CASE ~FollowExit(f)
  <2> DEFINE q == follower[f].id
  <2>1. /\ follower[f] # Idle /\ follower'[f] # Idle /\ follower'[f].id = q
        /\ \A g \in Follower \ {f} : follower'[g] = follower[g]
        /\ UNCHANGED <<phase, recovering, handler, retired>>
    BY <1>2, FollowerKeeps DEF serverVars
  <2>2. /\ q \in Request /\ stranded \subseteq stranded'
        /\ \A p \in Request : p # q => runs'[p] = runs[p]
        /\ runs'[q] = NoRun <=> runs[q] = NoRun
        /\ \A p \in Request : runs'[p].status \in Active => runs[p].status \in Active
        /\ Running /\ follower'[f].pc = "exit" => runs'[q].status \notin Active \/ q \in stranded'
    BY <1>2, FollowerWrites DEF IsActive, Run, NoRun, Active
  <2>3. KnownIds'
    BY <2>1, <2>2 DEF Care, KnownIds, TypeInv, TypeOK, FollowerState, HandlerState, Idle
  <2>4. \A g \in Follower \ {f} : follower[g] # Idle => follower[g].id \in Request \ {q}
    BY <2>1, <2>2 DEF Structure, SingleFollower, TypeInv, TypeOK, FollowerState
  <2>5. Leaving'
    BY <2>1, <2>2, <2>4 DEF Care, Leaving, IsActive, Running, Idle
  <2>6. Followed'
    BY <2>1, <2>2, <2>4 DEF Care, Followed, Held, IsActive, Running
  <2> QED BY <2>3, <2>5, <2>6 DEF Care
<1> QED BY <1>1, <1>2

LEMMA CareHandler ==
  ASSUME TypeInv, Structure, Rows, Care, NEW h \in Handler, HandlerStep(h)
  PROVE  Care'
<1>1. CASE ReserveRun(h) /\ ~UNCHANGED storeVars
  <2> DEFINE q == handler[h].id
             n == NewRun(handler[h].thread, handler[h].body, handler[h].session)
  <2>1. handler[h] \in HandlerState /\ q \in Request
    BY <1>1 DEF ReserveRun, TypeInv, TypeOK, HandlerState, Idle
  <2>2. /\ runs[q] = NoRun /\ runs' = [runs EXCEPT ![q] = n] /\ n # NoRun
        /\ handler' = [handler EXCEPT ![h].pc = "watch"]
        /\ UNCHANGED <<phase, recovering, follower, stranded, retired>>
    BY <1>1 DEF ReserveRun, Goto, serverVars, NewRun, NoRun
  <2>3. KnownIds'
    BY <2>1, <2>2 DEF Care, KnownIds, TypeInv, TypeOK, HandlerState
  <2>4. Leaving'
    BY <2>1, <2>2 DEF Care, KnownIds, Leaving, IsActive, Running, Idle, TypeInv, TypeOK, FollowerState
  <2>5. Followed'
    BY <2>1, <2>2 DEF Care, Followed, Held, IsActive, Running, TypeInv, TypeOK, HandlerState
  <2> QED BY <2>3, <2>4, <2>5 DEF Care
<1>2. CASE WatchLock(h) /\ WatchRefused(handler[h].id)
  <2> DEFINE q == handler[h].id
  <2>1. /\ handler[h].pc = "watch" /\ handler' = [handler EXCEPT ![h] = Idle]
        /\ UNCHANGED <<runs, phase, recovering, follower, stranded, retired>>
    BY <1>2 DEF WatchLock, Return, storeVars
  <2>2. KnownIds' /\ Leaving'
    BY <2>1 DEF Care, KnownIds, Leaving, IsActive, Running, Idle, TypeInv, TypeOK
  <2>3. Running /\ IsActive(q) => q \in stranded \cup retired \/
           \E f \in Follower : follower[f] # Idle /\ follower[f].id = q /\ follower[f].pc # "exit"
    BY <1>2 DEF WatchRefused, Structure, SingleFollower, Care, Leaving
  <2>4. Followed'
    BY <2>1, <2>3 DEF Care, Followed, Held, IsActive, Running, Idle, TypeInv, TypeOK
  <2> QED BY <2>2, <2>4 DEF Care
<1>3. CASE \E f \in Follower : WatchStart(h, f)
  <2> DEFINE q == handler[h].id
  <2>1. PICK f \in Follower : WatchStart(h, f)
    BY <1>3
  <2>2. /\ handler[h].pc = "locked" /\ follower[f] = Idle
        /\ handler' = [handler EXCEPT ![h] = Idle]
        /\ follower'[f] # Idle /\ follower'[f].id = q /\ follower'[f].pc = "load"
        /\ \A g \in Follower \ {f} : follower'[g] = follower[g]
        /\ stranded' = stranded \ {q}
        /\ UNCHANGED <<runs, phase, recovering, retired>>
    BY <2>1 DEF WatchStart, StartFollower, Return, storeVars, Idle, TypeInv, TypeOK
  <2>3. \A g \in Follower : follower[g] # Idle => follower[g].id # q
    BY <2>2 DEF Structure, LockInv, SingleFollower, TypeInv, TypeOK
  <2>4. KnownIds'
    BY <2>2 DEF Care, KnownIds, Idle, TypeInv, TypeOK
  <2>5. Leaving'
    BY <2>2, <2>3 DEF Care, Leaving, IsActive, Running, Idle
  <2>6. Followed'
    BY <2>2, <2>3 DEF Care, Followed, Held, IsActive, Running, Idle, TypeInv, TypeOK
  <2> QED BY <2>4, <2>5, <2>6 DEF Care
<1>4. CASE RefreshReply(h)
  <2>1. /\ handler[h].pc = "refresh" /\ handler' = [handler EXCEPT ![h] = Idle]
        /\ UNCHANGED <<phase, recovering, follower, stranded, retired>>
    BY <1>4 DEF RefreshReply, Return, serverVars
  <2>2. \A q \in Request : /\ runs'[q] = NoRun <=> runs[q] = NoRun
                           /\ runs'[q].status = runs[q].status
    BY <1>4 DEF RefreshReply, IsTerminal, Terminal, TypeInv, TypeOK, Run, NoRun
  <2> QED
    BY <2>1, <2>2 DEF Care, KnownIds, Leaving, Followed, Held, IsActive, Running, Idle, TypeInv, TypeOK,
       FollowerState, HandlerState
<1>5. CASE /\ UNCHANGED <<runs, phase, recovering, follower, stranded, retired>>
           /\ \A g \in Handler : g # h => handler'[g] = handler[g]
           /\ handler[h].pc \notin {"watch", "locked"} \/ handler'[h] = [handler[h] EXCEPT !.pc = "locked"]
           /\ handler'[h].pc \in {"watch", "locked"} =>
                 handler'[h].id \in Request /\ (runs[handler'[h].id] = NoRun => handler'[h].id \in retired)
  <2>1. KnownIds' /\ Leaving'
    BY <1>5 DEF Care, KnownIds, Leaving, IsActive, Running
  <2>2. \A q \in Request : Held(q) => Held(q)'
    BY <1>5 DEF Held, TypeInv, TypeOK, HandlerState, Idle
  <2>3. Followed'
    BY <1>5, <2>2 DEF Care, Followed, IsActive, Running
  <2> QED BY <2>1, <2>3 DEF Care
<1>6. ASSUME ~(ReserveRun(h) /\ ~UNCHANGED storeVars), ~(WatchLock(h) /\ WatchRefused(handler[h].id)),
             ~(\E f \in Follower : WatchStart(h, f)), ~RefreshReply(h)
      PROVE  /\ UNCHANGED <<runs, phase, recovering, follower, stranded, retired>>
             /\ \A g \in Handler : g # h => handler'[g] = handler[g]
             /\ handler[h].pc \notin {"watch", "locked"} \/ handler'[h] = [handler[h] EXCEPT !.pc = "locked"]
             /\ handler'[h].pc \in {"watch", "locked"} =>
                   handler'[h].id \in Request /\ (runs[handler'[h].id] = NoRun => handler'[h].id \in retired)
  <2>1. CASE ReserveRun(h) /\ UNCHANGED storeVars
    BY <1>6, <2>1 DEF ReserveRun, Goto, Return, Idle, storeVars, serverVars, TypeInv, TypeOK, HandlerState
  <2>2. CASE WatchLock(h) /\ ~WatchRefused(handler[h].id)
    BY <1>6, <2>2 DEF WatchLock, Goto, Idle, storeVars, Care, KnownIds, TypeInv, TypeOK, HandlerState
  <2>3. CASE \E q \in Request, t \in Thread, b \in Body : BeginSubmit(h, q, t, b)
    BY <2>3 DEF BeginSubmit, OnlyHandler, Idle, storeVars, serverVars, TypeInv, TypeOK, HandlerState
  <2>4. CASE \/ ReadSession(h) \/ (\E q \in Request : BeginList(h, q)) \/ FetchReply(h) \/ Abandon(h)
             \/ (\E q \in Request, t \in Thread : BeginStop(h, q, t)) \/ RequestStop(h)
    BY <2>4 DEF ReadSession, BeginList, FetchReply, Abandon, BeginStop, RequestStop, Return,
       OnlyHandler, Idle, storeVars, serverVars, TypeInv, TypeOK, HandlerState
  <2> QED BY <1>6, <2>1, <2>2, <2>3, <2>4 DEF HandlerStep
<1> QED BY <1>1, <1>2, <1>3, <1>4, <1>5, <1>6

LEMMA CareStep == TypeInv /\ Structure /\ Rows /\ Care /\ [Next]_vars => Care'
<1> SUFFICES ASSUME TypeInv, Structure, Rows, Care, [Next]_vars
             PROVE  Care'
  OBVIOUS
<1>1. CASE UNCHANGED <<runs, phase, recovering, handler, follower, stranded, retired>>
  BY <1>1 DEF Care, KnownIds, Leaving, Followed, Held, IsActive, Running
<1>2. CASE GatewayStep \/ UNCHANGED vars
  BY <1>1, <1>2 DEF GatewayStep, GwProgress, GwSettle, GwReply, GwForget, GwRewrite, GwRotateSession, GwRestart,
     LatePost, OnlyGateway, vars, storeVars, serverVars
<1>3. CASE \E t \in Thread : DeleteThread(t)
  <2>1. PICK t \in Thread : DeleteThread(t)
    BY <1>3
  <2>2. /\ phase = "up"
        /\ \A q \in Request : runs'[q] = runs[q] \/ (runs'[q] = NoRun /\ q \in retired')
        /\ retired \subseteq retired'
        /\ UNCHANGED <<phase, recovering, handler, follower, stranded>>
    BY <2>1 DEF DeleteThread, serverVars
  <2> QED
    BY <2>2 DEF Care, KnownIds, Leaving, Followed, Held, IsActive, Running, NoRun, Active,
       TypeInv, TypeOK, FollowerState, HandlerState, Idle
<1>4. CASE ProcessStep
  <2>1. CASE CloseCancel \/ CloseBarrier \/ CloseWait \/ Leave \/ Crash
    <3>1. CASE Leave \/ Crash
      BY <3>1 DEF Leave, Crash, LoseMemory, Care, KnownIds, Leaving, Followed, Running, Idle
    <3>2. CASE CloseCancel \/ CloseBarrier \/ CloseWait
      BY <3>2 DEF CloseCancel, CloseBarrier, CloseWait, storeVars, Care, KnownIds, Leaving, Followed, Running
    <3> QED BY <2>1, <3>1, <3>2
  <2>2. CASE Boot
    BY <2>2 DEF Boot, storeVars, ToRecover, Structure, PhaseInv, Care, KnownIds, Leaving, Followed, IsActive,
       Running, Idle, NoRun, Active
  <2>3. CASE RecoverDone
    BY <2>3 DEF RecoverDone, storeVars, Care, KnownIds, Leaving, Followed, Held, IsActive, Running
  <2>4. CASE \E q \in Request, f \in Follower : RecoverRun(q, f)
    <3>1. PICK q \in Request, f \in Follower : RecoverRun(q, f)
      BY <2>4
    <3>2. /\ phase = "booting" /\ q \in recovering /\ recovering' = recovering \ {q}
          /\ follower[f] = Idle
          /\ follower'[f] # Idle /\ follower'[f].id = q /\ follower'[f].pc = "load"
          /\ \A g \in Follower \ {f} : follower'[g] = follower[g]
          /\ stranded' = stranded \ {q}
          /\ UNCHANGED <<runs, phase, handler, retired>>
      BY <3>1 DEF RecoverRun, StartFollower, storeVars, Idle, TypeInv, TypeOK
    <3>3. \A g \in Follower : follower[g] # Idle => follower[g].id # q
      BY <3>2 DEF Structure, PhaseInv, SingleFollower
    <3>4. KnownIds'
      BY <3>2 DEF Care, KnownIds
    <3>5. Leaving'
      BY <3>2, <3>3 DEF Care, Leaving, IsActive, Running, Idle
    <3>6. Followed'
      BY <3>2, <3>3 DEF Care, Followed, Held, IsActive, Running, Idle
    <3> QED BY <3>4, <3>5, <3>6 DEF Care
  <2> QED BY <1>4, <2>1, <2>2, <2>3, <2>4 DEF ProcessStep
<1> QED BY <1>2, <1>3, <1>4, CareHandler, CareFollower DEF Next

LEMMA CareInit == Init => Care
BY DEF Init, Care, KnownIds, Leaving, Followed, IsActive, Idle, NoRun, Active

-----------------------------------------------------------------------------
(* The invariant as a whole *)

Inv == TypeInv /\ Structure /\ Rows /\ Care

LEMMA Invariance == Spec => []Inv
<1>1. Init => Inv
  BY InitTyped, StructureInit, RowsInit, CareInit DEF Inv
<1>2. Inv /\ [Next]_vars => Inv'
  BY TypeStep, StructureStep, RowsStep, CareStep DEF Inv
<1> QED BY <1>1, <1>2, PTL DEF Spec

=============================================================================

----------------------------- MODULE RunsProofs -----------------------------
(***************************************************************************)
(* The theorems about Runs: its safety invariants, its action properties,  *)
(* and that it implements RunLedger, from the invariant of RunsInvariant.  *)
(***************************************************************************)
EXTENDS RunsInvariant

\* Every variable of the backend keeps its type, for all sets of
\* conversations, requests, handlers and followers and for all bounds.
THEOREM TypeCorrect == Spec => []TypeOK
<1>1. TypeInv => TypeOK
  BY DEF TypeInv
<1> QED
  BY InitTyped, TypeStep, <1>1, PTL DEF Spec

\* The index runs_one_active and the check in reserveRun keep every
\* conversation at one active run, whatever the handlers, followers, crashes
\* and lost saves do.
THEOREM ActiveRunsAreUnique == Spec => []OneActivePerThread
<1>1. Inv => OneActivePerThread
  BY DEF Inv, Rows
<1> QED BY <1>1, Invariance, PTL

\* saveRun and refreshReply keep messages and runs in step.
THEOREM RepliesMatchRuns == Spec => []ReplyMatchesRun
<1>1. Inv => ReplyMatchesRun
  BY DEF Inv, Rows
<1> QED BY <1>1, Invariance, PTL

\* Deleting a conversation leaves nothing of it behind, and no handler in
\* flight brings anything back.
THEOREM NothingIsOrphaned == Spec => []NoOrphans
<1>1. Inv => NoOrphans
  BY DEF Inv, Rows
<1> QED BY <1>1, Invariance, PTL

\* watch starts one goroutine for a run, and s.workers names what is followed.
THEOREM RunsAreFollowedOnce == Spec => []SingleFollower
<1>1. Inv => SingleFollower
  BY DEF Inv, Structure
<1> QED BY <1>1, Invariance, PTL

\* An active run of a server that is up is being worked on.
THEOREM ActiveRunsAreFollowed == Spec => []ActiveRunIsFollowed
<1>1. Inv => ActiveRunIsFollowed
  BY DEF Inv, Care, Followed, Held, Running, ActiveRunIsFollowed
<1> QED BY <1>1, Invariance, PTL

\* The barrier in close is enough: once close has returned, no goroutine
\* uses the store and none can start.
THEOREM CloseIsQuiet == Spec => []CloseQuiesces
<1>1. Inv => CloseQuiesces
  BY DEF Inv, Structure, LockInv, PhaseInv, CloseQuiesces
<1> QED BY <1>1, Invariance, PTL

-----------------------------------------------------------------------------
(* What a step does to the tables *)

Reserved(q, t) ==
    /\ runs[q] = NoRun /\ t \in threads /\ ~Busy(t)
    /\ \E r \in Run : /\ r.thread = t /\ r.status \in Active
                      /\ runs' = [runs EXCEPT ![q] = r]
    /\ UNCHANGED <<threads, replies>>

Saved(q) ==
    /\ IsActive(q) /\ runs'[q] \in Run /\ runs'[q].thread = runs[q].thread
    /\ \A p \in Request \ {q} : runs'[p] = runs[p] /\ replies'[p] = replies[p]
    /\ UNCHANGED threads

Refreshed(q) ==
    /\ IsTerminal(q)
    /\ \E o \in Output : /\ runs' = [runs EXCEPT ![q].output = o]
                         /\ replies' = [replies EXCEPT ![q] = o]
    /\ UNCHANGED threads

\* Every step reserves a run, saves an active one, refreshes the reply of a
\* settled one, deletes a conversation, or leaves the tables alone.
LEMMA TableSteps ==
  ASSUME Inv, [Next]_vars
  PROVE  \/ UNCHANGED <<threads, runs, replies>>
         \/ \E q \in Request, t \in Thread : Reserved(q, t)
         \/ \E q \in Request : Saved(q) \/ Refreshed(q)
         \/ \E t \in Thread : DeleteThread(t)
<1>1. CASE \E f \in Follower : FollowerStep(f)
  <2>1. PICK f \in Follower : FollowerStep(f)
    BY <1>1
  <2>2. CASE FollowExit(f)
    BY <2>2 DEF FollowExit, storeVars
  <2>3. CASE ~FollowExit(f)
    <3> DEFINE q == follower[f].id
    <3>1. q \in Request /\ UNCHANGED threads
      BY <2>1, <2>3, FollowerWrites DEF Inv
    <3>2. \A p \in Request \ {q} : runs'[p] = runs[p] /\ replies'[p] = replies[p]
      BY <2>1, <2>3, FollowerWrites DEF Inv
    <3>3. \/ runs'[q] = runs[q] /\ replies'[q] = replies[q]
          \/ IsActive(q) /\ runs'[q] \in Run /\ runs'[q].thread = runs[q].thread
      BY <2>1, <2>3, FollowerWrites DEF Inv
    <3>4. /\ runs \in [Request -> Run \cup {NoRun}] /\ runs' \in [Request -> Run \cup {NoRun}]
          /\ replies \in [Request -> Output] /\ replies' \in [Request -> Output]
      BY TypeStep DEF Inv, TypeInv, TypeOK
    <3> QED BY <3>1, <3>2, <3>3, <3>4 DEF Saved
  <2> QED BY <2>2, <2>3
<1>2. CASE \E h \in Handler : HandlerStep(h)
  <2>1. PICK h \in Handler : HandlerStep(h)
    BY <1>2
  <2>2. CASE ReserveRun(h)
    <3>1. handler[h] \in HandlerState
      BY <2>2 DEF ReserveRun, Inv, TypeInv, TypeOK, Idle
    <3>2. /\ handler[h].id \in Request /\ handler[h].thread \in Thread
          /\ NewRun(handler[h].thread, handler[h].body, handler[h].session) \in Run
          /\ NewRun(handler[h].thread, handler[h].body, handler[h].session).thread = handler[h].thread
          /\ NewRun(handler[h].thread, handler[h].body, handler[h].session).status \in Active
      BY <3>1, BoundAssumption DEF NewRun, HandlerState, Run, Active, Inv, TypeInv, TypeOK, Output
    <3> QED BY <2>2, <3>2 DEF ReserveRun, Reserved, Exists, storeVars
  <2>3. CASE RefreshReply(h)
    <3>1. handler[h] \in HandlerState
      BY <2>3 DEF RefreshReply, Inv, TypeInv, TypeOK, Idle
    <3> QED BY <2>3, <3>1 DEF RefreshReply, Refreshed, HandlerState
  <2> QED
    BY <2>1, <2>2, <2>3 DEF HandlerStep, BeginSubmit, ReadSession, WatchLock, WatchStart, BeginStop,
       RequestStop, BeginList, FetchReply, Abandon, OnlyHandler, storeVars
<1>3. CASE ProcessStep \/ GatewayStep \/ UNCHANGED vars
  BY <1>3 DEF ProcessStep, CloseCancel, CloseBarrier, CloseWait, Leave, Crash, LoseMemory, Boot, RecoverRun,
     RecoverDone, GatewayStep, GwProgress, GwSettle, GwReply, GwForget, GwRewrite, GwRotateSession, GwRestart,
     LatePost, OnlyGateway, storeVars, vars
<1> QED BY <1>1, <1>2, <1>3 DEF Next

\* A settled run stays as it settled, but for its reply, until it is deleted
\* with its conversation: saveRun comes from the owner of an active row only,
\* and refreshReply writes the reply only.
THEOREM SettledRunsStay == Spec => TerminalIsFinal
<1>1. ASSUME Inv, [Next]_vars, NEW q \in Request, IsTerminal(q)
      PROVE  runs'[q] = NoRun \/ runs'[q] = [runs[q] EXCEPT !.output = runs'[q].output]
  <2>1. runs[q] \in Run /\ runs[q] # NoRun /\ ~IsActive(q)
    BY <1>1 DEF Inv, TypeInv, TypeOK, IsTerminal, IsActive, NoRun, Terminal, Active
  <2>2. runs[q] = [runs[q] EXCEPT !.output = runs[q].output]
    BY <2>1 DEF Run
  <2>3. CASE runs'[q] = runs[q]
    BY <2>2, <2>3
  <2>4. CASE \E p \in Request : Saved(p)
    BY <1>1, <2>1, <2>3, <2>4 DEF Saved
  <2>5. CASE \E p \in Request, t \in Thread : Reserved(p, t)
    BY <1>1, <2>1, <2>3, <2>5 DEF Reserved, Inv, TypeInv, TypeOK
  <2>6. CASE \E p \in Request : Refreshed(p)
    BY <1>1, <2>1, <2>3, <2>6 DEF Refreshed, Inv, TypeInv, TypeOK, Run
  <2>7. CASE \E t \in Thread : DeleteThread(t)
    BY <1>1, <2>3, <2>7 DEF DeleteThread
  <2> QED BY <1>1, <2>3, <2>4, <2>5, <2>6, <2>7, TableSteps
<1>2. Inv /\ [Next]_vars =>
        [\A q \in Request : IsTerminal(q) =>
          \/ runs'[q] = NoRun
          \/ runs'[q] = [runs[q] EXCEPT !.output = runs'[q].output]]_vars
  BY <1>1
<1> QED BY <1>2, Invariance, PTL DEF Spec, TerminalIsFinal

\* A follower sends a submission only for an active run whose acceptance has
\* not been stored, so a run is not submitted again once it is accepted.
THEOREM AcceptedRunsStaySubmitted == Spec => NotResubmitted
<1>1. ASSUME Inv, Next, NEW f \in Follower, follower[f].pc # "posting", follower'[f].pc = "posting"
      PROVE  IsActive(follower[f].id) /\ ~runs[follower[f].id].accepted
  <2>1. ASSUME NEW h \in Handler, HandlerStep(h)
        PROVE  FALSE
    BY <1>1, <2>1 DEF HandlerStep, BeginSubmit, ReadSession, ReserveRun, WatchLock, WatchStart,
       StartFollower, BeginStop, RequestStop, BeginList, FetchReply, RefreshReply, Abandon, OnlyHandler,
       Inv, TypeInv, TypeOK
  <2>2. ASSUME ProcessStep \/ GatewayStep \/ \E t \in Thread : DeleteThread(t)
        PROVE  FALSE
    BY <1>1, <2>2 DEF DeleteThread, ProcessStep, CloseCancel, CloseBarrier, CloseWait, Leave, Crash,
       LoseMemory, Boot, RecoverRun, StartFollower, RecoverDone, GatewayStep, GwProgress, GwSettle,
       GwReply, GwForget, GwRewrite, GwRotateSession, GwRestart, LatePost, OnlyGateway, Idle, Inv, TypeInv, TypeOK
  <2>3. FollowerStep(f) /\ ~FollowExit(f)
    <3>1. PICK g \in Follower : FollowerStep(g)
      BY <1>1, <2>1, <2>2 DEF Next
    <3>2. ~FollowExit(g)
      BY <1>1 DEF FollowExit, Idle, Inv, TypeInv, TypeOK
    <3> QED BY <1>1, <3>1, <3>2, FollowerKeeps DEF Inv
  <2>4. CASE Moves(f)
    BY <1>1, <2>4 DEF Moves, Working
  <2>5. CASE Publishes(f)
    BY <1>1, <2>5 DEF Publishes, Publish, Inv, TypeInv, TypeOK
  <2> QED BY <2>3, <2>4, <2>5, <1>1, FollowerCases DEF Inv
<1>2. Inv /\ [Next]_vars =>
        [\A f \in Follower :
          follower[f].pc # "posting" /\ follower'[f].pc = "posting" =>
              IsActive(follower[f].id) /\ ~runs[follower[f].id].accepted]_vars
  BY <1>1
<1> QED BY <1>2, Invariance, PTL DEF Spec, NotResubmitted

-----------------------------------------------------------------------------
(* Runs implements RunLedger *)

LEMMA LedgerStates ==
  ASSUME NEW q \in Request, runs \in [Request -> Run \cup {NoRun}]
  PROVE  /\ LedgerEntry(q) = Ledger!Absent <=> runs[q] = NoRun
         /\ LedgerEntry(q).state = "open" <=> IsActive(q)
         /\ LedgerEntry(q).state = "settled" <=> IsTerminal(q)
         /\ runs[q] # NoRun => LedgerEntry(q).thread = runs[q].thread
BY DEF LedgerEntry, Ledger!Absent, IsActive, IsTerminal, Run, NoRun, Active, Terminal

\* A deletion seen through the mapping.
LEMMA DeleteMaps ==
  ASSUME Inv, NEW t \in Thread, DeleteThread(t)
  PROVE  Ledger!Delete(t)
<1>1. runs \in [Request -> Run \cup {NoRun}]
  BY DEF Inv, TypeInv, TypeOK
<1>2. t \in threads /\ threads' = threads \ {t}
  BY DEF DeleteThread, Exists
<1>3. ~Ledger!Engaged(t)
  <2> SUFFICES ASSUME NEW q \in Request, LedgerEntry(q).state = "open", LedgerEntry(q).thread = t
               PROVE  FALSE
    BY DEF Ledger!Engaged
  <2>1. IsActive(q) /\ runs[q] # NoRun
    BY <1>1, LedgerStates DEF IsActive, NoRun, Active
  <2> QED BY <1>1, <2>1, LedgerStates DEF DeleteThread, Busy
<1>4. ASSUME NEW q \in Request
      PROVE  LedgerEntry(q)' = IF LedgerEntry(q) # Ledger!Absent /\ LedgerEntry(q).thread = t
                               THEN Ledger!Absent ELSE LedgerEntry(q)
  BY <1>1, LedgerStates DEF DeleteThread, LedgerEntry, Ledger!Absent, IsActive
<1> QED BY <1>2, <1>3, <1>4 DEF Ledger!Delete

\* The effect of one write on the mapped entries.
LEMMA ReserveMaps ==
  ASSUME Inv, Inv', NEW q \in Request, NEW t \in Thread, Reserved(q, t)
  PROVE  Ledger!Ask(q, t)
<1>1. runs \in [Request -> Run \cup {NoRun}]
  BY DEF Inv, TypeInv, TypeOK
<1>2. LedgerEntry(q) = Ledger!Absent
  BY <1>1, LedgerStates DEF Reserved
<1>3. ~Ledger!Engaged(t)
  <2> SUFFICES ASSUME NEW p \in Request, LedgerEntry(p).state = "open", LedgerEntry(p).thread = t
               PROVE  FALSE
    BY DEF Ledger!Engaged
  <2>1. IsActive(p) /\ runs[p] # NoRun
    BY <1>1, LedgerStates DEF IsActive, NoRun, Active
  <2> QED BY <1>1, <2>1, LedgerStates DEF Reserved, Busy
<1>4. \A p \in Request \ {q} : LedgerEntry(p)' = LedgerEntry(p)
  BY <1>1 DEF Reserved, LedgerEntry, IsActive
<1>5. LedgerEntry(q)' = [state |-> "open", thread |-> t, reply |-> 0]
  <2>1. PICK r \in Run : r.thread = t /\ r.status \in Active /\ runs' = [runs EXCEPT ![q] = r]
    BY DEF Reserved
  <2>2. runs'[q] = r /\ r # NoRun /\ r.status \notin Terminal
    BY <1>1, <2>1 DEF NoRun, Run, Active, Terminal
  <2>3. replies'[q] = 0
    BY <2>2 DEF Inv, Rows, ReplyMatchesRun, IsTerminal
  <2> QED BY <2>1, <2>2, <2>3 DEF LedgerEntry, IsActive
<1> QED BY <1>2, <1>3, <1>4, <1>5 DEF Ledger!Ask, Reserved

LEMMA SaveMaps ==
  ASSUME Inv, Inv', NEW q \in Request, Saved(q)
  PROVE  UNCHANGED <<threads, [p \in Request |-> LedgerEntry(p)]>> \/ Ledger!Settle(q, replies'[q])
<1>1. /\ runs \in [Request -> Run \cup {NoRun}] /\ runs' \in [Request -> Run \cup {NoRun}]
      /\ runs[q] # NoRun /\ runs'[q] # NoRun /\ UNCHANGED threads
  <2>1. runs'[q] \in Run /\ runs'[q] # NoRun
    BY DEF Saved, Run, NoRun
  <2> QED BY <2>1 DEF Inv, TypeInv, TypeOK, Saved, IsActive, NoRun, Active
<1>2. \A p \in Request \ {q} : LedgerEntry(p)' = LedgerEntry(p)
  BY <1>1 DEF Saved, LedgerEntry, IsActive
<1>3. LedgerEntry(q) = [state |-> "open", thread |-> runs[q].thread, reply |-> 0]
  BY <1>1 DEF Saved, LedgerEntry, IsActive, IsTerminal, Inv, Rows, ReplyMatchesRun, Active, Terminal
<1>4. CASE IsActive(q)'
  <2>1. LedgerEntry(q)' = LedgerEntry(q)
    BY <1>1, <1>3, <1>4 DEF Saved, LedgerEntry, IsActive, IsTerminal, Inv, Rows, ReplyMatchesRun, Active, Terminal
  <2> QED BY <1>1, <1>2, <2>1
<1>5. CASE ~IsActive(q)'
  <2>1. LedgerEntry(q)' = [state |-> "settled", thread |-> runs[q].thread, reply |-> replies'[q]]
    BY <1>1, <1>5 DEF Saved, LedgerEntry, IsActive
  <2>2. [p \in Request |-> LedgerEntry(p)]' =
           [[p \in Request |-> LedgerEntry(p)] EXCEPT
               ![q] = [state |-> "settled", thread |-> runs[q].thread, reply |-> replies'[q]]]
    BY <1>2, <2>1
  <2>3. [p \in Request |-> LedgerEntry(p)][q].state = "open"
    BY <1>3
  <2>4. [p \in Request |-> LedgerEntry(p)][q].thread = runs[q].thread
    BY <1>3
  <2> QED BY <1>1, <2>2, <2>3, <2>4 DEF Ledger!Settle
<1> QED BY <1>4, <1>5

LEMMA RefreshMaps ==
  ASSUME Inv, NEW q \in Request, Refreshed(q)
  PROVE  Ledger!Revise(q, replies'[q])
<1>1. /\ runs \in [Request -> Run \cup {NoRun}] /\ replies \in [Request -> Output]
      /\ runs[q] \in Run /\ runs[q] # NoRun /\ ~IsActive(q)
  BY DEF Inv, TypeInv, TypeOK, Refreshed, IsTerminal, IsActive, NoRun, Active, Terminal
<1>2. PICK o \in Output : /\ runs' = [runs EXCEPT ![q].output = o]
                          /\ replies' = [replies EXCEPT ![q] = o]
  BY DEF Refreshed
<1>3. \A p \in Request \ {q} : LedgerEntry(p)' = LedgerEntry(p)
  BY <1>1, <1>2 DEF LedgerEntry, IsActive
<1>4. /\ runs'[q] # NoRun /\ runs'[q].thread = runs[q].thread /\ runs'[q].status = runs[q].status
      /\ replies'[q] = o
  BY <1>1, <1>2 DEF Run, NoRun
<1>5. /\ LedgerEntry(q) = [state |-> "settled", thread |-> runs[q].thread, reply |-> replies[q]]
      /\ LedgerEntry(q)' = [state |-> "settled", thread |-> runs[q].thread, reply |-> o]
  BY <1>1, <1>4 DEF LedgerEntry, IsActive
<1>6. [p \in Request |-> LedgerEntry(p)]' =
         [[p \in Request |-> LedgerEntry(p)] EXCEPT
             ![q] = [state |-> "settled", thread |-> runs[q].thread, reply |-> o]]
  BY <1>3, <1>5
<1>7. [p \in Request |-> LedgerEntry(p)][q].state = "settled"
  BY <1>5
<1>8. [p \in Request |-> LedgerEntry(p)][q].thread = runs[q].thread
  BY <1>5
<1> QED BY <1>4, <1>6, <1>7, <1>8 DEF Ledger!Revise, Refreshed

\* The backend implements the ledger: seen through its tables, every step of
\* every handler, follower, restart or deletion is a step of the ledger or
\* changes nothing a conversation shows.
THEOREM RunsImplementLedger == Spec => ImplementsLedger
<1>1. Init => Ledger!LedgerInit
  BY DEF Init, Ledger!LedgerInit, Ledger!Absent, LedgerEntry
<1>2. Inv /\ Inv' /\ [Next]_vars => [Ledger!LedgerNext]_(Ledger!ledgerVars)
  <2> SUFFICES ASSUME Inv, Inv', [Next]_vars
               PROVE  Ledger!LedgerNext \/ UNCHANGED Ledger!ledgerVars
    OBVIOUS
  <2>1. CASE UNCHANGED <<threads, runs, replies>>
    BY <2>1 DEF Ledger!ledgerVars, LedgerEntry, IsActive
  <2>2. CASE \E q \in Request, t \in Thread : Reserved(q, t)
    BY <2>2, ReserveMaps DEF Ledger!LedgerNext
  <2>3. CASE \E q \in Request : Saved(q)
    <3>1. \A q \in Request : replies'[q] \in 0..MaxOutput
      BY DEF Inv, TypeInv, TypeOK, Output
    <3> QED BY <2>3, <3>1, SaveMaps DEF Ledger!LedgerNext, Ledger!ledgerVars
  <2>4. CASE \E q \in Request : Refreshed(q)
    <3>1. \A q \in Request : replies'[q] \in 0..MaxOutput
      BY DEF Inv, TypeInv, TypeOK, Output
    <3> QED BY <2>4, <3>1, RefreshMaps DEF Ledger!LedgerNext
  <2>5. CASE \E t \in Thread : DeleteThread(t)
    BY <2>5, DeleteMaps DEF Ledger!LedgerNext
  <2> QED BY <2>1, <2>2, <2>3, <2>4, <2>5, TableSteps
<1> QED
  BY <1>1, <1>2, Invariance, PTL DEF Spec, ImplementsLedger, Ledger!LedgerSpec

-----------------------------------------------------------------------------
(* Verdicts *)

\* A verdict a follower or a row holds is the gateway's, as long as the
\* gateway has kept its records.
Verdicts ==
    /\ \A kind \in Fault : budget[kind] <= Limits[kind]
    /\ RecordsKept =>
          /\ \A q \in Request :
                runs[q].status \in Verdict => hermes[q].status = runs[q].status
          /\ \A f \in Follower :
                follower[f].pc \in Working /\ follower[f].run.status \in Verdict
                => hermes[follower[f].id].status = follower[f].run.status

\* Faults only ever spend the budget.
LEMMA BudgetShrinks ==
  ASSUME Inv, [Next]_vars
  PROVE  \A kind \in Fault : budget'[kind] \in Nat /\ budget'[kind] <= budget[kind]
<1>1. budget \in [Fault -> Nat] /\ budget' \in [Fault -> Nat]
  BY TypeStep DEF Inv, TypeInv, TypeOK, Fault
<1>2. UNCHANGED budget \/ \E kind \in Fault : Spend(kind)
  <2>1. CASE \E h \in Handler : HandlerStep(h)
    BY <2>1 DEF HandlerStep, BeginSubmit, ReadSession, ReserveRun, WatchLock, WatchStart,
       BeginStop, RequestStop, BeginList, FetchReply, RefreshReply, Abandon, OnlyHandler
  <2>2. CASE \E f \in Follower : FollowerStep(f)
    <3>1. ASSUME NEW f \in Follower, NEW r, NEW pc, Publish(f, r, pc)
          PROVE  UNCHANGED budget \/ \E kind \in Fault : Spend(kind)
      BY <3>1 DEF Publish, Fault
    <3> QED
      BY <2>2, <3>1 DEF FollowerStep, FollowLoad, LoadFails, FollowCancelled, ExpireWindow,
         SendPost, PostAnswered, PostFailed, PostDetached, Fault, StreamDelta, StreamApproval,
         PollWithoutStop, StopAnswered, StopFailed, GetAnswered, GetMissing, GetFailed, SaveStatus,
         FollowExit, Move
  <2>3. CASE ProcessStep
    BY <2>3 DEF Fault, ProcessStep, CloseCancel, CloseBarrier, CloseWait, Leave, Crash, Boot,
       RecoverRun, RecoverDone
  <2>4. CASE GatewayStep \/ (\E t \in Thread : DeleteThread(t)) \/ UNCHANGED vars
    BY <2>4 DEF Fault, GatewayStep, GwProgress, GwSettle, GwReply, GwForget, GwRewrite, GwRotateSession,
       GwRestart, LatePost, DeleteThread, vars
  <2> QED BY <2>1, <2>2, <2>3, <2>4 DEF Next
<1> QED BY <1>1, <1>2 DEF Spend

\* The contract of the gateway: a terminal status is final, short of
\* forgetting the delivery or writing an old copy of it back.
LEMMA GatewayVerdictsLast ==
  ASSUME Inv, [Next]_vars, \A kind \in {"forget", "rewrite"} : budget'[kind] = budget[kind],
         NEW q \in Request, hermes[q].status \in Verdict
  PROVE  hermes'[q].status = hermes[q].status
<1>1. /\ hermes \in [Request -> Delivery \cup {NoDelivery}] /\ hermes[q] # NoDelivery
      /\ hermes[q].status \notin Active /\ budget \in [Fault -> Nat]
  BY DEF Inv, TypeInv, TypeOK, NoDelivery, Verdict, Active
<1>2. ASSUME NEW m \in Post, Accept(m)
      PROVE  hermes'[q] = hermes[q]
  BY <1>1, <1>2 DEF Accept, Known
<1>3. CASE UNCHANGED hermes
  BY <1>3
<1>4. CASE \E h \in Handler : HandlerStep(h)
  BY <1>3, <1>4 DEF HandlerStep, BeginSubmit, ReadSession, ReserveRun, WatchLock, WatchStart, gatewayVars,
     BeginStop, RequestStop, BeginList, FetchReply, RefreshReply, Abandon, OnlyHandler
<1>5. CASE \E f \in Follower : FollowerStep(f)
  <2>1. PICK f \in Follower : FollowerStep(f)
    BY <1>5
  <2>2. CASE PostAnswered(f)
    <3>1. follower[f] \in FollowerState /\ follower[f].run \in Run
      BY <2>2 DEF PostAnswered, Inv, TypeInv, TypeOK, LocalRuns, Idle, Working
    <3>2. PostOf(f) \in Post
      BY <3>1 DEF PostOf, Post, FollowerState, Run
    <3> QED BY <1>2, <1>3, <2>2, <3>2 DEF PostAnswered, Refuse
  <2>3. CASE StopAnswered(f) \/ StopFailed(f)
    BY <1>1, <2>3 DEF StopAnswered, StopFailed, AskStop, Delivery
  <2> QED
    BY <1>3, <2>1, <2>2, <2>3 DEF FollowerStep, FollowLoad, FollowCancelled, ExpireWindow,
       SendPost, PostFailed, PostDetached, StreamDelta, StreamApproval,
       PollWithoutStop, GetAnswered, GetMissing, GetFailed, SaveStatus,
       FollowExit, OnlyFollower, gatewayVars
<1>6. CASE GatewayStep
  <2>1. CASE \E p \in Request : GwForget(p) \/ GwRewrite(p)
    BY <1>1, <2>1 DEF GwForget, GwRewrite, Spend, Fault
  <2>2. CASE \E m \in posts : LatePost(m)
    BY <1>2, <1>3, <2>2 DEF LatePost, Inv, TypeInv, TypeOK
  <2>3. CASE \E p \in Request : GwProgress(p) \/ GwSettle(p) \/ GwReply(p)
    BY <1>1, <2>3 DEF GwProgress, GwSettle, GwReply, Progress, Settle, AddReply, Delivery
  <2>4. CASE GwRestart
    BY <1>1, <2>4 DEF GwRestart, Interrupt
  <2> QED BY <1>3, <1>6, <2>1, <2>2, <2>3, <2>4 DEF GatewayStep, GwRotateSession
<1>7. CASE ProcessStep \/ (\E t \in Thread : DeleteThread(t)) \/ UNCHANGED vars
  BY <1>3, <1>7 DEF ProcessStep, CloseCancel, CloseBarrier, CloseWait, Leave, Crash, LoseMemory, Boot,
     RecoverRun, RecoverDone, DeleteThread, gatewayVars, vars
<1> QED BY <1>4, <1>5, <1>6, <1>7 DEF Next

\* Where verdicts in rows and followers come from: an older one of the same
\* run, or the gateway's answer.
LEMMA VerdictSources ==
  ASSUME Inv, [Next]_vars
  PROVE  /\ \A q \in Request : runs'[q].status \in Verdict =>
               \/ runs[q].status = runs'[q].status
               \/ \E f \in Follower : /\ follower[f].pc \in Working /\ follower[f].id = q
                                      /\ follower[f].run.status = runs'[q].status
         /\ \A f \in Follower : follower'[f].pc \in Working /\ follower'[f].run.status \in Verdict =>
               \/ follower'[f] = follower[f]
               \/ /\ follower'[f].id = follower[f].id
                  /\ hermes'[follower[f].id].status = follower'[f].run.status
<1>1. CASE \E f \in Follower : FollowerStep(f) /\ ~FollowExit(f)
  <2>1. PICK f \in Follower : FollowerStep(f) /\ ~FollowExit(f)
    BY <1>1
  <2> DEFINE q == follower[f].id
  <2>2. /\ q \in Request /\ follower'[f].id = q
        /\ \A g \in Follower \ {f} : follower'[g] = follower[g]
        /\ \A p \in Request \ {q} : runs'[p] = runs[p]
    BY <2>1, FollowerKeeps, FollowerWrites DEF Inv
  <2>3. CASE Moves(f)
    <3>1. follower'[f].pc \in Working /\ follower'[f].run.status \in Verdict => follower'[f].pc = "save"
      BY <2>3 DEF Moves, Verdict, Active
    <3> QED BY <2>2, <2>3, <3>1 DEF Moves
  <2>4. CASE Publishes(f)
    <3>1. PICK r \in Run, pc \in {"accept", "poll", "exit"} :
             /\ pc # "exit" => r.status \in Active
             /\ r.status \in Verdict => follower[f].pc \in Working /\ r.status = follower[f].run.status
             /\ Publish(f, r, pc)
      BY <2>4 DEF Publishes
    <3>2. runs'[q] = runs[q] \/ runs'[q] = r
      BY <2>2, <3>1 DEF Publish, SaveRun, Inv, TypeInv, TypeOK
    <3>3. follower'[f].pc = pc /\ follower'[f].run = r
      BY <2>1, <3>1, FollowerKeeps DEF Publish, Inv, TypeInv, TypeOK, FollowerState
    <3>4. follower'[f].pc \in Working => follower'[f].run.status \notin Verdict
      BY <3>1, <3>3 DEF Working, Verdict, Active
    <3> QED BY <2>2, <3>1, <3>2, <3>4
  <2> QED BY <2>1, <2>3, <2>4, FollowerCases DEF Inv
<1>2. CASE ~\E f \in Follower : FollowerStep(f) /\ ~FollowExit(f)
  <2>1. \A q \in Request : runs'[q].status \in Verdict => runs[q].status = runs'[q].status
    <3>1. CASE \E h \in Handler : HandlerStep(h)
      BY <3>1 DEF HandlerStep, BeginSubmit, ReadSession, ReserveRun, NewRun, Verdict, WatchLock, WatchStart,
         storeVars, BeginStop, RequestStop, BeginList, FetchReply, RefreshReply, IsTerminal, Abandon,
         OnlyHandler, Inv, TypeInv, TypeOK, Run, NoRun, Terminal
    <3>2. CASE \/ \E f \in Follower : FollowExit(f)
               \/ ProcessStep \/ GatewayStep \/ UNCHANGED vars \/ \E t \in Thread : DeleteThread(t)
      BY <3>2 DEF FollowExit, ProcessStep, CloseCancel, CloseBarrier, CloseWait, Leave, Crash, LoseMemory,
         Boot, RecoverRun, RecoverDone, GatewayStep, GwProgress, GwSettle, GwReply, GwForget, GwRewrite,
         GwRotateSession, GwRestart, LatePost, OnlyGateway, storeVars, vars, DeleteThread, NoRun, Verdict
    <3> QED BY <1>2, <3>1, <3>2 DEF Next
  <2>2. \A f \in Follower : follower'[f].pc \in Working => follower'[f] = follower[f]
    <3>1. CASE \E h \in Handler : HandlerStep(h)
      BY <3>1 DEF HandlerStep, BeginSubmit, ReadSession, ReserveRun, WatchLock, WatchStart, StartFollower,
         BeginStop, RequestStop, BeginList, FetchReply, RefreshReply, Abandon, OnlyHandler,
         Inv, TypeInv, TypeOK, Working
    <3>2. CASE \/ \E f \in Follower : FollowExit(f)
               \/ ProcessStep \/ GatewayStep \/ UNCHANGED vars \/ \E t \in Thread : DeleteThread(t)
      BY <3>2 DEF FollowExit, ProcessStep, CloseCancel, CloseBarrier, CloseWait, Leave, Crash, LoseMemory,
         Boot, RecoverRun, StartFollower, RecoverDone, GatewayStep, GwProgress, GwSettle, GwReply, GwForget, GwRewrite,
         GwRotateSession, GwRestart, LatePost, OnlyGateway, vars, DeleteThread, Idle, Working,
         Inv, TypeInv, TypeOK
    <3> QED BY <1>2, <3>1, <3>2 DEF Next
  <2> QED BY <2>1, <2>2
<1> QED BY <1>1, <1>2

\* A run is reported completed or cancelled only if the gateway ended it so:
\* the followers, the late saves and the recoveries never invent a verdict.
THEOREM VerdictsAreTheGateways == Spec => []OutcomeIsGateways
<1>1. Init => Verdicts
  BY BoundAssumption DEF Init, Verdicts, Verdict, Working, Idle, NoRun
<1>2. Inv /\ Verdicts /\ [Next]_vars => Verdicts'
  <2> SUFFICES ASSUME Inv, Verdicts, [Next]_vars
               PROVE  Verdicts'
    OBVIOUS
  <2>1. \A kind \in Fault : /\ budget'[kind] \in Nat /\ budget'[kind] <= budget[kind]
                            /\ budget[kind] \in Nat /\ Limits[kind] \in Nat /\ budget[kind] <= Limits[kind]
    BY BudgetShrinks, BoundAssumption DEF Verdicts, Inv, TypeInv, TypeOK
  <2> SUFFICES ASSUME RecordsKept'
               PROVE  /\ \A q \in Request :
                            runs'[q].status \in Verdict => hermes'[q].status = runs'[q].status
                      /\ \A f \in Follower :
                            follower'[f].pc \in Working /\ follower'[f].run.status \in Verdict
                            => hermes'[follower'[f].id].status = follower'[f].run.status
    BY <2>1 DEF Verdicts
  <2>2. RecordsKept /\ \A kind \in {"forget", "rewrite"} : budget'[kind] = budget[kind]
    BY <2>1 DEF RecordsKept, Fault
  <2>3. \A q \in Request : hermes[q].status \in Verdict => hermes'[q].status = hermes[q].status
    BY <2>2, GatewayVerdictsLast
  <2>4. ASSUME NEW q \in Request, runs'[q].status \in Verdict
        PROVE  hermes'[q].status = runs'[q].status
    BY <2>2, <2>3, <2>4, VerdictSources DEF Verdicts
  <2>5. ASSUME NEW f \in Follower, follower'[f].pc \in Working, follower'[f].run.status \in Verdict
        PROVE  hermes'[follower'[f].id].status = follower'[f].run.status
    <3>1. CASE follower'[f] = follower[f]
      <4>1. follower[f].id \in Request
        BY <2>5, <3>1 DEF Inv, TypeInv, TypeOK, FollowerState, Idle, Working
      <4> QED BY <2>2, <2>3, <2>5, <3>1, <4>1 DEF Verdicts
    <3> QED BY <2>5, <3>1, VerdictSources
  <2> QED BY <2>4, <2>5
<1>3. Verdicts => OutcomeIsGateways
  BY DEF Verdicts, OutcomeIsGateways, Verdict
<1> QED BY <1>1, <1>2, <1>3, Invariance, PTL DEF Spec

-----------------------------------------------------------------------------
(* Runs and the contract of the gateway *)

LEMMA StepObeysContract ==
  ASSUME Inv, [Next]_vars
  PROVE  [GatewayNext]_hermes
<1>1. CASE UNCHANGED hermes
  BY <1>1
<1>2. CASE \E h \in Handler : HandlerStep(h)
  BY <1>1, <1>2 DEF HandlerStep, BeginSubmit, ReadSession, ReserveRun, WatchLock, WatchStart, gatewayVars,
     BeginStop, RequestStop, BeginList, FetchReply, RefreshReply, Abandon, OnlyHandler
<1>3. CASE \E f \in Follower : FollowerStep(f)
  <2>1. PICK f \in Follower : FollowerStep(f)
    BY <1>3
  <2>2. CASE PostAnswered(f)
    <3>1. follower[f] \in FollowerState /\ follower[f].run \in Run
      BY <2>2 DEF PostAnswered, Inv, TypeInv, TypeOK, LocalRuns, Idle, Working
    <3>2. PostOf(f) \in Post
      BY <3>1 DEF PostOf, Post, FollowerState, Run
    <3> QED BY <2>2, <3>2 DEF PostAnswered, GatewayNext
  <2>3. CASE StopAnswered(f) \/ StopFailed(f)
    <3>1. follower[f] \in FollowerState
      BY <2>3 DEF StopAnswered, StopFailed, Inv, TypeInv, TypeOK, Idle
    <3> QED BY <2>3, <3>1 DEF StopAnswered, StopFailed, GatewayNext, FollowerState
  <2> QED
    BY <1>1, <2>1, <2>2, <2>3 DEF FollowerStep, FollowLoad, FollowCancelled, ExpireWindow,
       SendPost, PostFailed, PostDetached, StreamDelta, StreamApproval,
       PollWithoutStop, GetAnswered, GetMissing, GetFailed, SaveStatus,
       FollowExit, OnlyFollower, gatewayVars
<1>4. CASE GatewayStep
  BY <1>4 DEF GatewayStep, GatewayNext, GwProgress, GwSettle, GwReply, GwForget, GwRewrite,
     GwRotateSession, GwRestart, LatePost, Inv, TypeInv, TypeOK
<1>5. CASE ProcessStep \/ (\E t \in Thread : DeleteThread(t)) \/ UNCHANGED vars
  BY <1>1, <1>5 DEF ProcessStep, CloseCancel, CloseBarrier, CloseWait, Leave, Crash, LoseMemory, Boot,
     RecoverRun, RecoverDone, DeleteThread, gatewayVars, vars
<1> QED BY <1>2, <1>3, <1>4, <1>5 DEF Next

\* Whatever becomes of a delivery in Runs, by the backend's calls, by those
\* that arrive late or by the gateway itself, is what Gateway allows.
THEOREM RunsKeepTheContract == Spec => GatewaySpec
<1>1. Init => GatewayInit
  BY DEF Init
<1>2. Inv /\ [Next]_vars => [GatewayNext]_hermes
  BY StepObeysContract
<1> QED BY <1>1, <1>2, Invariance, PTL DEF Spec, GatewaySpec

=============================================================================

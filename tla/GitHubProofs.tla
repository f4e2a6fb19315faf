---------------------------- MODULE GitHubProofs ----------------------------
(***************************************************************************)
(* Theorems about GitHubAuth, for every value of its constants, and that   *)
(* the dialog of GitHubSettings does nothing to the gateway that AuthSpec   *)
(* does not allow, so that they hold of the whole.                         *)
(*                                                                         *)
(* The lock alone does not protect the credentials: the device task runs   *)
(* without it.  What does is that a handler past the lock has seen the task *)
(* end (Alone), and that whatever may still store credentials is of a      *)
(* sign-in that began after the last disconnect (Numbers).                 *)
(***************************************************************************)
EXTENDS GitHubSettings, TLAPS

Holding ==
    \A r \in Request :
        job[r].pc \in {"join", "login", "verify", "setup", "logout"} <=> lock = r

Alone == \A r \in Request : job[r].pc \in {"login", "verify", "setup", "logout"} => ~Pending

Fresh(i) == barred < i /\ i <= begun

Numbers ==
    /\ barred <= begun
    /\ Pending => Fresh(task.id)
    /\ \A r \in Request :
          job[r].pc \in {"login", "verify", "setup"} \/ (job[r].pc = "join" /\ job[r].action = "token")
              => Fresh(job[r].id)

Installed ==
    /\ \A r \in Request : job[r].pc = "setup" => stored = job[r].id
    /\ task.pc = "setup" => stored = task.id

IInv == TypeOK /\ Holding /\ Alone /\ Numbers /\ Installed /\ SignedOutStays

-----------------------------------------------------------------------------
(* What the operators on job and task do *)

Pc == {"lock", "join", "wait", "login", "verify", "setup", "logout", "answer"}

LEMMA JobTyped ==
  ASSUME TypeOK, NEW r \in Request, job[r].pc \in Pc
  PROVE  job[r] \in Job
  BY DEF TypeOK, Idle, Pc

LEMMA GotoDoes ==
  ASSUME TypeOK, NEW r \in Request, NEW pc \in Pc, job[r].pc \in Pc, Goto(r, pc)
  PROVE  /\ job' \in [Request -> Job \cup {Idle}]
         /\ job'[r].pc = pc /\ job'[r].id = job[r].id /\ job'[r].action = job[r].action
         /\ \A q \in Request : q # r => job'[q] = job[q]
<1>1. job[r] \in Job
  BY JobTyped
<1>2. [job[r] EXCEPT !.pc = pc] \in Job
  BY <1>1 DEF Job, Pc
<1> QED
  BY <1>1, <1>2 DEF Goto, TypeOK, Job

LEMMA ReplyDoes ==
  ASSUME TypeOK, NEW r \in Request, NEW v \in State \cup {"failed"}, job[r].pc \in Pc, Reply(r, v)
  PROVE  /\ job' \in [Request -> Job \cup {Idle}]
         /\ job'[r].pc = "answer" /\ job'[r].answer = v
         /\ \A q \in Request : q # r => job'[q] = job[q]
<1>1. job[r] \in Job
  BY JobTyped
<1>2. [job[r] EXCEPT !.pc = "answer", !.id = None, !.answer = v] \in Job
  BY <1>1 DEF Job, None
<1> QED
  BY <1>1, <1>2 DEF Reply, TypeOK, Job

LEMMA StatusTyped == Status \subseteq State
<1>1. CASE Pending
  BY <1>1 DEF Status, State
<1>2. CASE ~Pending /\ error
  BY <1>2 DEF Status, State
<1>3. CASE ~Pending /\ ~error /\ stored = None
  BY <1>3 DEF Status, State
<1>4. CASE ~Pending /\ ~error /\ stored # None
  BY <1>4 DEF Status, State
<1> QED
  BY <1>1, <1>2, <1>3, <1>4

LEMMA TaskTyped ==
  ASSUME TypeOK
  PROVE  /\ Pending => task \in Device
         /\ \A pc \in {"login", "verify", "setup", "cancelled"} :
               Pending => [task EXCEPT !.pc = pc] \in Device
         /\ \A i \in Nat : [pc |-> "login", id |-> i] \in Device
         /\ \A d \in Device : d # NoTask
  BY DEF TypeOK, Pending, Device, NoTask

-----------------------------------------------------------------------------
(* The invariant *)

LEMMA InitInv == AuthInit => IInv
<1> SUFFICES ASSUME AuthInit PROVE IInv
  OBVIOUS
<1>1. \A r \in Request : job[r].pc = "idle" /\ lock # r
  BY RequestAssumption DEF AuthInit, Idle
<1>2. TypeOK
  BY DEF AuthInit, TypeOK, None
<1>3. Holding /\ Alone /\ Installed
  BY <1>1 DEF AuthInit, NoTask, Holding, Alone, Installed
<1>4. Numbers /\ SignedOutStays
  BY <1>1 DEF AuthInit, Numbers, SignedOutStays, Pending
<1> QED
  BY <1>2, <1>3, <1>4 DEF IInv

\* A step of a handler that leaves the lock, the task and the credentials
\* alone, before or after it has them.
LEMMA HandlerWaits ==
  ASSUME IInv, NEW r \in Request,
         UNCHANGED <<stored, lock, task, begun, barred>>, error' \in BOOLEAN,
         job' \in [Request -> Job \cup {Idle}],
         job[r].pc \in {"idle", "lock", "wait", "answer"},
         job'[r].pc \in {"idle", "lock", "wait", "answer"},
         \A q \in Request : q # r => job'[q] = job[q]
  PROVE  IInv'
<1>1. TypeOK'
  BY DEF IInv, TypeOK, Device, NoTask
<1>2. Holding' /\ Alone'
  BY DEF IInv, Holding, Alone, Pending
<1>3. Numbers' /\ Installed' /\ SignedOutStays'
  BY DEF IInv, Numbers, Fresh, Pending, Installed, SignedOutStays
<1> QED
  BY <1>1, <1>2, <1>3 DEF IInv

LEMMA ArriveInv ==
  ASSUME IInv, NEW r \in Request, NEW a \in Action, Arrive(r, a)
  PROVE  IInv'
<1>1. [pc |-> "lock", action |-> a, id |-> None, answer |-> "none"] \in Job
  BY DEF Job, None
<1>2. job' \in [Request -> Job \cup {Idle}] /\ job'[r].pc = "lock"
  BY <1>1 DEF IInv, TypeOK, Arrive
<1> QED
  BY <1>2, HandlerWaits DEF IInv, TypeOK, Arrive, Idle

LEMMA AnsweredInv ==
  ASSUME IInv, NEW r \in Request, Answered(r)
  PROVE  IInv'
<1>1. job' \in [Request -> Job \cup {Idle}] /\ job'[r].pc = "idle"
  BY DEF IInv, TypeOK, Answered, Idle
<1> QED
  BY <1>1, HandlerWaits DEF IInv, TypeOK, Answered

LEMMA StartDeviceInv ==
  ASSUME IInv, NEW r \in Request, StartDevice(r)
  PROVE  IInv'
<1>0. job[r].pc = "lock" /\ job[r].pc \in Pc /\ lock = NoRequest
  BY DEF StartDevice, HasLock, Pc
<1>1. CASE Pending
  <2>1. "pending" \in State /\ Reply(r, "pending")
    BY <1>1 DEF StartDevice, State
  <2>2. job' \in [Request -> Job \cup {Idle}] /\ job'[r].pc = "answer"
        /\ \A q \in Request : q # r => job'[q] = job[q]
    BY <1>0, <2>1, ReplyDoes DEF IInv
  <2> QED
    BY <1>0, <1>1, <2>2, HandlerWaits DEF StartDevice, IInv, TypeOK
<1>2. CASE ~Pending
  <2>1. job' \in [Request -> Job \cup {Idle}] /\ job'[r].pc = "wait"
        /\ \A q \in Request : q # r => job'[q] = job[q]
    BY <1>0, <1>2, GotoDoes DEF StartDevice, IInv, Pc
  <2>2. /\ begun \in Nat /\ barred \in Nat /\ barred <= begun
        /\ begun' = begun + 1 /\ task' = [pc |-> "login", id |-> begun + 1]
        /\ UNCHANGED <<stored, lock, barred>> /\ error' \in BOOLEAN
    BY <1>2 DEF StartDevice, IInv, TypeOK, Numbers
  <2>3. task' \in Device /\ task'.id = begun + 1
    BY <2>2 DEF Device
  <2>4. TypeOK'
    BY <2>1, <2>2, <2>3 DEF IInv, TypeOK
  <2>5. \A q \in Request : job'[q].pc \notin {"join", "login", "verify", "setup", "logout"}
    BY <1>0, <2>1, RequestAssumption DEF IInv, Holding
  <2>6. Holding' /\ Alone' /\ Installed'
    BY <1>0, <2>2, <2>5, RequestAssumption DEF Holding, Alone, Installed
  <2>7. Numbers' /\ SignedOutStays'
    BY <2>2, <2>3, <2>5 DEF Numbers, Fresh, IInv, SignedOutStays
  <2> QED
    BY <2>4, <2>6, <2>7 DEF IInv
<1> QED
  BY <1>1, <1>2

LEMMA WaitedInv ==
  ASSUME IInv, NEW r \in Request, Waited(r)
  PROVE  IInv'
<1>1. PICK v \in State : Reply(r, v)
  BY StatusTyped DEF Waited
<1>2. job[r].pc = "wait" /\ job[r].pc \in Pc
  BY DEF Waited, Pc
<1>3. job' \in [Request -> Job \cup {Idle}] /\ job'[r].pc = "answer"
      /\ \A q \in Request : q # r => job'[q] = job[q]
  BY <1>1, <1>2, ReplyDoes DEF IInv
<1> QED
  BY <1>2, <1>3, HandlerWaits DEF Waited, IInv, TypeOK

LEMMA TakeLockInv ==
  ASSUME IInv, NEW r \in Request, TakeLock(r)
  PROVE  IInv'
<1> DEFINE pc == IF Pending THEN "join" ELSE Body(job[r].action)
<1>0. /\ job[r].pc = "lock" /\ lock = NoRequest /\ lock' = r
      /\ begun \in Nat /\ barred \in Nat /\ barred <= begun
      /\ UNCHANGED <<stored, barred>>
  BY DEF TakeLock, HasLock, IInv, TypeOK, Numbers
<1>1. job[r] \in Job
  BY <1>0, JobTyped DEF IInv, Pc
<1>2. begun' \in Nat /\ begun <= begun' /\ (job[r].action = "token" => begun' = begun + 1)
  BY <1>0 DEF TakeLock
<1>3. [job[r] EXCEPT !.id = begun', !.pc = pc] \in Job
  BY <1>1, <1>2 DEF Job, Body
<1>4. /\ job' \in [Request -> Job \cup {Idle}]
      /\ job'[r].pc = pc /\ job'[r].id = begun' /\ job'[r].action = job[r].action
      /\ \A q \in Request : q # r => job'[q] = job[q]
  BY <1>1, <1>3 DEF TakeLock, Cancels, IInv, TypeOK, Job
<1>5. \A q \in Request : q # r => job'[q].pc \notin {"join", "login", "verify", "setup", "logout"}
  BY <1>0, <1>4, RequestAssumption DEF IInv, Holding
<1>6. task' \in Device \cup {NoTask} /\ Pending' = Pending /\ (Pending => task'.id = task.id)
      /\ task'.pc # "setup" /\ error' \in BOOLEAN
  <2>1. CASE Pending
    BY <2>1, TaskTyped DEF TakeLock, Cancels, IInv, TypeOK, Pending, Device
  <2>2. CASE ~Pending
    <3>1. task = NoTask /\ task' = task /\ error' = FALSE
      BY <2>2 DEF TakeLock, Cancels, Pending
    <3>2. NoTask.pc = "none"
      BY DEF NoTask
    <3> QED
      BY <3>1, <3>2 DEF Pending
  <2> QED
    BY <2>1, <2>2
<1>7. TypeOK'
  BY <1>0, <1>2, <1>4, <1>6 DEF IInv, TypeOK
<1>8. Holding' /\ Alone'
  BY <1>0, <1>4, <1>5, <1>6 DEF Holding, Alone, Body
<1>9. Numbers'
  <2>1. Pending' => Fresh(task.id)'
    BY <1>0, <1>2, <1>6, TaskTyped DEF IInv, Numbers, Fresh, Device
  <2>2. ASSUME NEW q \in Request,
               job'[q].pc \in {"login", "verify", "setup"} \/ (job'[q].pc = "join" /\ job'[q].action = "token")
        PROVE  Fresh(job[q].id)'
    <3>1. q = r /\ job[r].action = "token"
      BY <2>2, <1>4, <1>5 DEF Body
    <3> QED
      BY <3>1, <1>0, <1>2, <1>4 DEF Fresh
  <2> QED
    BY <2>1, <2>2, <1>0, <1>2 DEF Numbers
<1>10. Installed' /\ SignedOutStays'
  BY <1>0, <1>4, <1>5, <1>6 DEF Installed, SignedOutStays, IInv, Body
<1> QED
  BY <1>7, <1>8, <1>9, <1>10 DEF IInv

LEMMA JoinInv ==
  ASSUME IInv, NEW r \in Request, Join(r)
  PROVE  IInv'
<1>0. /\ job[r].pc = "join" /\ job[r].pc \in Pc /\ Body(job[r].action) \in Pc
      /\ Body(job[r].action) \in {"login", "logout"}
      /\ ~Pending /\ UNCHANGED <<stored, lock, task, begun, barred>> /\ error' \in BOOLEAN
  BY DEF Join, Pc, Body
<1>1. /\ job' \in [Request -> Job \cup {Idle}]
      /\ job'[r].pc = Body(job[r].action) /\ job'[r].id = job[r].id
      /\ \A q \in Request : q # r => job'[q] = job[q]
  BY <1>0, GotoDoes DEF Join, IInv
<1>2. TypeOK'
  BY <1>0, <1>1 DEF IInv, TypeOK
<1>3. Holding' /\ Alone' /\ Installed' /\ SignedOutStays'
  BY <1>0, <1>1 DEF IInv, Holding, Alone, Pending, Installed, SignedOutStays
<1>4. Numbers'
  BY <1>0, <1>1 DEF IInv, Numbers, Fresh, Pending, Body
<1> QED
  BY <1>2, <1>3, <1>4 DEF IInv

LEMMA TokenStepInv ==
  ASSUME IInv, NEW r \in Request, TokenStep(r), UNCHANGED <<task, begun, barred>>
  PROVE  IInv'
<1>1. CASE job[r].pc = "login"
  <2>1. Goto(r, "verify") /\ UNCHANGED <<stored, lock, error>> /\ job[r].pc \in Pc /\ "verify" \in Pc
    BY <1>1 DEF TokenStep, Pc
  <2>2. /\ job' \in [Request -> Job \cup {Idle}]
        /\ job'[r].pc = "verify" /\ job'[r].id = job[r].id
        /\ \A q \in Request : q # r => job'[q] = job[q]
    BY <2>1, GotoDoes DEF IInv
  <2> QED
    BY <1>1, <2>1, <2>2 DEF IInv, TypeOK, Holding, Alone, Pending, Numbers, Fresh, Installed, SignedOutStays
<1>2. CASE job[r].pc = "verify"
  <2>1. Goto(r, "setup") /\ stored' = job[r].id /\ UNCHANGED <<lock, error>>
        /\ job[r].pc \in Pc /\ "setup" \in Pc
    BY <1>2 DEF TokenStep, Pc
  <2>2. /\ job' \in [Request -> Job \cup {Idle}]
        /\ job'[r].pc = "setup" /\ job'[r].id = job[r].id
        /\ \A q \in Request : q # r => job'[q] = job[q]
    BY <2>1, GotoDoes DEF IInv
  <2>3. job[r].id \in Nat
    BY <2>1, JobTyped DEF IInv, Job
  <2>4. TypeOK'
    BY <2>1, <2>2, <2>3 DEF IInv, TypeOK
  <2>5. Holding' /\ Alone' /\ Numbers' /\ SignedOutStays'
    BY <1>2, <2>1, <2>2 DEF IInv, Holding, Alone, Pending, Numbers, Fresh, SignedOutStays
  <2>6. Installed'
    BY <1>2, <2>1, <2>2 DEF IInv, Holding, Alone, Pending, NoTask, Installed
  <2> QED
    BY <2>4, <2>5, <2>6 DEF IInv
<1>3. CASE job[r].pc = "setup"
  <2>1. Reply(r, "connected") /\ lock' = NoRequest /\ error' = FALSE /\ UNCHANGED stored
        /\ job[r].pc \in Pc /\ "connected" \in State
    BY <1>3 DEF TokenStep, Finish, Pc, State
  <2>2. /\ job' \in [Request -> Job \cup {Idle}] /\ job'[r].pc = "answer"
        /\ \A q \in Request : q # r => job'[q] = job[q]
    BY <2>1, ReplyDoes DEF IInv
  <2>3. Holding' /\ TypeOK'
    BY <1>3, <2>1, <2>2, RequestAssumption DEF IInv, TypeOK, Holding
  <2> QED
    BY <2>1, <2>2, <2>3 DEF IInv, Alone, Pending, Numbers, Fresh, Installed, SignedOutStays
<1> QED
  BY <1>1, <1>2, <1>3 DEF TokenStep

LEMMA TokenFailsInv ==
  ASSUME IInv, NEW r \in Request, TokenFails(r), UNCHANGED <<task, begun, barred>>
  PROVE  IInv'
<1>1. Reply(r, "failed") /\ lock' = NoRequest /\ UNCHANGED <<stored, error>> /\ job[r].pc \in Pc
      /\ job[r].pc \in {"login", "verify", "setup"}
  BY DEF TokenFails, Finish, Pc
<1>2. /\ job' \in [Request -> Job \cup {Idle}] /\ job'[r].pc = "answer"
      /\ \A q \in Request : q # r => job'[q] = job[q]
  BY <1>1, ReplyDoes DEF IInv
<1>3. Holding' /\ TypeOK'
  BY <1>1, <1>2, RequestAssumption DEF IInv, TypeOK, Holding
<1> QED
  BY <1>1, <1>2, <1>3 DEF IInv, Alone, Pending, Numbers, Fresh, Installed, SignedOutStays

LEMMA LogoutInv ==
  ASSUME IInv, NEW r \in Request, Logout(r)
  PROVE  IInv'
<1>1. PICK v \in State \cup {"failed"} :
         /\ Finish(r, v)
         /\ \/ stored' = None /\ barred' = begun
            \/ stored' \in {stored, None} /\ UNCHANGED barred
  BY DEF Logout, State
<1>2. /\ Reply(r, v) /\ lock' = NoRequest /\ UNCHANGED <<task, error, begun>>
      /\ job[r].pc = "logout" /\ job[r].pc \in Pc
  BY <1>1 DEF Logout, Finish, Pc
<1>3. /\ job' \in [Request -> Job \cup {Idle}] /\ job'[r].pc = "answer"
      /\ \A q \in Request : q # r => job'[q] = job[q]
  BY <1>2, ReplyDoes DEF IInv
<1>4. \A q \in Request : job'[q].pc \notin {"join", "login", "verify", "setup", "logout"}
  BY <1>2, <1>3 DEF IInv, Holding
<1>5. ~Pending /\ ~Pending'
  BY <1>2 DEF IInv, Alone, Pending
<1>6. TypeOK' /\ Holding' /\ Alone' /\ Installed'
  BY <1>1, <1>2, <1>3, <1>4, <1>5, RequestAssumption
     DEF IInv, TypeOK, None, Holding, Alone, Installed, Pending, NoTask
<1>7. Numbers' /\ SignedOutStays'
  BY <1>1, <1>2, <1>4, <1>5 DEF IInv, TypeOK, Numbers, SignedOutStays
<1> QED
  BY <1>6, <1>7 DEF IInv

\* The task stores credentials without the lock; no handler is at work then.
LEMMA RunDeviceInv ==
  ASSUME IInv, RunDevice
  PROVE  IInv'
<1>1. UNCHANGED <<lock, job, begun, barred>>
  BY DEF RunDevice
<1>2. Pending /\ task \in Device
  <2>1. Pending
    BY DEF RunDevice, DeviceStep, DeviceEnds, Pending, NoTask
  <2> QED
    BY <2>1, TaskTyped DEF IInv
<1>3. Fresh(task.id) /\ task.id \in Nat /\ \A r \in Request : job[r].pc # "setup"
  BY <1>2 DEF IInv, Numbers, Alone, Device
<1>4. /\ task' = NoTask \/ (task' \in Device /\ task'.id = task.id)
      /\ stored' \in {stored, task.id} /\ error' \in BOOLEAN
  BY <1>2, TaskTyped DEF RunDevice, DeviceStep, DeviceEnds, IInv, TypeOK, Device
<1>5. TypeOK' /\ Holding'
  BY <1>1, <1>3, <1>4 DEF IInv, TypeOK, Holding
<1>6. Alone' /\ Installed'
  <2>1. task'.pc = "setup" => stored' = task'.id
    BY <1>2 DEF RunDevice, DeviceStep, DeviceEnds, NoTask, Device, IInv, Installed
  <2> QED
    BY <1>1, <1>2, <1>3, <2>1 DEF IInv, Alone, Installed
<1>7. Numbers' /\ SignedOutStays'
  BY <1>1, <1>3, <1>4 DEF IInv, TypeOK, Numbers, Fresh, Pending, SignedOutStays
<1> QED
  BY <1>5, <1>6, <1>7 DEF IInv

LEMMA RestartInv ==
  ASSUME IInv, Restart
  PROVE  IInv'
<1>1. \A r \in Request : job'[r].pc = "idle"
  BY DEF Restart, Idle
<1>2. TypeOK' /\ Holding' /\ Alone' /\ Installed'
  BY <1>1, RequestAssumption DEF Restart, NoTask, IInv, TypeOK, Holding, Alone, Installed
<1>3. Numbers' /\ SignedOutStays'
  BY <1>1 DEF Restart, IInv, Numbers, Pending, SignedOutStays
<1> QED
  BY <1>2, <1>3 DEF IInv

LEMMA NextInv == IInv /\ [AuthNext]_authVars => IInv'
<1> SUFFICES ASSUME IInv, [AuthNext]_authVars PROVE IInv'
  OBVIOUS
<1>1. ASSUME NEW r \in Request, Handler(r) PROVE IInv'
  BY <1>1, StartDeviceInv, WaitedInv, TakeLockInv, JoinInv, TokenStepInv, TokenFailsInv, LogoutInv
     DEF Handler
<1>2. ASSUME NEW r \in Request, Answered(r) PROVE IInv'
  BY <1>2, AnsweredInv
<1>3. ASSUME NEW r \in Request, NEW a \in Action, Arrive(r, a) PROVE IInv'
  BY <1>3, ArriveInv
<1>4. CASE RunDevice
  BY <1>4, RunDeviceInv
<1>5. CASE Restart
  BY <1>5, RestartInv
<1>6. CASE UNCHANGED authVars
  BY <1>6 DEF authVars, IInv, TypeOK, Holding, Alone, Pending, Numbers, Fresh, Installed, SignedOutStays
<1> QED
  BY <1>1, <1>2, <1>3, <1>4, <1>5, <1>6 DEF AuthNext

THEOREM Invariance == AuthSpec => []IInv
  BY InitInv, NextInv, PTL DEF AuthSpec

-----------------------------------------------------------------------------
(* What it gives, of the gateway alone *)

\* Files, coroutines and locals keep their types (github_auth.py).
THEOREM TypeCorrect == AuthSpec => []TypeOK
<1>1. IInv => TypeOK
  BY DEF IInv
<1> QED
  BY <1>1, Invariance, PTL

\* Credentials that are in place were asked for after the last disconnect that
\* was answered (disconnect and commit in github_auth.py).
THEOREM SignedOut == AuthSpec => []SignedOutStays
<1>1. IInv => SignedOutStays
  BY DEF IInv
<1> QED
  BY <1>1, Invariance, PTL

\* Only the last step of a token answers it as connected.
LEMMA OnlyTokenConnects ==
  ASSUME IInv, AuthNext, NEW r \in Request, job[r].pc = "setup", job'[r].pc = "answer"
  PROVE  TokenStep(r) \/ TokenFails(r)
<1>1. ASSUME NEW q \in Request, Handler(q) PROVE TokenStep(r) \/ TokenFails(r)
  <2>1. q = r
    BY <1>1 DEF Handler, StartDevice, Waited, TakeLock, Join, TokenStep, TokenFails, Logout, Finish,
       Reply, Goto, IInv, TypeOK
  <2> QED
    BY <1>1, <2>1 DEF Handler, StartDevice, HasLock, Waited, TakeLock, Join, Logout
<1>2. ASSUME NEW q \in Request, Answered(q) PROVE FALSE
  BY <1>2 DEF Answered, IInv, TypeOK, Idle
<1>3. ASSUME NEW q \in Request, NEW a \in Action, Arrive(q, a) PROVE FALSE
  BY <1>3 DEF Arrive, IInv, TypeOK, Idle
<1>4. CASE RunDevice
  BY <1>4 DEF RunDevice
<1>5. CASE Restart
  BY <1>5 DEF Restart, Idle
<1> QED
  BY <1>1, <1>2, <1>3, <1>4, <1>5 DEF AuthNext

LEMMA ConnectedStep ==
  ASSUME IInv, [AuthNext]_authVars, NEW r \in Request,
         job[r].pc = "setup", job'[r].pc = "answer", job'[r].answer = "connected"
  PROVE  stored' = job[r].id
<1>1. AuthNext
  BY DEF authVars
<1>2. TokenStep(r) \/ TokenFails(r)
  BY <1>1, OnlyTokenConnects
<1>3. ~TokenFails(r)
  BY ReplyDoes DEF TokenFails, Finish, IInv, Pc
<1>4. UNCHANGED stored
  BY <1>2, <1>3 DEF TokenStep
<1> QED
  BY <1>4 DEF IInv, Installed

\* A device sign-in that ends well leaves what it stored.
LEMMA DeviceEndStep ==
  ASSUME IInv, [AuthNext]_authVars, task.pc = "setup", task' = NoTask
  PROVE  stored' = task.id
<1>1. stored = task.id /\ Pending /\ task # NoTask
  BY DEF IInv, Installed, Pending, NoTask
<1>2. AuthNext
  BY <1>1 DEF authVars
<1>3. ASSUME NEW r \in Request, Handler(r) PROVE UNCHANGED stored
  <2>1. job[r].pc \notin {"login", "verify", "setup", "logout"}
    BY <1>1 DEF IInv, Alone
  <2> QED
    BY <1>3, <2>1 DEF Handler, StartDevice, Waited, TakeLock, Join, TokenStep, TokenFails, Logout
<1>4. CASE RunDevice
  BY <1>1, <1>4 DEF RunDevice, DeviceStep, DeviceEnds
<1>5. ASSUME NEW r \in Request, Answered(r) \/ \E a \in Action : Arrive(r, a) PROVE UNCHANGED stored
  BY <1>5 DEF Answered, Arrive
<1>6. CASE Restart
  BY <1>1, <1>6 DEF Restart
<1> QED
  BY <1>1, <1>2, <1>3, <1>4, <1>5, <1>6 DEF AuthNext

\* Nothing replaces the credentials of a sign-in, by token or by device, between
\* their commit and its end (commit in github_auth.py).
THEOREM Connected == AuthSpec => ConnectedIsInstalled
<1>1. IInv /\ [AuthNext]_authVars =>
        [/\ \A r \in Request :
               job[r].pc = "setup" /\ job'[r].pc = "answer" /\ job'[r].answer = "connected"
                   => stored' = job[r].id
         /\ task.pc = "setup" /\ task' = NoTask /\ ~error' => stored' = task.id]_authVars
  BY ConnectedStep, DeviceEndStep
<1> QED
  BY <1>1, Invariance, PTL DEF AuthSpec, ConnectedIsInstalled

-----------------------------------------------------------------------------
(* The dialogs *)

Waits == waiting \in [Panel -> Request \cup {NoRequest}]

LEMMA WaitsKept == Waits /\ [Next]_vars => Waits'
<1> SUFFICES ASSUME Waits, [Next]_vars PROVE Waits'
  OBVIOUS
<1>1. ASSUME NEW p \in Panel,
             Open(p) \/ Close(p) \/ Arrives(p) \/ Lost(p) \/ Poll(p) \/ ApplyPoll(p) \/ PollFails(p)
      PROVE  Waits'
  BY <1>1 DEF Waits, Open, Close, Arrives, Lost, Poll, ApplyPoll, PollFails
<1>2. ASSUME NEW p \in Panel, NEW r \in Request, NEW a \in Action, Press(p, r, a) PROVE Waits'
  BY <1>2 DEF Waits, Press
<1>3. ASSUME NEW r \in Request, GatewayStep(Handler(r)) \/ Dropped(r) PROVE Waits'
  BY <1>3 DEF Waits, GatewayStep, Dropped, panelVars
<1>4. CASE GatewayStep(RunDevice)
  BY <1>4 DEF Waits, GatewayStep, panelVars
<1>5. CASE GatewayRestarts
  BY <1>5 DEF Waits, GatewayRestarts
<1>6. CASE UNCHANGED vars
  BY <1>6 DEF Waits, vars, panelVars
<1> QED
  BY <1>1, <1>2, <1>3, <1>4, <1>5, <1>6 DEF Next

LEMMA StepAllowed == Waits /\ [Next]_vars => [AuthNext]_authVars
<1> SUFFICES ASSUME Waits, [Next]_vars PROVE [AuthNext]_authVars
  OBVIOUS
<1>1. ASSUME NEW p \in Panel,
             Open(p) \/ Close(p) \/ Lost(p) \/ Poll(p) \/ ApplyPoll(p) \/ PollFails(p)
      PROVE  UNCHANGED authVars
  BY <1>1 DEF Open, Close, Lost, Poll, ApplyPoll, PollFails
<1>2. ASSUME NEW p \in Panel, NEW r \in Request, NEW a \in Action, Press(p, r, a) PROVE AuthNext
  BY <1>2 DEF Press, AuthNext
<1>3. ASSUME NEW p \in Panel, Arrives(p) PROVE AuthNext
  BY <1>3 DEF Waits, Arrives, AuthNext
<1>4. ASSUME NEW r \in Request, GatewayStep(Handler(r)) \/ Dropped(r) PROVE AuthNext
  BY <1>4 DEF GatewayStep, Dropped, AuthNext
<1>5. CASE GatewayStep(RunDevice) \/ GatewayRestarts
  BY <1>5 DEF GatewayStep, GatewayRestarts, AuthNext
<1>6. CASE UNCHANGED vars
  BY <1>6 DEF vars
<1> QED
  BY <1>1, <1>2, <1>3, <1>4, <1>5, <1>6 DEF Next

\* The dialogs and the proxy ask nothing of the gateway that AuthSpec does not
\* allow (GitHubSettings.tsx, backend/github.go).
THEOREM DialogsObey == Spec => AuthSpec
<1>1. Init => AuthInit /\ Waits
  BY DEF Init, Waits
<1> QED
  BY <1>1, WaitsKept, StepAllowed, PTL DEF Spec, AuthSpec

\* So a disconnect stays one whatever the windows do.
COROLLARY SignedOutWithDialogs == Spec => []SignedOutStays
  BY DialogsObey, SignedOut

\* And a sign-in that ends well is in place.
COROLLARY ConnectedWithDialogs == Spec => ConnectedIsInstalled
  BY DialogsObey, Connected

=============================================================================

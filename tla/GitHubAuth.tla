----------------------------- MODULE GitHubAuth -----------------------------
(***************************************************************************)
(* Sign-in to GitHub in the gateway of a workspace: github_auth.py of the  *)
(* channel, with the routes of adapter.py that call it.                    *)
(*                                                                         *)
(* Handlers and the task of a device sign-in are coroutines of one loop:   *)
(* what one does between two awaits is one action.  The commands gh and    *)
(* git are external; each succeeds, fails or is cut short by its timeout.  *)
(* What git is told is no state here, since nothing reads it.              *)
(***************************************************************************)
EXTENDS Integers

CONSTANTS
    Request,        \* requests the gateway handles at the same time
    NoRequest,      \* nobody holds the lock
    MaxSignIn       \* bound: sign-ins begun

ASSUME RequestAssumption == NoRequest \notin Request
ASSUME SignInAssumption  == MaxSignIn \in Nat

\* Sign-ins, by device code or by token, are numbered as they begin.
None   == 0
Action == {"device", "token", "disconnect"}
State  == {"pending", "error", "disconnected", "connected"}

\* A handler waits for the lock, or for the task it has cancelled, or for the
\* device code, or for the commands of a token or of a logout.
Job    == [pc: {"lock", "join", "wait", "login", "verify", "setup", "logout", "answer"},
           action: Action, id: Nat, answer: State \cup {"none", "failed"}]
Idle   == [pc |-> "idle"]
Device == [pc: {"login", "verify", "setup", "cancelled"}, id: Nat]
NoTask == [pc |-> "none", id |-> None]

VARIABLES
    stored,     \* the sign-in whose credentials hosts.yml holds
    lock,       \* self.lock
    task,       \* self.task, NoTask also once it is done
    error,      \* whether self.error is set
    job,        \* the handlers
    begun,      \* sign-ins begun
    barred      \* history: those begun when a disconnect was last done

authVars == <<stored, lock, task, error, job, begun, barred>>

AuthInit ==
    /\ stored = None
    /\ lock = NoRequest /\ task = NoTask /\ error = FALSE
    /\ job = [r \in Request |-> Idle]
    /\ begun = 0 /\ barred = 0

----------------------------------------------------------------------------
(* status *)

(* Definitions whose name ends in Variant are not part of the model: each is *)
(* what a mistake in the code it stands beside would make of it, and the     *)
(* properties are checked to tell it from the original.                      *)

Pending == task # NoTask

\* What status may answer now; credentials are tried, and may be refused.
Status ==
    CASE Pending -> {"pending"}
      [] ~Pending /\ error -> {"error"}
      [] ~Pending /\ ~error /\ stored = None -> {"disconnected"}
      [] OTHER -> {"connected", "error"}

----------------------------------------------------------------------------
(* Handlers *)

Goto(r, pc)  == job' = [job EXCEPT ![r].pc = pc]
Reply(r, v)  == job' = [job EXCEPT ![r] = [@ EXCEPT !.pc = "answer", !.id = None, !.answer = v]]

\* The lock is released with the answer, whatever it is.
FinishVariant(r, v) == Reply(r, v) /\ lock' = IF v = "failed" THEN lock ELSE NoRequest
Finish(r, v) == Reply(r, v) /\ lock' = NoRequest

Arrive(r, action) ==
    /\ job[r] = Idle
    /\ job' = [job EXCEPT ![r] = [pc |-> "lock", action |-> action, id |-> None, answer |-> "none"]]
    /\ UNCHANGED <<stored, lock, task, error, begun, barred>>

Answered(r) ==
    /\ job[r].pc = "answer"
    /\ job' = [job EXCEPT ![r] = Idle]
    /\ UNCHANGED <<stored, lock, task, error, begun, barred>>

HasLockVariant(r) == job[r].pc = "lock"
HasLock(r) == job[r].pc = "lock" /\ lock = NoRequest

\* start_device leaves the lock at once; a second one joins the first.
StartDevice(r) ==
    /\ HasLock(r) /\ job[r].action = "device"
    /\ IF Pending
       THEN Reply(r, "pending") /\ UNCHANGED <<task, error, begun>>
       ELSE /\ begun' = begun + 1 /\ task' = [pc |-> "login", id |-> begun + 1]
            /\ error' = FALSE /\ Goto(r, "wait")
    /\ UNCHANGED <<stored, lock, barred>>

\* The code has come, or eight seconds have passed.
Waited(r) ==
    /\ job[r].pc = "wait" /\ \E v \in Status : Reply(r, v)
    /\ UNCHANGED <<stored, lock, task, error, begun, barred>>

Body(action) == IF action = "token" THEN "login" ELSE "logout"

CancelsVariant == Pending /\ task.pc = "login"
Cancels == Pending

\* token and disconnect cancel a device sign-in and wait for its end.
TakeLock(r) ==
    /\ HasLock(r) /\ job[r].action # "device" /\ lock' = r
    /\ begun' = IF job[r].action = "token" THEN begun + 1 ELSE begun
    /\ job' = [job EXCEPT ![r] = [@ EXCEPT !.id = begun',
                                          !.pc = IF Cancels THEN "join" ELSE Body(job[r].action)]]
    /\ IF Cancels THEN task' = [task EXCEPT !.pc = "cancelled"] /\ UNCHANGED error
                  ELSE error' = FALSE /\ UNCHANGED task
    /\ UNCHANGED <<stored, barred>>

Join(r) ==
    /\ job[r].pc = "join" /\ ~Pending /\ error' = FALSE
    /\ Goto(r, Body(job[r].action))
    /\ UNCHANGED <<stored, lock, task, begun, barred>>

\* gh auth login, then commit: the new hosts.yml replaces the old one as soon
\* as GitHub has accepted it, before git is configured.
TokenStep(r) ==
    \/ /\ job[r].pc = "login" /\ Goto(r, "verify")
       /\ UNCHANGED <<stored, lock, error>>
    \/ /\ job[r].pc = "verify" /\ Goto(r, "setup") /\ stored' = job[r].id
       /\ UNCHANGED <<lock, error>>
    \/ /\ job[r].pc = "setup" /\ Finish(r, "connected") /\ error' = FALSE
       /\ UNCHANGED stored

TokenFails(r) ==
    /\ job[r].pc \in {"login", "verify", "setup"} /\ Finish(r, "failed")
    /\ UNCHANGED <<stored, error>>

\* gh auth logout; its timeout may strike after it has done its work.
Logout(r) ==
    /\ job[r].pc = "logout"
    /\ \/ stored' = None /\ Finish(r, "disconnected") /\ barred' = begun
       \/ stored # None /\ stored' \in {stored, None} /\ Finish(r, "failed") /\ UNCHANGED barred
    /\ UNCHANGED <<task, error, begun>>

Handler(r) ==
    \/ StartDevice(r) \/ Waited(r) \/ TakeLock(r) \/ Join(r)
    \/ (TokenStep(r) \/ TokenFails(r)) /\ UNCHANGED <<task, begun, barred>>
    \/ Logout(r)

----------------------------------------------------------------------------
(* run_device *)

\* The person enters the code; then commit, as for a token.
DeviceStep ==
    \/ /\ task.pc = "login" /\ task' = [task EXCEPT !.pc = "verify"]
       /\ UNCHANGED <<stored, error>>
    \/ /\ task.pc = "verify" /\ task' = [task EXCEPT !.pc = "setup"] /\ stored' = task.id
       /\ UNCHANGED error
    \/ /\ task.pc = "setup" /\ task' = NoTask /\ error' = FALSE
       /\ UNCHANGED stored

\* A command fails, or fifteen minutes have passed; or the task was cancelled.
DeviceEnds ==
    /\ Pending /\ task' = NoTask
    /\ error' = (error \/ task.pc # "cancelled")
    /\ UNCHANGED stored

RunDevice == (DeviceStep \/ DeviceEnds) /\ UNCHANGED <<lock, job, begun, barred>>

\* The gateway is killed and started again; files survive.
Restart ==
    /\ lock' = NoRequest /\ task' = NoTask /\ error' = FALSE
    /\ job' = [r \in Request |-> Idle]
    /\ UNCHANGED <<stored, begun, barred>>

----------------------------------------------------------------------------
AuthNext ==
    \/ \E r \in Request : Handler(r) \/ Answered(r) \/ \E a \in Action : Arrive(r, a)
    \/ RunDevice \/ Restart

AuthSpec == AuthInit /\ [][AuthNext]_authVars

----------------------------------------------------------------------------
(* Properties *)

\* Files, coroutines and locals have their types.
TypeOK ==
    /\ stored \in Nat
    /\ lock \in Request \cup {NoRequest}
    /\ task \in Device \cup {NoTask} /\ error \in BOOLEAN
    /\ job \in [Request -> Job \cup {Idle}]
    /\ begun \in Nat /\ barred \in Nat

\* Once a disconnect has said so, there are no credentials but those of a
\* sign-in that began later: no device sign-in that was cancelled, or token
\* that was on its way, brings them back ("Disconnect removes the local
\* credential").
SignedOutStays == stored # None => stored > barred

\* A token that is answered as connected is the one in place, and so is a
\* device sign-in that comes to its end: no other sign-in replaces either
\* between its commit and its end.
ConnectedIsInstalled ==
    [][/\ \A r \in Request :
             job[r].pc = "setup" /\ job'[r].pc = "answer" /\ job'[r].answer = "connected"
                 => stored' = job[r].id
       /\ task.pc = "setup" /\ task' = NoTask /\ ~error' => stored' = task.id]_authVars

=============================================================================

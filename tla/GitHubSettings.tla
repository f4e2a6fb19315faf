--------------------------- MODULE GitHubSettings ---------------------------
(***************************************************************************)
(* The GitHub dialog of the web client, frontend/src/GitHubSettings.tsx,   *)
(* on top of GitHubAuth; the proxy between them, backend/github.go, keeps  *)
(* nothing.  A dialog asks for the status every five seconds and shows     *)
(* whatever answer arrives last, of a poll or of an action, below the      *)
(* error of a request that failed since its last action.                   *)
(***************************************************************************)
EXTENDS GitHubAuth, FiniteSets

CONSTANTS Panel     \* windows that may show the dialog, on one workspace

VARIABLES
    shown,      \* status.state of a dialog that is open
    failed,     \* whether its error is set: a request failed since its last action
    waiting,    \* the action it waits for (busy)
    poll        \* the answer to its poll that is under way

panelVars == <<shown, failed, waiting, poll>>
vars      == <<authVars, panelVars>>

Init ==
    /\ AuthInit
    /\ shown = [p \in Panel |-> "closed"]
    /\ failed = [p \in Panel |-> FALSE]
    /\ waiting = [p \in Panel |-> NoRequest]
    /\ poll = [p \in Panel |-> "none"]

----------------------------------------------------------------------------
(* A window opens or closes the dialog, or presses one of its buttons. *)

Open(p) ==
    /\ shown[p] = "closed"
    /\ shown' = [shown EXCEPT ![p] = "loading"]
    /\ UNCHANGED <<authVars, failed, waiting, poll>>

Close(p) ==
    /\ shown[p] # "closed"
    /\ shown' = [shown EXCEPT ![p] = "closed"]
    /\ failed' = [failed EXCEPT ![p] = FALSE]
    /\ waiting' = [waiting EXCEPT ![p] = NoRequest]
    /\ poll' = [poll EXCEPT ![p] = "none"]
    /\ UNCHANGED authVars

Offered(p, action) ==
    /\ shown[p] # "closed" /\ waiting[p] = NoRequest
    /\ action = "device" => shown[p] # "pending"
    /\ action = "disconnect" => shown[p] \in {"connected", "pending", "error"}

\* Bound: a sign-in is asked for only if it can still begin.
Allowed(action) ==
    action = "disconnect" \/
        begun + Cardinality({q \in Request : job[q].pc = "lock" /\ job[q].action # "disconnect"}) < MaxSignIn

Press(p, r, action) ==
    /\ Offered(p, action) /\ Allowed(action) /\ Arrive(r, action)
    /\ failed' = [failed EXCEPT ![p] = FALSE]
    /\ waiting' = [waiting EXCEPT ![p] = r]
    /\ UNCHANGED <<shown, poll>>

\* The answer arrives: the status it has, or an error.
Arrives(p) ==
    LET r == waiting[p]
    IN /\ r # NoRequest /\ Answered(r)
       /\ waiting' = [waiting EXCEPT ![p] = NoRequest]
       /\ IF job[r].answer = "failed"
          THEN failed' = [failed EXCEPT ![p] = TRUE] /\ UNCHANGED shown
          ELSE shown' = [shown EXCEPT ![p] = job[r].answer] /\ UNCHANGED failed
       /\ UNCHANGED poll

\* The request fails on its way; its handler goes on, and nobody takes its
\* answer.
Lost(p) ==
    /\ waiting[p] # NoRequest
    /\ waiting' = [waiting EXCEPT ![p] = NoRequest]
    /\ failed' = [failed EXCEPT ![p] = TRUE]
    /\ UNCHANGED <<authVars, shown, poll>>

Dropped(r) ==
    /\ \A p \in Panel : waiting[p] # r
    /\ Answered(r) /\ UNCHANGED panelVars

----------------------------------------------------------------------------
(* Polls *)

PollDueVariant(p) == shown[p] = "loading" /\ poll[p] = "none"
PollDue(p) == shown[p] # "closed" /\ poll[p] = "none"

Poll(p) ==
    /\ PollDue(p)
    /\ \E v \in Status : poll' = [poll EXCEPT ![p] = v]
    /\ UNCHANGED <<authVars, shown, failed, waiting>>

\* A good answer leaves the error of an earlier one.
ApplyPoll(p) ==
    /\ poll[p] # "none"
    /\ shown' = [shown EXCEPT ![p] = poll[p]]
    /\ poll' = [poll EXCEPT ![p] = "none"]
    /\ UNCHANGED <<authVars, failed, waiting>>

PollFails(p) ==
    /\ poll[p] # "none" /\ poll' = [poll EXCEPT ![p] = "none"]
    /\ failed' = [failed EXCEPT ![p] = TRUE]
    /\ UNCHANGED <<authVars, shown, waiting>>

\* Requests and polls under way fail with the gateway.
GatewayRestarts ==
    /\ Restart
    /\ failed' = [p \in Panel |-> failed[p] \/ waiting[p] # NoRequest \/ poll[p] # "none"]
    /\ waiting' = [p \in Panel |-> NoRequest]
    /\ poll' = [p \in Panel |-> "none"]
    /\ UNCHANGED shown

----------------------------------------------------------------------------
GatewayStep(A) == A /\ UNCHANGED panelVars

Next ==
    \/ \E p \in Panel :
          \/ Open(p) \/ Close(p) \/ Arrives(p) \/ Lost(p)
          \/ Poll(p) \/ ApplyPoll(p) \/ PollFails(p)
          \/ \E r \in Request, a \in Action : Press(p, r, a)
    \/ \E r \in Request : GatewayStep(Handler(r)) \/ Dropped(r)
    \/ GatewayStep(RunDevice) \/ GatewayRestarts

Spec == Init /\ [][Next]_vars

\* The loop runs every coroutine and the lock serves its waiters in turn.  Every
\* gh command has a timeout of 15 s and a device sign-in one of 15 min; the two
\* `git config` of a token's commit have none (github_auth.py:76) and are assumed
\* to end: if one hung, the lock would be held for good.  An answer that is there
\* reaches a dialog that waits; the dialog polls every five seconds and not every
\* poll fails.
Fairness ==
    /\ \A r \in Request : /\ SF_vars(GatewayStep(StartDevice(r) \/ TakeLock(r)))
                          /\ WF_vars(GatewayStep(Handler(r))) /\ WF_vars(Dropped(r))
    /\ WF_vars(GatewayStep(DeviceEnds /\ UNCHANGED <<lock, job, begun, barred>>))
    /\ \A p \in Panel : WF_vars(Arrives(p)) /\ WF_vars(Poll(p)) /\ SF_vars(ApplyPoll(p))

FairSpec == Spec /\ Fairness

----------------------------------------------------------------------------
(* Properties *)

\* Every action of a dialog ends and frees its buttons, also one that has to
\* cancel a device sign-in and wait for its end.
ActionEnds == \A p \in Panel : waiting[p] # NoRequest ~> waiting[p] = NoRequest

Quiet == ~Pending /\ \A r \in Request : job[r] = Idle

\* When nothing is going on any more, an open dialog shows in the end the status
\* the gateway would give, whatever late answer it has shown meanwhile.  This is
\* said of its status only: the error of a request that has failed since its last
\* action (failed) stays above it, and hides the error the status may have.
PanelSettles ==
    \A p \in Panel : Quiet /\ shown[p] # "closed"
        ~> ~Quiet \/ shown[p] \in Status \cup {"closed"}

=============================================================================

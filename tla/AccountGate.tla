----------------------------- MODULE AccountGate -----------------------------
(***************************************************************************)
(* The gate of the 386GPT web client: src/frontend/src/AccountGate.tsx, in  *)
(* front of the account environments of AccountSlots.                      *)
(*                                                                         *)
(* A page asks for its account until the environment is ready, and shows   *)
(* the application from then on.  A page whose session is gone stops asking *)
(* and offers to sign in.  Requests and answers may be lost, and the       *)
(* process may be down; the page asks again after two seconds.             *)
(***************************************************************************)
EXTENDS AccountSlots

CONSTANT Gated   \* accounts that have a page open

ASSUME GatedAssumption == Gated \subseteq Account

\* ask: between two checks, or about to check; ready: the answer is on its way;
\* login: offers to sign in; app: the application is shown.
VARIABLE gate

gateVars == <<vars, gate>>

GateInit == Init /\ gate = [a \in Gated |-> "ask"]

To(a, state) == gate' = [gate EXCEPT ![a] = state]

\* check: the request is handled as any request of the account is.  An answer
\* that is not ready leaves the page where it was.
Ask(a) ==
    /\ gate[a] = "ask"
    /\ Request(a)
    /\ To(a, IF Ready(a)' THEN "ready" ELSE "ask")

\* The server knows no session: the page stops asking.
Refused(a) == gate[a] = "ask" /\ Live /\ To(a, "login") /\ UNCHANGED vars

Opens(a) == gate[a] = "ready" /\ To(a, "app") /\ UNCHANGED vars

\* The answer is lost, or too late.
AnswerLost(a) == gate[a] = "ready" /\ To(a, "ask") /\ UNCHANGED vars

\* Sign in with Google: the page is left, and loaded again when the account
\* is signed in.
SignInAgain(a) == gate[a] = "login" /\ SignIn(a) /\ To(a, "ask")

GateStep(a) ==
    Ask(a) \/ Refused(a) \/ Opens(a) \/ AnswerLost(a) \/ SignInAgain(a)

GateNext == (\E a \in Gated : GateStep(a)) \/ (Next /\ UNCHANGED gate)

GateSpec == GateInit /\ [][GateNext]_gateVars

\* A page that may ask asks every two seconds, and not every answer is lost.
\* The pause after a failure ends, a provisioner that is asked again and again
\* succeeds at some point, goroutines are scheduled, and the process is
\* started again.
GateFairness ==
    /\ \A a \in Gated : WF_gateVars(Ask(a)) /\ SF_gateVars(Opens(a)) /\ WF_gateVars(Opens(a) \/ AnswerLost(a))
    /\ \A a \in Account : /\ WF_gateVars(RetryElapses(a) /\ UNCHANGED gate)
                          /\ WF_gateVars(RecoverSlot(a) /\ UNCHANGED gate)
    /\ \A g \in Goroutine :
         /\ SF_gateVars(Provisioned(g) /\ UNCHANGED gate)
         /\ WF_gateVars(Publish(g) /\ UNCHANGED gate)
         /\ WF_gateVars((Provisioned(g) \/ ProvisionFailed(g)) /\ UNCHANGED gate)
    /\ WF_gateVars(Boot /\ UNCHANGED gate)
    /\ WF_gateVars(RecoverDone /\ UNCHANGED gate)

FairGateSpec == GateSpec /\ GateFairness

\* A page that waits for its account comes to the application or to the
\* sign-in link, across sign-ins elsewhere, failures of the provisioner, lost
\* answers and restarts, unless the server is closed or the account's gateway
\* was moved ("API restart required").
GateOpens ==
    \A a \in Gated :
        gate[a] = "ask" ~> gate[a] \in {"app", "login"} \/ phase \in {"closing", "closed"} \/ connection[a] # 1

=============================================================================

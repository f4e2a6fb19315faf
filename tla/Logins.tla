------------------------------- MODULE Logins -------------------------------
(***************************************************************************)
(* What signing in promises, with no cookie, request, table or answer in   *)
(* sight: a browser begins a login, somebody chooses an account for it,    *)
(* and it earns that browser at most one session, of that account.  A      *)
(* session that has ended stays ended.  LoginSessions implements it.       *)
(***************************************************************************)
EXTENDS Naturals, Sequences

CONSTANTS Browser, Account, NoAccount, Flow, SessionId

VARIABLES
    begun,    \* the browser of each login
    consent,  \* the account chosen for each login
    session   \* the sessions earned: login, browser, account while it lasts

loginVars == <<begun, consent, session>>

Chosen(f) == consent[f] # NoAccount
Spent(f)  == \E s \in DOMAIN session : session[s].flow = f

LoginInit ==
    /\ begun = <<>>
    /\ consent = [f \in Flow |-> NoAccount]
    /\ session = <<>>

Begin(b) ==
    /\ Len(begun) + 1 \in Flow
    /\ begun' = Append(begun, b)
    /\ UNCHANGED <<consent, session>>

Choose(f, a) ==
    /\ f \in DOMAIN begun /\ ~Chosen(f)
    /\ consent' = [consent EXCEPT ![f] = a]
    /\ UNCHANGED <<begun, session>>

\* The session is the browser's that began the login.
Earn(f) ==
    /\ f \in DOMAIN begun /\ Chosen(f) /\ ~Spent(f)
    /\ Len(session) + 1 \in SessionId
    /\ session' = Append(session, [flow |-> f, browser |-> begun[f], account |-> consent[f]])
    /\ UNCHANGED <<begun, consent>>

\* A sign-out, a new sign-in or the time ends a session.
End(s) ==
    /\ session' = [session EXCEPT ![s].account = NoAccount]
    /\ UNCHANGED <<begun, consent>>

LoginNext ==
    \/ \E b \in Browser : Begin(b)
    \/ \E f \in Flow : Earn(f) \/ \E a \in Account : Choose(f, a)
    \/ \E s \in DOMAIN session : End(s)

LoginSpec == LoginInit /\ [][LoginNext]_loginVars

=============================================================================

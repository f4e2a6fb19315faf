--------------------------- MODULE LoginSessions ---------------------------
(***************************************************************************)
(* Google sign-in and login sessions, backend/oauth.go, with the sockets of *)
(* Hub that live as long as their session.                                  *)
(*                                                                         *)
(* A request is sent with the cookies its browser has at that time, is      *)
(* handled in steps, and its answer reaches the browser later or never.     *)
(* Google, the people at the browsers and the passing of time are external. *)
(***************************************************************************)
EXTENDS Hub, Integers, Sequences, FiniteSets

CONSTANTS
    Browser, Account,
    NoAccount,      \* where there is none
    Request,        \* requests under way at the same time
    FlowLimit,      \* outstanding logins (1000 in the code)
    MaxFlow,        \* bound: logins begun
    MaxSession,     \* bound: sessions created
    MaxFailure      \* bound: statements that fail

ASSUME AccountAssumption == NoAccount \notin Account
ASSUME BoundAssumption   ==
    FlowLimit \in Nat \ {0} /\ MaxFlow \in Nat /\ MaxSession \in Nat /\ MaxFailure \in Nat

\* Logins and sessions are numbered as they are drawn.  The state of a login,
\* the cookie that binds it to its browser, its verifier and its nonce are
\* random values that go by the number of the login.
Flow      == 1..MaxFlow
SessionId == 1..MaxSession
None      == 0            \* no cookie, no code; as an answer, clear the cookie
Keep      == -1           \* an answer that leaves a cookie alone

Message == [pc: {"login", "begin", "callback", "exchange", "rotate", "insert", "logout", "api",
                 "upgrade", "answer"},
            kind: {"login", "callback", "logout", "api"},
            browser: Browser, flow: Flow \cup {None}, code: Flow \cup {None},
            held: Flow \cup {None}, cookie: SessionId \cup {None},
            setState: Flow \cup {None, Keep}, setSession: SessionId \cup {None, Keep}]
Idle == [pc |-> "idle"]

VARIABLES
    flows,          \* table oauth_states
    late,           \* those of them that are older than ten minutes
    sessions,       \* table login_sessions: the account of each row
    expired,        \* sessions older than eight hours
    stateCookie, sessionCookie,   \* of each browser
    request,        \* requests and answers under way
    holder,         \* the session a socket was opened with
    begun,          \* history: the browser that began each login
    consent,        \* external: the account chosen at Google for each login
    origin,         \* history: the login and the browser of each session
    failures        \* statements that failed

tables  == <<flows, sessions>>
outside == <<late, expired, begun, consent>>
cookies == <<stateCookie, sessionCookie>>
vars    == <<hubVars, tables, outside, cookies, request, holder, origin, failures>>

Live(s) == s # None /\ sessions[s] # NoAccount /\ s \notin expired

Init ==
    /\ HubInit
    /\ flows = {} /\ late = {}
    /\ sessions = [s \in SessionId |-> NoAccount] /\ expired = {}
    /\ stateCookie = [b \in Browser |-> None] /\ sessionCookie = [b \in Browser |-> None]
    /\ request = [r \in Request |-> Idle]
    /\ holder = [k \in Socket |-> None]
    /\ begun = <<>> /\ consent = [f \in Flow |-> NoAccount] /\ origin = <<>>
    /\ failures = 0

----------------------------------------------------------------------------
(* Requests *)

(* Definitions whose name ends in Variant are not part of the model: each is *)
(* what a mistake in the code it stands beside would make of it, and the     *)
(* properties are checked to tell it from the original.                      *)

\* A callback carries the state of a login and the code Google gave for one.
Send(r, b, kind, f, g) ==
    /\ request[r] = Idle
    /\ request' = [request EXCEPT ![r] =
          [pc |-> kind, kind |-> kind, browser |-> b, flow |-> f, code |-> g,
           held |-> stateCookie[b], cookie |-> sessionCookie[b],
           setState |-> Keep, setSession |-> Keep]]
    /\ UNCHANGED <<hubVars, tables, late, expired, begun, cookies, holder, origin, failures>>

Ask(r, b) == \E kind \in {"login", "logout", "api"} : Send(r, b, kind, None, None) /\ UNCHANGED consent

\* Google sends the browser back with a code, once an account has been chosen
\* for the login the code is for, or without one.
Return(r, b, f, g) ==
    /\ f \in 1..Len(begun)
    /\ IF g = None THEN UNCHANGED consent
       ELSE /\ g \in 1..Len(begun)
            /\ \E a \in Account : consent[g] \in {NoAccount, a} /\ consent' = [consent EXCEPT ![g] = a]
    /\ Send(r, b, "callback", f, g)

Goto(r, pc) == request' = [request EXCEPT ![r].pc = pc]
Answer(r, state, session) ==
    request' = [request EXCEPT ![r] = [@ EXCEPT !.pc = "answer", !.setState = state, !.setSession = session,
                                                !.flow = None, !.code = None, !.held = None]]

\* A statement fails.  Most are executed for their effect only and the error
\* is ignored.
Fails == failures < MaxFailure /\ failures' = failures + 1
Works == failures' = failures

\* Old rows are removed, if the statements work; the login goes on without.
HandleLogin(r) ==
    /\ request[r].pc = "login" /\ Goto(r, "begin")
    /\ \/ Works /\ flows' = flows \ late /\ late' = {}
       \/ Fails /\ UNCHANGED <<flows, late>>
    /\ sessions' \in {sessions, [s \in SessionId |-> IF s \in expired THEN NoAccount ELSE sessions[s]]}
    /\ UNCHANGED <<hubVars, expired, begun, consent, cookies, holder, origin>>

\* The row is inserted if there is room; the same statement counts the rows.
Begin(r) ==
    LET f == Len(begun) + 1
    IN /\ request[r].pc = "begin"
       /\ \/ /\ Works /\ Cardinality(flows) < FlowLimit /\ f <= MaxFlow
             /\ flows' = flows \cup {f} /\ begun' = Append(begun, request[r].browser)
             /\ Answer(r, f, Keep)
          \/ /\ (Works /\ (Cardinality(flows) >= FlowLimit \/ f > MaxFlow)) \/ Fails
             /\ Answer(r, Keep, Keep) /\ UNCHANGED <<flows, begun>>
       /\ UNCHANGED <<hubVars, late, sessions, expired, consent, cookies, holder, origin>>

\* A sign-in that goes wrong clears the cookie of the login only.
RefuseVariant(r) == Answer(r, None, None)
Refuse(r) == Answer(r, IF request[r].held = None THEN Keep ELSE None, Keep)

ConsumesVariant(r) == request[r].flow \in flows \ late
Consumes(r) == request[r].held = request[r].flow /\ request[r].flow \in flows \ late

\* The login is used up by this statement, whatever follows.
HandleCallback(r) ==
    /\ request[r].pc = "callback"
    /\ \/ /\ Consumes(r) /\ Works
          /\ flows' = flows \ {request[r].flow}
          /\ IF request[r].code = None THEN Answer(r, None, Keep) ELSE Goto(r, "exchange")
       \/ /\ (~Consumes(r) /\ Works) \/ (request[r].held # None /\ Fails)
          /\ flows' = flows /\ Refuse(r)
    /\ UNCHANGED <<hubVars, sessions, outside, cookies, holder, origin>>

\* The identity Google vouches for must name the nonce of this login.
Verified(r) == request[r].code = request[r].flow

Exchange(r) ==
    /\ request[r].pc = "exchange"
    /\ \/ Verified(r) /\ Goto(r, "rotate")
       \/ Refuse(r)
    /\ UNCHANGED <<hubVars, tables, outside, cookies, holder, origin, failures>>

\* The session of the request's cookie ends, here and in logout.
Revoked(r) == [s \in SessionId |-> IF s = request[r].cookie THEN NoAccount ELSE sessions[s]]

Revoke(r) == (Works /\ sessions' = Revoked(r)) \/ (Fails /\ UNCHANGED sessions)

Rotate(r) ==
    /\ request[r].pc = "rotate" /\ Revoke(r)
    /\ Goto(r, "insert")
    /\ UNCHANGED <<hubVars, flows, outside, cookies, holder, origin>>

Insert(r) ==
    LET s == Len(origin) + 1
    IN /\ request[r].pc = "insert"
       /\ \/ /\ s <= MaxSession /\ Works
             /\ sessions' = [sessions EXCEPT ![s] = consent[request[r].code]]
             /\ origin' = Append(origin, [flow |-> request[r].flow, browser |-> request[r].browser])
             /\ Answer(r, None, s)
          \/ /\ Fails
             /\ Refuse(r) /\ UNCHANGED <<sessions, origin>>
       /\ UNCHANGED <<hubVars, flows, outside, cookies, holder>>

HandleLogout(r) ==
    /\ request[r].pc = "logout" /\ Revoke(r)
    /\ Answer(r, Keep, None)
    /\ UNCHANGED <<hubVars, flows, outside, cookies, holder, origin>>

\* protect: without a live session the answer is 401 and clears the cookie;
\* a query that fails counts as no session.  A request that is let through may
\* be one for a socket.
Protect(r) ==
    /\ request[r].pc = "api"
    /\ \/ /\ Live(request[r].cookie) /\ Works
          /\ Goto(r, "upgrade") \/ Answer(r, Keep, Keep)
       \/ /\ (~Live(request[r].cookie) /\ Works) \/ Fails
          /\ Answer(r, Keep, IF request[r].cookie = None THEN Keep ELSE None)
    /\ UNCHANGED <<hubVars, tables, outside, cookies, holder, origin>>

OpenSocket(r, k) ==
    /\ request[r].pc = "upgrade" /\ Upgrade(k)
    /\ holder' = [holder EXCEPT ![k] = request[r].cookie]
    /\ request' = [request EXCEPT ![r] = Idle]
    /\ UNCHANGED <<tables, outside, cookies, origin, failures>>

After(cookie, set) == IF set = Keep THEN cookie ELSE set

Deliver(r) ==
    LET b == request[r].browser
    IN /\ request[r].pc = "answer"
       /\ stateCookie' = [stateCookie EXCEPT ![b] = After(@, request[r].setState)]
       /\ sessionCookie' = [sessionCookie EXCEPT ![b] = After(@, request[r].setSession)]
       /\ request' = [request EXCEPT ![r] = Idle]
       /\ UNCHANGED <<hubVars, tables, outside, holder, origin, failures>>

\* The browser does not wait for the answer.
Lose(r) ==
    /\ request[r].pc = "answer"
    /\ request' = [request EXCEPT ![r] = Idle]
    /\ UNCHANGED <<hubVars, tables, outside, cookies, holder, origin, failures>>

----------------------------------------------------------------------------
(* Around the requests *)

Age ==
    /\ \/ \E f \in flows : late' = late \cup {f} /\ UNCHANGED expired
       \/ \E s \in SessionId : Live(s) /\ expired' = expired \cup {s} /\ UNCHANGED late
    /\ UNCHANGED <<hubVars, tables, begun, consent, cookies, request, holder, origin, failures>>

OfHub == UNCHANGED <<tables, outside, cookies, request, holder, origin>>

\* The timer of a socket, and its checker, which asks every second; a query
\* that fails counts as no session.
TimerFires(k) == holder[k] \in expired /\ CloseConn(k) /\ Works /\ OfHub

FoundDeadVariant(k) == holder[k] \in expired
FoundDead(k) == ~Live(holder[k])
CheckFinds(k) == ((FoundDead(k) /\ Works) \/ Fails) /\ CloseConn(k) /\ OfHub

----------------------------------------------------------------------------
Next ==
    \/ \E r \in Request, b \in Browser :
          Ask(r, b) \/ \E f \in Flow, g \in Flow \cup {None} : Return(r, b, f, g)
    \/ \E r \in Request :
          \/ HandleLogin(r) \/ Begin(r) \/ HandleCallback(r) \/ Exchange(r) \/ Rotate(r) \/ Insert(r)
          \/ HandleLogout(r) \/ Protect(r) \/ Deliver(r) \/ Lose(r)
          \/ \E k \in Socket : OpenSocket(r, k)
    \/ Age
    \/ Broadcast /\ Works /\ OfHub
    \/ \E k \in Socket : (HubStep(k) /\ Works /\ OfHub) \/ TimerFires(k) \/ CheckFinds(k)

Spec == Init /\ [][Next]_vars

\* The goroutines of a socket run.
Fairness == \A k \in Socket : WF_vars(Serve(k) /\ Works /\ OfHub) /\ WF_vars(CheckFinds(k))

FairSpec == Spec /\ Fairness

----------------------------------------------------------------------------
(* Refinement *)

\* The sessions that were created; one that was revoked or is too old has no
\* account any more.
Lasting == [s \in 1..Len(origin) |-> [flow |-> origin[s].flow, browser |-> origin[s].browser,
                                      account |-> IF Live(s) THEN sessions[s] ELSE NoAccount]]

Sign == INSTANCE Logins WITH session <- Lasting

\* A login earns at most one session, for the browser that began it and of the
\* account chosen for it ("Consumed exactly once and bound to the initiating
\* browser"); a session that is revoked or too old does not come back.
ImplementsLogins == Sign!LoginSpec

----------------------------------------------------------------------------
(* Properties *)

\* Tables, cookies and requests have their types.
TypeOK ==
    /\ HubTypeOK
    /\ flows \subseteq Flow /\ late \subseteq flows
    /\ sessions \in [SessionId -> Account \cup {NoAccount}] /\ expired \subseteq SessionId
    /\ stateCookie \in [Browser -> Flow \cup {None}]
    /\ sessionCookie \in [Browser -> SessionId \cup {None}]
    /\ request \in [Request -> Message \cup {Idle}]
    /\ holder \in [Socket -> SessionId \cup {None}]
    /\ begun \in Seq(Browser) /\ Len(begun) <= MaxFlow
    /\ consent \in [Flow -> Account \cup {NoAccount}]
    /\ origin \in Seq([flow: Flow, browser: Browser]) /\ Len(origin) <= MaxSession
    /\ failures \in 0..MaxFailure

\* A session comes from one login, which no other session comes from, was
\* created for the browser that began it, and is of the account that was
\* chosen for it ("Consumed exactly once and bound to the initiating browser").
SessionsAreEarned ==
    \A s \in 1..Len(origin) :
        /\ origin[s].browser = begun[origin[s].flow]
        /\ sessions[s] \in {NoAccount, consent[origin[s].flow]}
        /\ \A t \in 1..Len(origin) : origin[s].flow = origin[t].flow => s = t

\* An answer under way takes the cookie of a live session from its browser
\* only if it is the answer to a logout, or if the browser has signed in again
\* since the request was sent; as long as no statement failed.
ClearsAreDue ==
    \A r \in Request :
        LET s == sessionCookie[request[r].browser]
        IN request[r].pc = "answer" /\ request[r].setSession = None /\ Live(s)
              => request[r].kind = "logout" \/ request[r].cookie # s \/ failures > 0

\* A socket whose session is revoked or expired is closed, and a closed one
\* leaves the hub, unless its handler is blocked for good ("Existing WebSockets
\* close on expiry or within one second of revocation").
SocketsClose ==
    \A k \in Socket : (Open(k) /\ ~Live(holder[k])) ~> (k \notin clients \/ Blocked(k))

=============================================================================

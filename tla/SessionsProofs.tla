--------------------------- MODULE SessionsProofs ---------------------------
(***************************************************************************)
(* Theorems about Hub and LoginSessions, for every value of the constants:  *)
(* types, nobody sends on a closed channel, and every session is earned.    *)
(*                                                                         *)
(* A session is earned because a login leaves the table, a request and the  *)
(* sessions in turn (Once), and the browser that began it is known wherever *)
(* its number is held: in a cookie, a request or an answer (Bound).         *)
(***************************************************************************)
EXTENDS LoginSessions, TLAPS

-----------------------------------------------------------------------------
(* The hub *)

\* A channel is closed together with the end of its handler and its removal
\* from the hub.
ChannelsOpen ==
    \A k \in Socket :
        /\ Handling(k) => ~socket[k].closed
        /\ k \in clients => socket[k].pc \in {"ready", "read"}

HubInv == HubTypeOK /\ ChannelsOpen

LEMMA HubInitInv == HubInit => HubInv
  BY DEF HubInit, HubInv, HubTypeOK, ChannelsOpen, Handling, Unused

LEMMA ClientTyped ==
  ASSUME HubTypeOK, NEW k \in Socket, socket[k].pc # "unused"
  PROVE  socket[k] \in Client
  BY DEF HubTypeOK, Unused

LEMMA UpgradeInv ==
  ASSUME HubInv, NEW k \in Socket, Upgrade(k)
  PROVE  HubInv'
<1>1. [pc |-> "register", conn |-> TRUE, writer |-> FALSE, queue |-> 0, closed |-> FALSE] \in Client
  BY QueueAssumption DEF Client
<1>2. HubTypeOK'
  BY <1>1 DEF HubInv, HubTypeOK, Upgrade
<1>3. ChannelsOpen'
  BY DEF HubInv, HubTypeOK, ChannelsOpen, Handling, Upgrade, Unused
<1> QED
  BY <1>2, <1>3 DEF HubInv

LEMMA BroadcastInv ==
  ASSUME HubInv, Broadcast
  PROVE  HubInv'
<1>1. ASSUME NEW k \in Socket, k \in clients, socket[k].queue < Queue
      PROVE  [socket[k] EXCEPT !.queue = @ + 1] \in Client
  <2>1. socket[k] \in Client
    BY <1>1, ClientTyped DEF HubInv, ChannelsOpen
  <2> QED
    BY <1>1, <2>1, QueueAssumption DEF Client
<1>2. HubTypeOK'
  BY <1>1 DEF HubInv, HubTypeOK, Broadcast
<1>3. \A k \in Socket :
         socket'[k] = socket[k] \/ (k \in clients /\ socket'[k] = [socket[k] EXCEPT !.queue = @ + 1])
  BY DEF Broadcast
<1>4. \A k \in clients : socket[k] \in Client
  BY ClientTyped DEF HubInv, HubTypeOK, ChannelsOpen
<1>5. ChannelsOpen'
  BY <1>3, <1>4 DEF Broadcast, HubInv, HubTypeOK, ChannelsOpen, Handling, Client
<1> QED
  BY <1>2, <1>5 DEF HubInv

LEMMA HubStepInv ==
  ASSUME HubInv, NEW k \in Socket, HubStep(k) \/ CloseConn(k)
  PROVE  HubInv'
<1>1. CASE Register(k)
  <2>1. socket[k] \in Client
    BY <1>1, ClientTyped DEF Register, HubInv
  <2>2. [socket[k] EXCEPT !.pc = "ready", !.writer = TRUE] \in Client
    BY <2>1 DEF Client
  <2> QED
    BY <1>1, <2>1, <2>2 DEF Register, HubInv, HubTypeOK, ChannelsOpen, Handling, Client
<1>2. CASE SendReady(k)
  <2>1. socket[k] \in Client
    BY <1>2, ClientTyped DEF SendReady, HubInv
  <2>2. [socket[k] EXCEPT !.pc = "read", !.queue = @ + 1] \in Client
    <3>1. socket[k].queue + 1 \in 0..Queue
      BY <1>2, <2>1, QueueAssumption DEF Client, SendReady
    <3> QED
      BY <2>1, <3>1 DEF Client
  <2> QED
    BY <1>2, <2>1, <2>2 DEF SendReady, HubInv, HubTypeOK, ChannelsOpen, Handling, Client
<1>3. CASE WriterEnds(k)
  <2>1. socket[k] \in Client
    BY <1>3 DEF WriterEnds, HubInv, HubTypeOK
  <2>2. [socket[k] EXCEPT !.writer = FALSE, !.conn = FALSE] \in Client
    BY <2>1 DEF Client
  <2> QED
    BY <1>3, <2>1, <2>2 DEF WriterEnds, EndWriter, HubInv, HubTypeOK, ChannelsOpen, Handling, Client
<1>4. CASE Leave(k)
  <2>1. socket[k] \in Client
    BY <1>4, ClientTyped DEF Leave, HubInv
  <2>2. [socket[k] EXCEPT !.pc = "gone", !.conn = FALSE, !.closed = TRUE] \in Client
    BY <2>1 DEF Client
  <2> QED
    BY <1>4, <2>1, <2>2 DEF Leave, HubInv, HubTypeOK, ChannelsOpen, Handling, Client
<1>5. CASE Write(k)
  <2>1. socket[k] \in Client
    BY <1>5, ClientTyped DEF Write, Open, Handling, HubInv
  <2>2. [socket[k] EXCEPT !.queue = @ - 1] \in Client
    BY <1>5, <2>1, QueueAssumption DEF Client, Write
  <2> QED
    BY <1>5, <2>1, <2>2 DEF Write, HubInv, HubTypeOK, ChannelsOpen, Handling, Client
<1>6. CASE CloseConn(k)
  <2>1. socket[k] \in Client
    BY <1>6, ClientTyped DEF CloseConn, Open, Handling, HubInv
  <2>2. [socket[k] EXCEPT !.conn = FALSE] \in Client
    BY <2>1 DEF Client
  <2> QED
    BY <1>6, <2>1, <2>2 DEF CloseConn, HubInv, HubTypeOK, ChannelsOpen, Handling, Client
<1>7. CASE Forget(k)
  BY <1>7 DEF Forget, HubInv, HubTypeOK, ChannelsOpen, Handling, Unused
<1> QED
  BY <1>1, <1>2, <1>3, <1>4, <1>5, <1>6, <1>7 DEF HubStep, Serve

LEMMA HubSame ==
  ASSUME HubInv, UNCHANGED hubVars
  PROVE  HubInv'
  BY DEF hubVars, HubInv, HubTypeOK, ChannelsOpen, Handling

-----------------------------------------------------------------------------
(* Requests *)

Working == {"login", "begin", "callback", "exchange", "rotate", "insert", "logout", "api", "upgrade", "answer"}

LEMMA MessageTyped ==
  ASSUME TypeOK, NEW r \in Request, request[r].pc \in Working
  PROVE  request[r] \in Message
  BY DEF TypeOK, Idle, Working

LEMMA GotoDoes ==
  ASSUME TypeOK, NEW r \in Request, request[r].pc \in Working, NEW pc \in Working, Goto(r, pc)
  PROVE  /\ request' \in [Request -> Message \cup {Idle}]
         /\ request'[r] = [request[r] EXCEPT !.pc = pc]
         /\ \A q \in Request : q # r => request'[q] = request[q]
<1>1. request[r] \in Message
  BY MessageTyped
<1>2. [request[r] EXCEPT !.pc = pc] \in Message
  BY <1>1 DEF Message, Working
<1> QED
  BY <1>1, <1>2 DEF Goto, TypeOK

LEMMA AnswerDoes ==
  ASSUME TypeOK, NEW r \in Request, request[r].pc \in Working,
         NEW state \in Flow \cup {None, Keep}, NEW session \in SessionId \cup {None, Keep},
         Answer(r, state, session)
  PROVE  /\ request' \in [Request -> Message \cup {Idle}]
         /\ request'[r].pc = "answer" /\ request'[r].held = None
         /\ request'[r].setState = state /\ request'[r].browser = request[r].browser
         /\ \A q \in Request : q # r => request'[q] = request[q]
<1>1. request[r] \in Message
  BY MessageTyped
<1>2. [request[r] EXCEPT !.pc = "answer", !.setState = state, !.setSession = session,
                         !.flow = None, !.code = None, !.held = None] \in Message
  BY <1>1 DEF Message
<1> QED
  BY <1>1, <1>2 DEF Answer, TypeOK, Message

LEMMA RefuseDoes ==
  ASSUME TypeOK, NEW r \in Request, request[r].pc \in Working, Refuse(r)
  PROVE  /\ request' \in [Request -> Message \cup {Idle}]
         /\ request'[r].pc = "answer" /\ request'[r].held = None
         /\ request'[r].setState \in {None, Keep} /\ request'[r].browser = request[r].browser
         /\ \A q \in Request : q # r => request'[q] = request[q]
<1>1. PICK state \in {None, Keep} : Answer(r, state, Keep)
  BY DEF Refuse
<1> QED
  BY <1>1, AnswerDoes

-----------------------------------------------------------------------------
(* Logins and sessions *)

\* b began login f.
Own(f, b) == f \in 1..Len(begun) /\ begun[f] = b

\* The request has used up its login and may still create a session.
Using(m) == m.pc \in {"exchange", "rotate", "insert"}

\* What request m holds of a login came from its browser's own.
Carries(m) ==
    /\ m.held # None => Own(m.held, m.browser)
    /\ m.setState \notin {None, Keep} => Own(m.setState, m.browser)

Bound ==
    /\ \A b \in Browser : stateCookie[b] # None => Own(stateCookie[b], b)
    /\ \A r \in Request : request[r] # Idle => Carries(request[r])

From(f) == \E s \in 1..Len(origin) : origin[s].flow = f

Once ==
    /\ flows \subseteq 1..Len(begun)
    /\ \A f \in flows : ~From(f)
    /\ \A r \in Request : Using(request[r]) =>
          /\ Own(request[r].flow, request[r].browser)
          /\ request[r].flow \notin flows /\ ~From(request[r].flow)
          /\ request[r].pc # "exchange" => request[r].code = request[r].flow
          /\ \A q \in Request : Using(request[q]) /\ request[q].flow = request[r].flow => q = r

Earned ==
    /\ \A s \in 1..Len(origin) : Own(origin[s].flow, origin[s].browser)
    /\ SessionsAreEarned

IInv == TypeOK /\ ChannelsOpen /\ Bound /\ Once /\ Earned

LEMMA InitInv == Init => IInv
<1> SUFFICES ASSUME Init PROVE IInv
  OBVIOUS
<1>1. begun = << >> /\ origin = << >> /\ Len(begun) = 0 /\ Len(origin) = 0
  BY DEF Init
<1>2. HubTypeOK /\ ChannelsOpen
  BY HubInitInv DEF Init, HubInv
<1>3. TypeOK
  BY <1>1, <1>2, BoundAssumption DEF Init, TypeOK, None
<1>4. Bound /\ Once
  BY <1>1 DEF Init, Bound, Once, Using, Idle
<1>5. Earned
  BY <1>1 DEF Earned, SessionsAreEarned
<1> QED
  BY <1>2, <1>3, <1>4, <1>5 DEF IInv

\* The logins grow at the end only.
LEMMA OwnKept ==
  ASSUME TypeOK, NEW b \in Browser, begun' = begun \/ begun' = Append(begun, b)
  PROVE  /\ Len(begun) <= Len(begun')
         /\ \A f \in 1..Len(begun) : f \in 1..Len(begun') /\ begun'[f] = begun[f]
  BY DEF TypeOK

\* Every step of a request but those that use up a login or create a session.
LEMMA Ordinary ==
  ASSUME IInv, TypeOK', ChannelsOpen', NEW r \in Request, NEW b \in Browser,
         \/ begun' = begun /\ flows' \subseteq flows
         \/ begun' = Append(begun, b) /\ flows' \subseteq flows \cup {Len(begun) + 1},
         UNCHANGED origin,
         \A s \in SessionId : sessions'[s] \in {sessions[s], NoAccount},
         \A f \in Flow : consent'[f] = consent[f] \/ consent[f] = NoAccount,
         \A q \in Request : q # r => request'[q] = request[q],
         ~Using(request'[r]), request'[r] # Idle => Carries(request[r])',
         \A c \in Browser : stateCookie'[c] \in {None, stateCookie[c]} \/ Own(stateCookie[c], c)'
  PROVE  IInv'
<1>1. /\ Len(begun) \in Nat /\ Len(begun) <= Len(begun') /\ Len(begun') \in Nat /\ Len(begun') <= MaxFlow
      /\ \A f \in 1..Len(begun) : f \in 1..Len(begun') /\ begun'[f] = begun[f]
  BY OwnKept DEF IInv, TypeOK
<1>2. \A f, c : Own(f, c) => Own(f, c)'
  BY <1>1 DEF Own
<1>3. \A m : Carries(m) => (m.held # None => Own(m.held, m.browser)')
                           /\ (m.setState \notin {None, Keep} => Own(m.setState, m.browser)')
  BY <1>2 DEF Carries
<1>4. Bound'
  <2>1. ASSUME NEW c \in Browser, stateCookie'[c] # None PROVE Own(stateCookie[c], c)'
    BY <2>1, <1>2 DEF IInv, Bound
  <2>2. ASSUME NEW q \in Request, request'[q] # Idle PROVE Carries(request[q])'
    BY <2>2, <1>3 DEF IInv, Bound, Carries
  <2> QED
    BY <2>1, <2>2 DEF Bound
<1>5. \A f : From(f)' <=> From(f)
  BY DEF From
<1>6. flows' \subseteq 1..Len(begun')
  BY <1>1 DEF IInv, TypeOK, Once
<1>7. ~From(Len(begun) + 1) /\ \A s \in 1..Len(origin) : origin[s].flow \in 1..Len(begun)
  BY <1>1 DEF IInv, Earned, From, Own
<1>8. \A f \in flows' : ~From(f)'
  BY <1>5, <1>7 DEF IInv, Once
<1>9. ASSUME NEW q \in Request, Using(request'[q])
      PROVE  /\ Own(request[q].flow, request[q].browser)'
             /\ request'[q].flow \notin flows' /\ ~From(request[q].flow)'
             /\ request'[q].pc # "exchange" => request'[q].code = request'[q].flow
             /\ \A p \in Request : Using(request'[p]) /\ request'[p].flow = request'[q].flow => p = q
  <2>1. q # r /\ request'[q] = request[q] /\ Using(request[q])
    BY <1>9
  <2>2. Own(request[q].flow, request[q].browser) /\ request[q].flow \in 1..Len(begun)
        /\ request[q].flow \notin flows /\ ~From(request[q].flow)
        /\ (request[q].pc # "exchange" => request[q].code = request[q].flow)
    BY <2>1 DEF IInv, Once, Own
  <2>3. \A p \in Request : Using(request'[p]) => request'[p] = request[p]
    OBVIOUS
  <2>4. request'[q].flow \notin flows'
    BY <1>1, <2>1, <2>2
  <2> QED
    BY <1>2, <1>5, <2>1, <2>2, <2>3, <2>4 DEF IInv, Once
<1>10. Once'
  BY <1>6, <1>8, <1>9 DEF Once, Using
<1>11. Earned'
  <2>1. ASSUME NEW s \in 1..Len(origin)
        PROVE  /\ Own(origin[s].flow, origin[s].browser) /\ origin[s].flow \in Flow /\ s \in SessionId
               /\ sessions[s] \in {NoAccount, consent[origin[s].flow]}
               /\ \A t \in 1..Len(origin) : origin[s].flow = origin[t].flow => s = t
    BY BoundAssumption DEF IInv, TypeOK, Earned, SessionsAreEarned, Own, Flow, SessionId
  <2> QED
    BY <1>2, <2>1 DEF Earned, SessionsAreEarned, Own
<1> QED
  BY <1>4, <1>10, <1>11 DEF IInv

-----------------------------------------------------------------------------
(* One lemma for each action *)

LEMMA OpenKept ==
  ASSUME IInv, UNCHANGED hubVars
  PROVE  HubTypeOK' /\ ChannelsOpen'
  BY HubSame DEF IInv, TypeOK, HubInv

\* A statement that works or fails is counted within its bound.
LEMMA FailuresTyped ==
  ASSUME TypeOK, Works \/ Fails
  PROVE  failures' \in 0..MaxFailure
  BY BoundAssumption DEF TypeOK, Works, Fails

LEMMA SendInv ==
  ASSUME IInv, NEW r \in Request, NEW b \in Browser,
         NEW kind \in {"login", "callback", "logout", "api"},
         NEW f \in Flow \cup {None}, NEW g \in Flow \cup {None},
         Send(r, b, kind, f, g), consent' \in [Flow -> Account \cup {NoAccount}],
         \A h \in Flow : consent'[h] = consent[h] \/ consent[h] = NoAccount
  PROVE  IInv'
<1> DEFINE m == [pc |-> kind, kind |-> kind, browser |-> b, flow |-> f, code |-> g,
                 held |-> stateCookie[b], cookie |-> sessionCookie[b],
                 setState |-> Keep, setSession |-> Keep]
<1>1. m \in Message
  BY DEF IInv, TypeOK, Message
<1>2. /\ request' \in [Request -> Message \cup {Idle}] /\ request'[r] = m
      /\ \A q \in Request : q # r => request'[q] = request[q]
  BY <1>1 DEF Send, IInv, TypeOK
<1>3. HubTypeOK' /\ ChannelsOpen'
  BY OpenKept DEF Send
<1>4. TypeOK'
  BY <1>2, <1>3 DEF Send, tables, cookies, IInv, TypeOK
<1>5. ~Using(request'[r]) /\ Carries(request[r])'
  <2>1. request'[r].held # None => Own(request'[r].held, request'[r].browser)
    BY <1>2 DEF IInv, Bound
  <2>2. request'[r].setState = Keep
    BY <1>2
  <2>3. ~Using(request'[r])
    BY <1>2 DEF Using
  <2> QED
    BY <2>1, <2>2, <2>3 DEF Carries, Own, Send
<1> QED
  BY <1>2, <1>3, <1>4, <1>5, Ordinary DEF Send, tables, cookies, IInv, TypeOK

LEMMA AskInv ==
  ASSUME IInv, NEW r \in Request, NEW b \in Browser, Ask(r, b)
  PROVE  IInv'
<1>1. PICK kind \in {"login", "logout", "api"} : Send(r, b, kind, None, None) /\ UNCHANGED consent
  BY DEF Ask
<1> QED
  BY <1>1, SendInv DEF IInv, TypeOK

LEMMA ReturnInv ==
  ASSUME IInv, NEW r \in Request, NEW b \in Browser, NEW f \in Flow, NEW g \in Flow \cup {None},
         Return(r, b, f, g)
  PROVE  IInv'
<1>1. Send(r, b, "callback", f, g)
  BY DEF Return
<1>2. consent' \in [Flow -> Account \cup {NoAccount}]
      /\ \A h \in Flow : consent'[h] = consent[h] \/ consent[h] = NoAccount
  <2>1. CASE g = None
    BY <2>1 DEF Return, IInv, TypeOK
  <2>2. CASE g # None
    <3>1. PICK a \in Account : consent[g] \in {NoAccount, a} /\ consent' = [consent EXCEPT ![g] = a]
      BY <2>2 DEF Return
    <3> QED
      BY <2>2, <3>1 DEF IInv, TypeOK
  <2> QED
    BY <2>1, <2>2
<1> QED
  BY <1>1, <1>2, SendInv

LEMMA HandleLoginInv ==
  ASSUME IInv, NEW r \in Request, HandleLogin(r)
  PROVE  IInv'
<1>0. request[r].pc = "login" /\ request[r].pc \in Working /\ "begin" \in Working /\ TypeOK
  BY DEF HandleLogin, Working, IInv
<1>1. /\ request' \in [Request -> Message \cup {Idle}] /\ request'[r] = [request[r] EXCEPT !.pc = "begin"]
      /\ \A q \in Request : q # r => request'[q] = request[q]
  BY <1>0, GotoDoes DEF HandleLogin
<1>2. request[r] \in Message /\ request[r].browser \in Browser /\ Carries(request[r])
  BY <1>0, MessageTyped DEF IInv, Bound, Idle, Message
<1>3. failures' \in 0..MaxFailure /\ HubTypeOK' /\ ChannelsOpen'
  BY <1>0, FailuresTyped, OpenKept DEF HandleLogin
<1>4. /\ UNCHANGED <<begun, expired, consent, stateCookie, sessionCookie, holder, origin>>
      /\ sessions' \in [SessionId -> Account \cup {NoAccount}]
      /\ \A s \in SessionId : sessions'[s] \in {sessions[s], NoAccount}
  BY <1>0 DEF HandleLogin, cookies, TypeOK
<1>5. flows' \subseteq flows /\ late' \subseteq flows'
  BY <1>0 DEF HandleLogin, TypeOK
<1>6. TypeOK'
  BY <1>0, <1>1, <1>3, <1>4, <1>5 DEF TypeOK
<1>7. ~Using(request'[r]) /\ Carries(request[r])'
  BY <1>1, <1>2, <1>4 DEF Using, Carries, Message, Own
<1> QED
  BY <1>1, <1>2, <1>3, <1>4, <1>5, <1>6, <1>7, Ordinary

LEMMA BeginInv ==
  ASSUME IInv, NEW r \in Request, Begin(r)
  PROVE  IInv'
<1> DEFINE f == Len(begun) + 1
           b == request[r].browser
<1>0. request[r].pc = "begin" /\ request[r].pc \in Working /\ TypeOK
  BY DEF Begin, Working, IInv
<1>1. request[r] \in Message /\ b \in Browser /\ Len(begun) \in Nat
  BY <1>0, MessageTyped DEF Message, TypeOK
<1>2. failures' \in 0..MaxFailure
  BY <1>0, FailuresTyped DEF Begin
<1>3. HubTypeOK' /\ ChannelsOpen'
  BY OpenKept DEF Begin
<1>4. /\ UNCHANGED <<expired, consent, stateCookie, sessionCookie, holder, origin>>
      /\ sessions' \in [SessionId -> Account \cup {NoAccount}]
      /\ \A s \in SessionId : sessions'[s] \in {sessions[s], NoAccount}
  BY <1>0 DEF Begin, cookies, TypeOK
<1>5. CASE begun' = begun /\ flows' = flows /\ late' = late /\ Answer(r, Keep, Keep)
  <2>1. /\ request' \in [Request -> Message \cup {Idle}] /\ request'[r].pc = "answer"
        /\ request'[r].held = None /\ request'[r].setState = Keep
        /\ \A q \in Request : q # r => request'[q] = request[q]
    BY <1>0, <1>5, AnswerDoes
  <2>2. TypeOK'
    BY <1>0, <1>2, <1>3, <1>4, <1>5, <2>1 DEF TypeOK
  <2>3. ~Using(request'[r]) /\ Carries(request[r])'
    BY <2>1 DEF Using, Carries
  <2> QED
    BY <1>1, <1>3, <1>4, <1>5, <2>1, <2>2, <2>3, Ordinary
<1>6. CASE /\ f <= MaxFlow /\ Answer(r, f, Keep) /\ begun' = Append(begun, b)
           /\ flows' = flows \cup {f} /\ late' = late
  <2>1. f \in Flow
    BY <1>1, <1>6 DEF Flow
  <2>2. /\ request' \in [Request -> Message \cup {Idle}] /\ request'[r].pc = "answer"
        /\ request'[r].held = None /\ request'[r].setState = f /\ request'[r].browser = b
        /\ \A q \in Request : q # r => request'[q] = request[q]
    BY <1>0, <1>6, <2>1, AnswerDoes
  <2>3. begun' \in Seq(Browser) /\ Len(begun') = f /\ begun'[f] = b /\ f \in 1..f
    BY <1>0, <1>1, <1>6 DEF TypeOK
  <2>4. TypeOK'
    BY <1>0, <1>2, <1>3, <1>4, <1>6, <2>1, <2>2, <2>3 DEF TypeOK
  <2>5. ~Using(request'[r]) /\ Carries(request[r])'
    BY <2>2, <2>3 DEF Using, Carries, Own
  <2> QED
    BY <1>1, <1>3, <1>4, <1>6, <2>2, <2>4, <2>5, Ordinary
<1> QED
  BY <1>0, <1>5, <1>6 DEF Begin, TypeOK

\* A request goes on with the login it has used up.
LEMMA Advance ==
  ASSUME IInv, TypeOK', ChannelsOpen', NEW r \in Request,
         UNCHANGED <<begun, origin, stateCookie, consent>>, flows' \subseteq flows,
         \A s \in SessionId : sessions'[s] \in {sessions[s], NoAccount},
         \A q \in Request : q # r => request'[q] = request[q],
         NEW pc \in {"exchange", "rotate", "insert"},
         request[r] \in Message, request'[r] = [request[r] EXCEPT !.pc = pc],
         Own(request[r].flow, request[r].browser),
         request[r].flow \notin flows', ~From(request[r].flow),
         pc # "exchange" => request[r].code = request[r].flow,
         \A q \in Request : q # r /\ Using(request[q]) => request[q].flow # request[r].flow
  PROVE  IInv'
<1>1. /\ request'[r].pc = pc /\ request'[r].flow = request[r].flow /\ request'[r].code = request[r].code
      /\ request'[r].browser = request[r].browser /\ request'[r].held = request[r].held
      /\ request'[r].setState = request[r].setState
  BY DEF Message
<1>2. Using(request'[r]) /\ request[r] # Idle
  BY <1>1 DEF Using, Message, Idle
<1>3. \A f, c : Own(f, c)' <=> Own(f, c)
  BY DEF Own
<1>4. \A f : From(f)' <=> From(f)
  BY DEF From
<1>5. Bound'
  <2>1. ASSUME NEW q \in Request, request'[q] # Idle PROVE Carries(request[q])'
    <3>1. CASE q = r
      BY <3>1, <1>1, <1>2, <1>3 DEF IInv, Bound, Carries
    <3>2. CASE q # r
      BY <3>2, <2>1, <1>3 DEF IInv, Bound, Carries
    <3> QED
      BY <3>1, <3>2
  <2> QED
    BY <2>1, <1>3 DEF IInv, Bound
<1>6. Once'
  <2>1. ASSUME NEW q \in Request, Using(request'[q])
        PROVE  /\ Own(request[q].flow, request[q].browser)'
               /\ request'[q].flow \notin flows' /\ ~From(request[q].flow)'
               /\ request'[q].pc # "exchange" => request'[q].code = request'[q].flow
               /\ \A p \in Request : Using(request'[p]) /\ request'[p].flow = request'[q].flow => p = q
    <3>1. CASE q = r
      BY <3>1, <1>1, <1>3, <1>4 DEF Using
    <3>2. CASE q # r
      <4>1. request'[q] = request[q] /\ Using(request[q]) /\ request[q].flow # request[r].flow
        BY <3>2, <2>1
      <4>2. \A p \in Request : p # r => request'[p] = request[p]
        OBVIOUS
      <4> QED
        BY <4>1, <4>2, <1>1, <1>3, <1>4 DEF IInv, Once
    <3> QED
      BY <3>1, <3>2
  <2>2. flows' \subseteq 1..Len(begun') /\ \A f \in flows' : ~From(f)'
    BY <1>4 DEF IInv, Once
  <2> QED
    BY <2>1, <2>2 DEF Once, Using
<1>7. Earned'
  <2>1. ASSUME NEW s \in 1..Len(origin)
        PROVE  Own(origin[s].flow, origin[s].browser) /\ s \in SessionId
               /\ sessions[s] \in {NoAccount, consent[origin[s].flow]}
    BY BoundAssumption DEF IInv, TypeOK, Earned, SessionsAreEarned, SessionId
  <2> QED
    BY <1>3, <2>1 DEF IInv, Earned, SessionsAreEarned
<1> QED
  BY <1>5, <1>6, <1>7 DEF IInv

LEMMA HandleCallbackInv ==
  ASSUME IInv, NEW r \in Request, HandleCallback(r)
  PROVE  IInv'
<1>0. request[r].pc = "callback" /\ request[r].pc \in Working /\ TypeOK
  BY DEF HandleCallback, Working, IInv
<1>1. request[r] \in Message /\ request[r].browser \in Browser /\ request[r] # Idle
  BY <1>0, MessageTyped DEF Message, Idle
<1>2. failures' \in 0..MaxFailure
  BY <1>0, FailuresTyped DEF HandleCallback
<1>3. HubTypeOK' /\ ChannelsOpen'
  BY OpenKept DEF HandleCallback
<1>4. /\ UNCHANGED <<sessions, late, expired, begun, consent, stateCookie, sessionCookie, holder, origin>>
      /\ flows' \subseteq flows
  BY DEF HandleCallback, outside, cookies
<1>5. late' \subseteq flows'
  BY <1>0, <1>4 DEF HandleCallback, Consumes, TypeOK
<1>6. CASE Answer(r, None, Keep) \/ Refuse(r)
  <2>1. /\ request' \in [Request -> Message \cup {Idle}] /\ request'[r].pc = "answer"
        /\ request'[r].held = None /\ request'[r].setState \in {None, Keep}
        /\ \A q \in Request : q # r => request'[q] = request[q]
    BY <1>0, <1>6, AnswerDoes, RefuseDoes
  <2>2. TypeOK'
    BY <1>0, <1>2, <1>3, <1>4, <1>5, <2>1 DEF TypeOK
  <2>3. ~Using(request'[r]) /\ Carries(request[r])'
    BY <2>1 DEF Using, Carries
  <2> QED
    BY <1>1, <1>3, <1>4, <2>1, <2>2, <2>3, Ordinary
<1>7. CASE Consumes(r) /\ flows' = flows \ {request[r].flow} /\ Goto(r, "exchange")
  <2>1. "exchange" \in Working
    BY DEF Working
  <2>2. /\ request' \in [Request -> Message \cup {Idle}]
        /\ request'[r] = [request[r] EXCEPT !.pc = "exchange"]
        /\ \A q \in Request : q # r => request'[q] = request[q]
    BY <1>0, <1>7, <2>1, GotoDoes
  <2>3. TypeOK'
    BY <1>0, <1>2, <1>3, <1>4, <1>5, <2>2 DEF TypeOK
  <2>4. request[r].flow \in flows /\ request[r].held = request[r].flow /\ request[r].flow # None
    BY <1>7 DEF Consumes, IInv, Once, None
  <2>5. Own(request[r].flow, request[r].browser) /\ ~From(request[r].flow)
        /\ \A q \in Request : Using(request[q]) => request[q].flow # request[r].flow
    BY <1>1, <2>4 DEF IInv, Bound, Carries, Once
  <2> QED
    BY <1>1, <1>3, <1>4, <1>7, <2>2, <2>3, <2>5, Advance
<1> QED
  BY <1>6, <1>7 DEF HandleCallback

LEMMA ExchangeInv ==
  ASSUME IInv, NEW r \in Request, Exchange(r)
  PROVE  IInv'
<1>0. request[r].pc = "exchange" /\ request[r].pc \in Working /\ TypeOK /\ Using(request[r])
  BY DEF Exchange, Working, IInv, Using
<1>1. request[r] \in Message /\ request[r].browser \in Browser
  BY <1>0, MessageTyped DEF Message
<1>3. HubTypeOK' /\ ChannelsOpen'
  BY OpenKept DEF Exchange
<1>4. UNCHANGED <<sessions, flows, late, expired, begun, consent, stateCookie, sessionCookie, holder, origin, failures>>
  BY DEF Exchange, tables, outside, cookies
<1>5. CASE Refuse(r)
  <2>1. /\ request' \in [Request -> Message \cup {Idle}] /\ request'[r].pc = "answer"
        /\ request'[r].held = None /\ request'[r].setState \in {None, Keep}
        /\ \A q \in Request : q # r => request'[q] = request[q]
    BY <1>0, <1>5, RefuseDoes
  <2>2. TypeOK'
    BY <1>0, <1>3, <1>4, <2>1 DEF TypeOK
  <2>3. ~Using(request'[r]) /\ Carries(request[r])'
    BY <2>1 DEF Using, Carries
  <2> QED
    BY <1>1, <1>3, <1>4, <2>1, <2>2, <2>3, Ordinary
<1>6. CASE Verified(r) /\ Goto(r, "rotate")
  <2>1. "rotate" \in Working
    BY DEF Working
  <2>2. /\ request' \in [Request -> Message \cup {Idle}]
        /\ request'[r] = [request[r] EXCEPT !.pc = "rotate"]
        /\ \A q \in Request : q # r => request'[q] = request[q]
    BY <1>0, <1>6, <2>1, GotoDoes
  <2>3. TypeOK'
    BY <1>0, <1>3, <1>4, <2>2 DEF TypeOK
  <2>5. Own(request[r].flow, request[r].browser) /\ ~From(request[r].flow) /\ request[r].flow \notin flows
        /\ \A q \in Request : q # r /\ Using(request[q]) => request[q].flow # request[r].flow
    BY <1>0 DEF IInv, Once
  <2> QED
    BY <1>1, <1>3, <1>4, <1>6, <2>2, <2>3, <2>5, Advance DEF Verified
<1> QED
  BY <1>5, <1>6 DEF Exchange

LEMMA RevokeDoes ==
  ASSUME TypeOK, NEW r \in Request, Revoke(r)
  PROVE  /\ sessions' \in [SessionId -> Account \cup {NoAccount}] /\ failures' \in 0..MaxFailure
         /\ \A s \in SessionId : sessions'[s] \in {sessions[s], NoAccount}
  BY FailuresTyped DEF Revoke, Revoked, TypeOK

LEMMA RotateInv ==
  ASSUME IInv, NEW r \in Request, Rotate(r)
  PROVE  IInv'
<1>0. request[r].pc = "rotate" /\ request[r].pc \in Working /\ TypeOK /\ Using(request[r])
  BY DEF Rotate, Working, IInv, Using
<1>1. request[r] \in Message /\ request[r].browser \in Browser
  BY <1>0, MessageTyped DEF Message
<1>2. /\ sessions' \in [SessionId -> Account \cup {NoAccount}] /\ failures' \in 0..MaxFailure
      /\ \A s \in SessionId : sessions'[s] \in {sessions[s], NoAccount}
  BY <1>0, RevokeDoes DEF Rotate
<1>3. HubTypeOK' /\ ChannelsOpen'
  BY OpenKept DEF Rotate
<1>4. UNCHANGED <<flows, late, expired, begun, consent, stateCookie, sessionCookie, holder, origin>>
  BY DEF Rotate, outside, cookies
<1>5. Goto(r, "insert") /\ "insert" \in Working
  BY DEF Rotate, Working
<1>6. /\ request' \in [Request -> Message \cup {Idle}]
      /\ request'[r] = [request[r] EXCEPT !.pc = "insert"]
      /\ \A q \in Request : q # r => request'[q] = request[q]
  BY <1>0, <1>5, GotoDoes
<1>7. TypeOK'
  BY <1>0, <1>2, <1>3, <1>4, <1>6 DEF TypeOK
<1>8. Own(request[r].flow, request[r].browser) /\ ~From(request[r].flow) /\ request[r].flow \notin flows
      /\ request[r].code = request[r].flow
      /\ \A q \in Request : q # r /\ Using(request[q]) => request[q].flow # request[r].flow
  BY <1>0 DEF IInv, Once
<1> QED
  BY <1>1, <1>2, <1>3, <1>4, <1>6, <1>7, <1>8, Advance

\* The only step that makes a session.
LEMMA InsertInv ==
  ASSUME IInv, NEW r \in Request, Insert(r)
  PROVE  IInv'
<1> DEFINE s == Len(origin) + 1
           f == request[r].flow
<1>0. request[r].pc = "insert" /\ request[r].pc \in Working /\ TypeOK /\ Using(request[r])
  BY DEF Insert, Working, IInv, Using
<1>1. request[r] \in Message /\ request[r].browser \in Browser /\ Len(origin) \in Nat
  BY <1>0, MessageTyped DEF Message, TypeOK
<1>3. HubTypeOK' /\ ChannelsOpen'
  BY OpenKept DEF Insert
<1>4. UNCHANGED <<flows, late, expired, begun, consent, stateCookie, sessionCookie, holder>>
      /\ failures' \in 0..MaxFailure
  BY <1>0, FailuresTyped DEF Insert, outside, cookies
<1>5. CASE Refuse(r) /\ UNCHANGED <<sessions, origin>>
  <2>1. /\ request' \in [Request -> Message \cup {Idle}] /\ request'[r].pc = "answer"
        /\ request'[r].held = None /\ request'[r].setState \in {None, Keep}
        /\ \A q \in Request : q # r => request'[q] = request[q]
    BY <1>0, <1>5, RefuseDoes
  <2>2. TypeOK'
    BY <1>0, <1>3, <1>4, <1>5, <2>1 DEF TypeOK
  <2>3. ~Using(request'[r]) /\ Carries(request[r])'
    BY <2>1 DEF Using, Carries
  <2> QED
    BY <1>1, <1>3, <1>4, <1>5, <2>1, <2>2, <2>3, Ordinary
<1>6. CASE /\ s <= MaxSession /\ sessions' = [sessions EXCEPT ![s] = consent[request[r].code]]
           /\ origin' = Append(origin, [flow |-> f, browser |-> request[r].browser])
           /\ Answer(r, None, s)
  <2>1. s \in SessionId
    BY <1>1, <1>6 DEF SessionId
  <2>2. /\ request' \in [Request -> Message \cup {Idle}] /\ request'[r].pc = "answer"
        /\ request'[r].held = None /\ request'[r].setState = None
        /\ \A q \in Request : q # r => request'[q] = request[q]
    BY <1>0, <1>6, <2>1, AnswerDoes
  <2>3. /\ Own(f, request[r].browser) /\ ~From(f) /\ f \notin flows /\ request[r].code = f
        /\ \A q \in Request : q # r /\ Using(request[q]) => request[q].flow # f
    BY <1>0 DEF IInv, Once
  <2>4. f \in Flow /\ consent[f] \in Account \cup {NoAccount}
    BY <1>0, <2>3, BoundAssumption DEF Own, Flow, TypeOK
  <2>5. /\ Len(origin') = s /\ origin'[s] = [flow |-> f, browser |-> request[r].browser]
        /\ \A t \in 1..Len(origin) : origin'[t] = origin[t]
        /\ origin' \in Seq([flow: Flow, browser: Browser])
        /\ 1..s = 1..Len(origin) \cup {s}
    BY <1>0, <1>1, <1>6, <2>4 DEF TypeOK
  <2>6. sessions' \in [SessionId -> Account \cup {NoAccount}]
    BY <1>0, <1>6, <2>3, <2>4 DEF TypeOK
  <2>7. TypeOK'
    BY <1>0, <1>3, <1>4, <1>6, <2>2, <2>5, <2>6 DEF TypeOK
  <2>8. \A g, c : Own(g, c)' <=> Own(g, c)
    BY <1>4 DEF Own
  <2>9. \A g : From(g)' <=> From(g) \/ g = f
    BY <2>5, <1>1 DEF From
  <2>10. Bound'
    <3>1. ASSUME NEW q \in Request, request'[q] # Idle PROVE Carries(request[q])'
      BY <3>1, <2>2, <2>8 DEF IInv, Bound, Carries
    <3> QED
      BY <3>1, <2>8, <1>4 DEF IInv, Bound
  <2>11. Once'
    <3>1. ASSUME NEW q \in Request, Using(request'[q])
          PROVE  /\ Own(request[q].flow, request[q].browser)'
                 /\ request'[q].flow \notin flows' /\ ~From(request[q].flow)'
                 /\ request'[q].pc # "exchange" => request'[q].code = request'[q].flow
                 /\ \A p \in Request : Using(request'[p]) /\ request'[p].flow = request'[q].flow => p = q
      <4>1. ~Using(request'[r])
        BY <2>2 DEF Using
      <4>2. \A p \in Request : Using(request'[p]) => p # r /\ request'[p] = request[p]
        BY <4>1, <2>2
      <4> QED
        BY <3>1, <4>2, <1>4, <2>3, <2>8, <2>9 DEF IInv, Once
    <3>2. flows' \subseteq 1..Len(begun') /\ \A g \in flows' : ~From(g)'
      BY <1>4, <2>3, <2>9 DEF IInv, Once
    <3> QED
      BY <3>1, <3>2 DEF Once, Using
  <2>12. Earned'
    <3>1. ASSUME NEW t \in 1..Len(origin)
          PROVE  /\ Own(origin[t].flow, origin[t].browser) /\ t # s /\ t \in SessionId
                 /\ sessions[t] \in {NoAccount, consent[origin[t].flow]} /\ origin[t].flow # f
                 /\ \A u \in 1..Len(origin) : origin[t].flow = origin[u].flow => t = u
      BY <1>1, <2>3, BoundAssumption DEF IInv, TypeOK, Earned, SessionsAreEarned, SessionId, From
    <3>2. sessions'[s] = consent[f] /\ \A t \in SessionId : t # s => sessions'[t] = sessions[t]
      BY <1>0, <1>6, <2>1, <2>3 DEF TypeOK
    <3>3. \A t \in 1..s : Own(origin'[t].flow, origin'[t].browser)
      BY <2>3, <2>5, <3>1
    <3>4. ASSUME NEW t \in 1..s
          PROVE  sessions'[t] \in {NoAccount, consent[origin'[t].flow]}
      BY <2>5, <3>1, <3>2
    <3>5. ASSUME NEW t \in 1..s, NEW u \in 1..s, origin'[t].flow = origin'[u].flow
          PROVE  t = u
      BY <2>5, <3>1, <3>5
    <3> QED
      BY <1>4, <2>5, <2>8, <3>3, <3>4, <3>5 DEF Earned, SessionsAreEarned, Own
  <2> QED
    BY <1>3, <2>7, <2>10, <2>11, <2>12 DEF IInv
<1> QED
  BY <1>5, <1>6 DEF Insert

LEMMA HandleLogoutInv ==
  ASSUME IInv, NEW r \in Request, HandleLogout(r)
  PROVE  IInv'
<1>0. request[r].pc = "logout" /\ request[r].pc \in Working /\ TypeOK
  BY DEF HandleLogout, Working, IInv
<1>1. request[r] \in Message /\ request[r].browser \in Browser
  BY <1>0, MessageTyped DEF Message
<1>2. /\ sessions' \in [SessionId -> Account \cup {NoAccount}] /\ failures' \in 0..MaxFailure
      /\ \A s \in SessionId : sessions'[s] \in {sessions[s], NoAccount}
  BY <1>0, RevokeDoes DEF HandleLogout
<1>3. HubTypeOK' /\ ChannelsOpen'
  BY OpenKept DEF HandleLogout
<1>4. UNCHANGED <<flows, late, expired, begun, consent, stateCookie, sessionCookie, holder, origin>>
  BY DEF HandleLogout, outside, cookies
<1>5. /\ request' \in [Request -> Message \cup {Idle}] /\ request'[r].pc = "answer"
      /\ request'[r].held = None /\ request'[r].setState = Keep
      /\ \A q \in Request : q # r => request'[q] = request[q]
  BY <1>0, AnswerDoes DEF HandleLogout
<1>6. TypeOK'
  BY <1>0, <1>2, <1>3, <1>4, <1>5 DEF TypeOK
<1>7. ~Using(request'[r]) /\ Carries(request[r])'
  BY <1>5 DEF Using, Carries
<1> QED
  BY <1>1, <1>2, <1>3, <1>4, <1>5, <1>6, <1>7, Ordinary

LEMMA ProtectInv ==
  ASSUME IInv, NEW r \in Request, Protect(r)
  PROVE  IInv'
<1>0. request[r].pc = "api" /\ request[r].pc \in Working /\ TypeOK
  BY DEF Protect, Working, IInv
<1>1. request[r] \in Message /\ request[r].browser \in Browser
  BY <1>0, MessageTyped DEF Message
<1>2. failures' \in 0..MaxFailure
  BY <1>0, FailuresTyped DEF Protect
<1>3. HubTypeOK' /\ ChannelsOpen'
  BY OpenKept DEF Protect
<1>4. UNCHANGED <<sessions, flows, late, expired, begun, consent, stateCookie, sessionCookie, holder, origin>>
  BY DEF Protect, tables, outside, cookies
<1>5. CASE Goto(r, "upgrade")
  <2>1. "upgrade" \in Working /\ request[r] # Idle
    BY <1>1 DEF Working, Message, Idle
  <2>2. /\ request' \in [Request -> Message \cup {Idle}]
        /\ request'[r] = [request[r] EXCEPT !.pc = "upgrade"]
        /\ \A q \in Request : q # r => request'[q] = request[q]
    BY <1>0, <1>5, <2>1, GotoDoes
  <2>3. TypeOK'
    BY <1>0, <1>2, <1>3, <1>4, <2>2 DEF TypeOK
  <2>4. /\ request'[r].pc = "upgrade" /\ request'[r].held = request[r].held
        /\ request'[r].browser = request[r].browser /\ request'[r].setState = request[r].setState
    BY <1>1, <2>2 DEF Message
  <2>5. Carries(request[r])
    BY <2>1 DEF IInv, Bound
  <2>6. ~Using(request'[r]) /\ Carries(request[r])'
    BY <1>4, <2>4, <2>5 DEF Using, Carries, Own
  <2> QED
    BY <1>1, <1>3, <1>4, <2>2, <2>3, <2>6, Ordinary
<1>6. CASE \E set \in {None, Keep} : Answer(r, Keep, set)
  <2>1. PICK set \in {None, Keep} : Answer(r, Keep, set)
    BY <1>6
  <2>2. /\ request' \in [Request -> Message \cup {Idle}] /\ request'[r].pc = "answer"
        /\ request'[r].held = None /\ request'[r].setState = Keep
        /\ \A q \in Request : q # r => request'[q] = request[q]
    BY <1>0, <2>1, AnswerDoes
  <2>3. TypeOK'
    BY <1>0, <1>2, <1>3, <1>4, <2>2 DEF TypeOK
  <2>4. ~Using(request'[r]) /\ Carries(request[r])'
    BY <2>2 DEF Using, Carries
  <2> QED
    BY <1>1, <1>3, <1>4, <2>2, <2>3, <2>4, Ordinary
<1> QED
  BY <1>5, <1>6 DEF Protect

LEMMA OpenSocketInv ==
  ASSUME IInv, NEW r \in Request, NEW k \in Socket, OpenSocket(r, k)
  PROVE  IInv'
<1>0. request[r].pc = "upgrade" /\ request[r].pc \in Working /\ TypeOK
  BY DEF OpenSocket, Working, IInv
<1>1. request[r] \in Message /\ request[r].browser \in Browser /\ request[r].cookie \in SessionId \cup {None}
  BY <1>0, MessageTyped DEF Message
<1>2. HubTypeOK' /\ ChannelsOpen'
  BY UpgradeInv DEF OpenSocket, IInv, TypeOK, HubInv
<1>3. UNCHANGED <<sessions, flows, late, expired, begun, consent, stateCookie, sessionCookie, origin, failures>>
  BY DEF OpenSocket, tables, outside, cookies
<1>4. /\ request' \in [Request -> Message \cup {Idle}] /\ request'[r] = Idle
      /\ \A q \in Request : q # r => request'[q] = request[q]
  BY <1>0 DEF OpenSocket, TypeOK
<1>5. TypeOK'
  BY <1>0, <1>1, <1>2, <1>3, <1>4 DEF TypeOK, OpenSocket
<1>6. ~Using(request'[r])
  BY <1>4 DEF Using, Idle
<1> QED
  BY <1>1, <1>2, <1>3, <1>4, <1>5, <1>6, Ordinary

LEMMA DeliverInv ==
  ASSUME IInv, NEW r \in Request, Deliver(r)
  PROVE  IInv'
<1> DEFINE b == request[r].browser
<1>0. request[r].pc = "answer" /\ request[r].pc \in Working /\ TypeOK
  BY DEF Deliver, Working, IInv
<1>1. /\ request[r] \in Message /\ b \in Browser /\ request[r] # Idle
      /\ request[r].setState \in Flow \cup {None, Keep}
      /\ request[r].setSession \in SessionId \cup {None, Keep}
  BY <1>0, MessageTyped DEF Message, Idle
<1>2. HubTypeOK' /\ ChannelsOpen'
  BY OpenKept DEF Deliver
<1>3. UNCHANGED <<sessions, flows, late, expired, begun, consent, holder, origin, failures>>
  BY DEF Deliver, tables, outside
<1>4. /\ request' \in [Request -> Message \cup {Idle}] /\ request'[r] = Idle
      /\ \A q \in Request : q # r => request'[q] = request[q]
  BY <1>0 DEF Deliver, TypeOK
<1>5. /\ stateCookie' \in [Browser -> Flow \cup {None}]
      /\ \A c \in Browser : stateCookie'[c] \in {None, stateCookie[c]} \/ Own(stateCookie[c], c)'
  <2>1. stateCookie' = [stateCookie EXCEPT ![b] = After(@, request[r].setState)]
    BY DEF Deliver
  <2>2. After(stateCookie[b], request[r].setState) \in Flow \cup {None}
    BY <1>0, <1>1 DEF After, TypeOK
  <2>3. \/ After(stateCookie[b], request[r].setState) \in {None, stateCookie[b]}
        \/ Own(After(stateCookie[b], request[r].setState), b)
    BY <1>1 DEF After, IInv, Bound, Carries
  <2> QED
    BY <1>0, <1>1, <1>3, <2>1, <2>2, <2>3 DEF TypeOK, Own
<1>6. sessionCookie' \in [Browser -> SessionId \cup {None}]
  BY <1>0, <1>1 DEF Deliver, After, TypeOK
<1>7. TypeOK'
  BY <1>0, <1>2, <1>3, <1>4, <1>5, <1>6 DEF TypeOK
<1>8. ~Using(request'[r])
  BY <1>4 DEF Using, Idle
<1> QED
  BY <1>1, <1>2, <1>3, <1>4, <1>5, <1>7, <1>8, Ordinary

LEMMA LoseInv ==
  ASSUME IInv, NEW r \in Request, Lose(r)
  PROVE  IInv'
<1>0. request[r].pc = "answer" /\ request[r].pc \in Working /\ TypeOK
  BY DEF Lose, Working, IInv
<1>1. request[r].browser \in Browser
  BY <1>0, MessageTyped DEF Message
<1>2. HubTypeOK' /\ ChannelsOpen'
  BY OpenKept DEF Lose
<1>3. UNCHANGED <<sessions, flows, late, expired, begun, consent, stateCookie, sessionCookie, holder, origin, failures>>
  BY DEF Lose, tables, outside, cookies
<1>4. /\ request' \in [Request -> Message \cup {Idle}] /\ request'[r] = Idle
      /\ \A q \in Request : q # r => request'[q] = request[q]
  BY <1>0 DEF Lose, TypeOK
<1>5. TypeOK'
  BY <1>0, <1>2, <1>3, <1>4 DEF TypeOK
<1>6. ~Using(request'[r])
  BY <1>4 DEF Using, Idle
<1> QED
  BY <1>1, <1>2, <1>3, <1>4, <1>5, <1>6, Ordinary

\* Steps of the hub, of the timers and of time itself.
LEMMA Elsewhere ==
  ASSUME IInv, HubTypeOK', ChannelsOpen', UNCHANGED <<tables, begun, consent, cookies, request, holder, origin>>,
         late' \subseteq flows, expired' \subseteq SessionId, failures' \in 0..MaxFailure
  PROVE  IInv'
<1>1. UNCHANGED <<flows, sessions, begun, consent, stateCookie, sessionCookie, request, holder, origin>>
  BY DEF tables, cookies
<1>2. TypeOK'
  BY <1>1 DEF IInv, TypeOK
<1>3. Bound' /\ Once'
  BY <1>1 DEF IInv, Bound, Once, Carries, Own, From, Using
<1>4. Earned'
  BY <1>1 DEF IInv, Earned, Own, SessionsAreEarned
<1> QED
  BY <1>2, <1>3, <1>4 DEF IInv

LEMMA AgeInv ==
  ASSUME IInv, Age
  PROVE  IInv'
<1>1. HubTypeOK' /\ ChannelsOpen'
  BY OpenKept DEF Age
<1>2. late' \subseteq flows /\ expired' \subseteq SessionId /\ failures' \in 0..MaxFailure
  BY DEF Age, IInv, TypeOK
<1> QED
  BY <1>1, <1>2, Elsewhere DEF Age

LEMMA SocketsInv ==
  ASSUME IInv, NEW k \in Socket,
         \/ Broadcast /\ Works /\ OfHub
         \/ (HubStep(k) /\ Works /\ OfHub) \/ TimerFires(k) \/ CheckFinds(k)
  PROVE  IInv'
<1>1. HubTypeOK' /\ ChannelsOpen'
  BY BroadcastInv, HubStepInv DEF TimerFires, CheckFinds, IInv, TypeOK, HubInv
<1>2. OfHub /\ failures' \in 0..MaxFailure
  BY FailuresTyped DEF TimerFires, CheckFinds, IInv
<1> QED
  BY <1>1, <1>2, Elsewhere DEF OfHub, outside, IInv, TypeOK

LEMMA NextInv == IInv /\ [Next]_vars => IInv'
<1> SUFFICES ASSUME IInv, [Next]_vars PROVE IInv'
  OBVIOUS
<1>1. ASSUME NEW r \in Request, NEW b \in Browser,
             Ask(r, b) \/ \E f \in Flow, g \in Flow \cup {None} : Return(r, b, f, g)
      PROVE  IInv'
  BY <1>1, AskInv, ReturnInv
<1>2. ASSUME NEW r \in Request,
             \/ HandleLogin(r) \/ Begin(r) \/ HandleCallback(r) \/ Exchange(r) \/ Rotate(r) \/ Insert(r)
             \/ HandleLogout(r) \/ Protect(r) \/ Deliver(r) \/ Lose(r)
             \/ \E k \in Socket : OpenSocket(r, k)
      PROVE  IInv'
  BY <1>2, HandleLoginInv, BeginInv, HandleCallbackInv, ExchangeInv, RotateInv, InsertInv, HandleLogoutInv,
     ProtectInv, DeliverInv, LoseInv, OpenSocketInv
<1>3. CASE Age
  BY <1>3, AgeInv
<1>4. CASE Broadcast /\ Works /\ OfHub
  <2>1. PICK k \in Socket : k \in clients
    BY <1>4 DEF Broadcast, IInv, TypeOK, HubTypeOK
  <2> QED
    BY <1>4, <2>1, SocketsInv
<1>5. ASSUME NEW k \in Socket, (HubStep(k) /\ Works /\ OfHub) \/ TimerFires(k) \/ CheckFinds(k)
      PROVE  IInv'
  BY <1>5, SocketsInv
<1>6. CASE UNCHANGED vars
  <2>1. HubTypeOK' /\ ChannelsOpen'
    BY <1>6, OpenKept DEF vars
  <2>2. UNCHANGED <<tables, outside, cookies, request, holder, origin, failures>>
    BY <1>6 DEF vars
  <2> QED
    BY <2>1, <2>2, Elsewhere DEF outside, IInv, TypeOK
<1> QED
  BY <1>1, <1>2, <1>3, <1>4, <1>5, <1>6 DEF Next

-----------------------------------------------------------------------------
(* Cookies that are cleared *)

\* Request r clears the cookie of its browser's session only for a reason.
Due(r) ==
    /\ request[r].cookie <= Len(origin) /\ request[r].setSession <= Len(origin)
    /\ request[r].pc = "logout" => request[r].kind = "logout"
    /\ request[r].setSession = None =>
          request[r].kind = "logout" \/ failures > 0 \/ ~Live(request[r].cookie)

\* Sessions are numbered as they are created, and a dead one stays dead; so an
\* answer that clears the cookie of a dead one does no harm, whenever it comes.
Cleared ==
    /\ \A b \in Browser : sessionCookie[b] <= Len(origin)
    /\ \A r \in Request : request[r] # Idle => Due(r)

Older ==
    /\ Len(origin) <= Len(origin') /\ failures <= failures'
    /\ \A s \in SessionId \cup {None} : s <= Len(origin) /\ ~Live(s) => ~Live(s)'

LEMMA NextOlder ==
  ASSUME IInv, Next
  PROVE  Older
<1>0. TypeOK /\ Len(origin) \in Nat /\ failures \in Nat
  BY BoundAssumption DEF IInv, TypeOK
<1> DEFINE Fades == UNCHANGED origin /\ failures <= failures' /\ expired \subseteq expired'
                    /\ \A s \in SessionId : sessions'[s] \in {sessions[s], NoAccount}
<1>1. Fades => Older
  BY <1>0 DEF Older, Live
<1>2. Works \/ Fails => failures <= failures'
  BY <1>0 DEF Works, Fails
<1>3. ASSUME NEW r \in Request, NEW b \in Browser,
             Ask(r, b) \/ \E f \in Flow, g \in Flow \cup {None} : Return(r, b, f, g)
      PROVE  Older
  BY <1>0, <1>1, <1>3 DEF Ask, Return, Send, tables
<1>4. ASSUME NEW r \in Request, HandleLogin(r) \/ Begin(r) PROVE Older
  <2>1. \A s \in SessionId : sessions'[s] \in {sessions[s], NoAccount}
    BY <1>4 DEF HandleLogin, Begin
  <2> QED
    BY <1>1, <1>2, <1>4, <2>1 DEF HandleLogin, Begin
<1>5. ASSUME NEW r \in Request,
             HandleCallback(r) \/ Exchange(r) \/ Protect(r) \/ Deliver(r) \/ Lose(r)
             \/ \E k \in Socket : OpenSocket(r, k)
      PROVE  Older
  BY <1>0, <1>1, <1>2, <1>5 DEF HandleCallback, Exchange, Protect, Deliver, Lose, OpenSocket, tables, outside
<1>6. ASSUME NEW r \in Request, Rotate(r) \/ HandleLogout(r) PROVE Older
  <2>1. \A s \in SessionId : sessions'[s] \in {sessions[s], NoAccount}
    BY <1>0, <1>6, RevokeDoes DEF Rotate, HandleLogout
  <2>2. failures <= failures'
    BY <1>2, <1>6 DEF Rotate, HandleLogout, Revoke
  <2> QED
    BY <1>1, <1>6, <2>1, <2>2 DEF Rotate, HandleLogout, outside
<1>7. ASSUME NEW r \in Request, Insert(r) PROVE Older
  <2>1. CASE UNCHANGED <<sessions, origin>>
    BY <1>1, <1>2, <1>7, <2>1 DEF Insert, outside
  <2>2. CASE ~UNCHANGED <<sessions, origin>>
    <3>1. /\ sessions' = [sessions EXCEPT ![Len(origin) + 1] = consent[request[r].code]]
          /\ origin' = Append(origin, [flow |-> request[r].flow, browser |-> request[r].browser])
          /\ failures' = failures /\ expired' = expired
      BY <1>7, <2>2 DEF Insert, Works, outside
    <3>2. Len(origin') = Len(origin) + 1
      BY <1>0, <3>1 DEF TypeOK
    <3>3. \A s \in SessionId : s <= Len(origin) => sessions'[s] = sessions[s]
      BY <1>0, <3>1 DEF TypeOK, SessionId
    <3> QED
      BY <1>0, <3>1, <3>2, <3>3 DEF Older, Live
  <2> QED
    BY <2>1, <2>2
<1>8. CASE Age
  BY <1>0, <1>1, <1>8 DEF Age, tables
<1>9. CASE Broadcast /\ Works /\ OfHub
  BY <1>0, <1>1, <1>2, <1>9 DEF OfHub, tables, outside
<1>10. ASSUME NEW k \in Socket, (HubStep(k) /\ Works /\ OfHub) \/ TimerFires(k) \/ CheckFinds(k)
       PROVE  Older
  BY <1>0, <1>1, <1>2, <1>10 DEF TimerFires, CheckFinds, OfHub, tables, outside
<1> QED
  BY <1>3, <1>4, <1>5, <1>6, <1>7, <1>8, <1>9, <1>10 DEF Next

\* A request has changed, or none has.
LEMMA ClearedKept ==
  ASSUME IInv, IInv', Cleared, Older, NEW R, \A q \in Request : q # R => request'[q] = request[q],
         \A b \in Browser : sessionCookie'[b] <= Len(origin'),
         R \in Request /\ request'[R] # Idle => Due(R)'
  PROVE  Cleared'
<1>1. ASSUME NEW q \in Request, request'[q] # Idle, q # R
      PROVE  Due(q)'
  <2>1. request'[q] = request[q] /\ request[q] \in Message /\ request[q] # Idle
    BY <1>1 DEF IInv, TypeOK
  <2>2. /\ request[q].cookie \in SessionId \cup {None} /\ request[q].setSession \in SessionId \cup {None, Keep}
        /\ request[q].cookie \in Int /\ request[q].setSession \in Int
    BY <2>1 DEF Message, SessionId, None, Keep
  <2>3. Len(origin) \in Nat /\ Len(origin') \in Nat /\ failures \in Nat /\ failures' \in Nat
    BY BoundAssumption DEF IInv, TypeOK
  <2>4. Due(q)
    BY <2>1 DEF Cleared
  <2>5. Len(origin) <= Len(origin') /\ failures <= failures'
        /\ (~Live(request[q].cookie) => ~Live(request[q].cookie)')
    BY <2>1, <2>2, <2>4 DEF Older, Due
  <2> QED
    BY <2>1, <2>2, <2>3, <2>4, <2>5 DEF Due
<1> QED
  BY <1>1 DEF Cleared

LEMMA GotoClears ==
  ASSUME IInv, IInv', Cleared, Older, NEW r \in Request, request[r].pc \in Working, NEW pc \in Working, pc # "logout", Goto(r, pc)
  PROVE  Due(r)'
<1>1. request[r] \in Message /\ request[r] # Idle
  BY MessageTyped DEF IInv, Message, Idle
<1>2. request'[r] = [request[r] EXCEPT !.pc = pc]
  BY GotoDoes DEF IInv
<1>3. /\ request'[r].cookie = request[r].cookie /\ request'[r].setSession = request[r].setSession
      /\ request'[r].kind = request[r].kind
      /\ request[r].cookie \in SessionId \cup {None} /\ request[r].setSession \in SessionId \cup {None, Keep}
  BY <1>1, <1>2 DEF Message
<1>4. Len(origin) \in Nat /\ failures \in Nat /\ Len(origin) <= Len(origin') /\ failures <= failures'
  BY BoundAssumption DEF IInv, TypeOK, Older
<1>5. Due(r)
  BY <1>1 DEF Cleared
<1>6. ~Live(request[r].cookie) => ~Live(request[r].cookie)'
  BY <1>3, <1>5 DEF Older, Due
<1>7. Len(origin') \in Nat /\ failures' \in Nat /\ request'[r].pc = pc
  BY <1>1, <1>2, BoundAssumption DEF IInv, TypeOK, Message
<1> QED
  BY <1>3, <1>4, <1>5, <1>6, <1>7 DEF Due, SessionId, None, Keep

LEMMA AnswerClears ==
  ASSUME IInv, IInv', Cleared, Older, NEW r \in Request, request[r].pc \in Working,
         NEW state \in Flow \cup {None, Keep}, NEW session \in SessionId \cup {None, Keep},
         Answer(r, state, session), session <= Len(origin'),
         session = None => request[r].kind = "logout" \/ failures' > 0 \/ ~Live(request[r].cookie)
  PROVE  Due(r)'
<1>1. request[r] \in Message /\ request[r] # Idle
  BY MessageTyped DEF IInv, Message, Idle
<1>2. /\ request'[r].cookie = request[r].cookie /\ request'[r].setSession = session
      /\ request'[r].kind = request[r].kind /\ request[r].cookie \in SessionId \cup {None}
  BY <1>1 DEF Answer, IInv, TypeOK, Message
<1>3. Len(origin) \in Nat /\ Len(origin) <= Len(origin')
  BY DEF IInv, TypeOK, Older
<1>4. request[r].cookie <= Len(origin)
  BY <1>1 DEF Cleared, Due
<1>5. ~Live(request[r].cookie) => ~Live(request[r].cookie)'
  BY <1>2, <1>4 DEF Older
<1>6. Len(origin') \in Nat /\ request'[r].pc = "answer"
  <2>1. request'[r].pc = "answer"
    BY AnswerDoes DEF IInv
  <2> QED
    BY <2>1 DEF IInv, TypeOK
<1>7. request'[r].cookie <= Len(origin') /\ request'[r].setSession <= Len(origin')
  BY <1>2, <1>3, <1>4, <1>6 DEF SessionId, None
<1>8. request'[r].setSession = None =>
         request'[r].kind = "logout" \/ failures' > 0 \/ ~Live(request[r].cookie)'
  BY <1>2, <1>5
<1> QED
  BY <1>6, <1>7, <1>8 DEF Due

LEMMA SendClears ==
  ASSUME IInv, IInv', Cleared, Older, NEW r \in Request, NEW b \in Browser,
         NEW kind, NEW f, NEW g, Send(r, b, kind, f, g)
  PROVE  Cleared'
<1>1. /\ request'[r].cookie = sessionCookie[b] /\ request'[r].setSession = Keep
      /\ request'[r].kind = kind /\ request'[r].pc = kind
      /\ sessionCookie[b] <= Len(origin) /\ origin' = origin /\ sessionCookie' = sessionCookie
      /\ \A q \in Request : q # r => request'[q] = request[q]
  BY DEF Send, cookies, IInv, TypeOK, Cleared
<1>2. Len(origin) \in Nat /\ Keep <= Len(origin) /\ Keep # None
  BY DEF IInv, TypeOK, Keep, None
<1> QED
  BY <1>1, <1>2, ClearedKept DEF Cleared, Due

\* A refused callback leaves the cookie of the session alone.
LEMMA RefuseClears ==
  ASSUME IInv, IInv', Cleared, Older, NEW r \in Request, request[r].pc \in Working, Refuse(r)
  PROVE  Due(r)'
<1>1. PICK state \in {None, Keep} : Answer(r, state, Keep)
  BY DEF Refuse
<1>2. Keep <= Len(origin') /\ Keep # None
  BY DEF Older, IInv, TypeOK, Keep, None
<1> QED
  BY <1>1, <1>2, AnswerClears

LEMMA RequestClears ==
  ASSUME IInv, IInv', Cleared, Older, NEW r \in Request,
         HandleLogin(r) \/ Begin(r) \/ HandleCallback(r) \/ Exchange(r) \/ Rotate(r) \/ Insert(r)
         \/ HandleLogout(r) \/ Protect(r)
  PROVE  Cleared'
<1>0. /\ request[r].pc \in Working /\ Len(origin) \in Nat /\ failures \in Nat
      /\ Keep <= Len(origin') /\ None <= Len(origin') /\ Keep # None
      /\ Len(origin) <= Len(origin') /\ failures <= failures'
  BY BoundAssumption DEF HandleLogin, Begin, HandleCallback, Exchange, Rotate, Insert, HandleLogout, Protect, Working,
     IInv, TypeOK, Older, Keep, None
<1>1. sessionCookie' = sessionCookie
  BY DEF HandleLogin, Begin, HandleCallback, Exchange, Rotate, Insert, HandleLogout, Protect, cookies
<1>2. \A q \in Request : q # r => request'[q] = request[q]
  BY DEF HandleLogin, Begin, HandleCallback, Exchange, Rotate, Insert, HandleLogout, Protect, Refuse, Answer, Goto,
     IInv, TypeOK
<1>3. \A b \in Browser : sessionCookie'[b] <= Len(origin')
  <2>1. \A b \in Browser : sessionCookie[b] <= Len(origin) /\ sessionCookie[b] \in Int
    BY DEF Cleared, IInv, TypeOK, SessionId, None
  <2> QED
    BY <1>0, <1>1, <2>1
<1>4. CASE HandleLogin(r) \/ Begin(r)
  <2>1. Len(begun) + 1 <= MaxFlow => Len(begun) + 1 \in Flow
    BY DEF IInv, TypeOK, Flow
  <2>2. Goto(r, "begin") \/ \E state \in Flow \cup {None, Keep} : Answer(r, state, Keep)
    BY <1>4, <2>1 DEF HandleLogin, Begin
  <2>3. Due(r)'
    <3>1. "begin" \in Working
      BY DEF Working
    <3> QED
      BY <1>0, <2>2, <3>1, AnswerClears, GotoClears
  <2> QED
    BY <1>2, <1>3, <2>3, ClearedKept
<1>5. CASE HandleCallback(r) \/ Exchange(r)
  <2>1. "exchange" \in Working /\ "rotate" \in Working
    BY DEF Working
  <2>2. Answer(r, None, Keep) \/ Goto(r, "exchange") \/ Goto(r, "rotate") \/ Refuse(r)
    BY <1>5 DEF HandleCallback, Exchange
  <2>3. Due(r)'
    BY <1>0, <2>1, <2>2, AnswerClears, GotoClears, RefuseClears
  <2> QED
    BY <1>2, <1>3, <2>3, ClearedKept
<1>6. CASE Rotate(r)
  <2>1. "insert" \in Working
    BY DEF Working
  <2>2. Due(r)'
    BY <1>0, <1>6, <2>1, GotoClears DEF Rotate
  <2> QED
    BY <1>2, <1>3, <2>2, ClearedKept
<1>7. CASE Insert(r)
  <2>1. CASE Refuse(r)
    <3>1. Due(r)'
      BY <1>0, <2>1, RefuseClears
    <3> QED
      BY <1>2, <1>3, <3>1, ClearedKept
  <2>2. CASE ~Refuse(r)
    <3>1. /\ Len(origin) + 1 <= MaxSession /\ Answer(r, None, Len(origin) + 1)
          /\ Len(origin') = Len(origin) + 1
      BY <1>7, <2>2 DEF Insert, IInv, TypeOK
    <3>2. Len(origin) + 1 \in SessionId /\ Len(origin) + 1 # None
      BY <1>0, <3>1 DEF SessionId, None
    <3>3. Len(origin) + 1 <= Len(origin')
      BY <1>0, <3>1
    <3>4. Due(r)'
      BY <1>0, <3>1, <3>2, <3>3, AnswerClears
    <3> QED
      BY <1>2, <1>3, <3>4, ClearedKept
  <2> QED
    BY <2>1, <2>2
<1>8. CASE HandleLogout(r)
  <2>1. Answer(r, Keep, None) /\ request[r].kind = "logout"
    BY <1>8 DEF HandleLogout, Cleared, Due, Idle
  <2>2. Due(r)'
    BY <1>0, <2>1, AnswerClears
  <2> QED
    BY <1>2, <1>3, <2>2, ClearedKept
<1>9. CASE Protect(r)
  <2>1. "upgrade" \in Working
    BY DEF Working
  <2>2. \/ Goto(r, "upgrade") \/ Answer(r, Keep, Keep)
        \/ Answer(r, Keep, None) /\ (~Live(request[r].cookie) \/ failures' > 0)
    BY <1>0, <1>9 DEF Protect, Fails
  <2>3. Due(r)'
    BY <1>0, <2>1, <2>2, AnswerClears, GotoClears
  <2> QED
    BY <1>2, <1>3, <2>3, ClearedKept
<1> QED
  BY <1>4, <1>5, <1>6, <1>7, <1>8, <1>9

LEMMA ClearedNext == IInv /\ IInv' /\ Cleared /\ [Next]_vars => Cleared'
<1> SUFFICES ASSUME IInv, IInv', Cleared, [Next]_vars PROVE Cleared'
  OBVIOUS
<1>0. CASE UNCHANGED vars
  BY <1>0 DEF vars, tables, outside, cookies, Cleared, Due, Live
<1>1. CASE Next
  <2>0. Older
    BY <1>1, NextOlder
  <2>1. ASSUME NEW r \in Request, NEW b \in Browser,
               Ask(r, b) \/ \E f \in Flow, g \in Flow \cup {None} : Return(r, b, f, g)
        PROVE  Cleared'
    BY <2>0, <2>1, SendClears DEF Ask, Return
  <2>2. ASSUME NEW r \in Request,
               HandleLogin(r) \/ Begin(r) \/ HandleCallback(r) \/ Exchange(r) \/ Rotate(r) \/ Insert(r)
               \/ HandleLogout(r) \/ Protect(r)
        PROVE  Cleared'
    BY <2>0, <2>2, RequestClears
  <2>3. ASSUME NEW r \in Request, Lose(r) \/ \E k \in Socket : OpenSocket(r, k)
        PROVE  Cleared'
    <3>1. /\ request'[r] = Idle /\ UNCHANGED <<sessionCookie, origin>>
          /\ \A q \in Request : q # r => request'[q] = request[q]
      BY <2>3 DEF Lose, OpenSocket, cookies, IInv, TypeOK
    <3> QED
      BY <2>0, <3>1, ClearedKept DEF Cleared
  <2>4. ASSUME NEW r \in Request, Deliver(r) PROVE Cleared'
    <3>1. /\ request'[r] = Idle /\ UNCHANGED origin
          /\ \A q \in Request : q # r => request'[q] = request[q]
      BY <2>4 DEF Deliver, IInv, TypeOK
    <3>2. request[r].setSession <= Len(origin)
      BY <2>4 DEF Deliver, Cleared, Due, Idle
    <3>3. \A b \in Browser : sessionCookie'[b] <= Len(origin')
      BY <2>4, <3>1, <3>2 DEF Deliver, After, Cleared, IInv, TypeOK
    <3> QED
      BY <2>0, <3>1, <3>3, ClearedKept
  <2>5. ASSUME UNCHANGED <<cookies, request, origin>> PROVE Cleared'
    <3>1. \A b \in Browser : sessionCookie'[b] <= Len(origin')
      BY <2>5 DEF cookies, Cleared
    <3>2. ASSUME NEW q \in Request, request'[q] # Idle PROVE Due(q)'
      <4>1. request[q] \in Message /\ Due(q)
        BY <2>5, <3>2 DEF Cleared, IInv, TypeOK
      <4>2. request[q].cookie \in SessionId \cup {None}
        BY <4>1 DEF Message
      <4>3. failures \in Nat /\ failures' \in Nat
        BY BoundAssumption DEF IInv, TypeOK
      <4> QED
        BY <2>0, <2>5, <4>1, <4>2, <4>3 DEF Due, Older
    <3> QED
      BY <3>1, <3>2 DEF Cleared
  <2>6. CASE Age \/ (Broadcast /\ Works /\ OfHub)
    BY <2>5, <2>6 DEF Age, OfHub
  <2>7. ASSUME NEW k \in Socket, (HubStep(k) /\ Works /\ OfHub) \/ TimerFires(k) \/ CheckFinds(k)
        PROVE  Cleared'
    BY <2>5, <2>7 DEF TimerFires, CheckFinds, OfHub
  <2> QED
    BY <1>1, <2>1, <2>2, <2>3, <2>4, <2>6, <2>7 DEF Next
<1> QED
  BY <1>0, <1>1

-----------------------------------------------------------------------------
(* The logins of Logins *)

\* Sessions are numbered as they are created, and a code is only brought for
\* a login that an account was chosen for.
Numbered == expired \subseteq 1..Len(origin) /\ \A s \in SessionId : sessions[s] # NoAccount => s \in 1..Len(origin)
Coded(m) == m.code # None => consent[m.code] # NoAccount
Codes    == \A r \in Request : request[r] # Idle => Coded(request[r])

OfLogins == <<begun, consent, origin, sessions, expired>>

\* The steps that concern logins and sessions.
LEMMA NextSigns ==
  ASSUME IInv, [Next]_vars
  PROVE  \/ UNCHANGED OfLogins
         \/ \E r \in Request, b \in Browser, f \in Flow, g \in Flow \cup {None} : Return(r, b, f, g)
         \/ \E r \in Request : HandleLogin(r) \/ Begin(r) \/ Rotate(r) \/ HandleLogout(r) \/ Insert(r)
         \/ Age
<1>1. ASSUME NEW r \in Request, NEW b \in Browser, Ask(r, b) PROVE UNCHANGED OfLogins
  BY <1>1 DEF Ask, Send, tables, OfLogins
<1>2. ASSUME NEW r \in Request,
             HandleCallback(r) \/ Exchange(r) \/ Protect(r) \/ Deliver(r) \/ Lose(r)
             \/ \E k \in Socket : OpenSocket(r, k)
      PROVE  UNCHANGED OfLogins
  BY <1>2 DEF HandleCallback, Exchange, Protect, Deliver, Lose, OpenSocket, tables, outside, OfLogins
<1>3. ASSUME OfHub \/ UNCHANGED vars PROVE UNCHANGED OfLogins
  BY <1>3 DEF OfHub, vars, tables, outside, OfLogins
<1>4. ASSUME NEW k \in Socket, TimerFires(k) \/ CheckFinds(k) PROVE OfHub
  BY <1>4 DEF TimerFires, CheckFinds
<1> QED
  BY <1>1, <1>2, <1>3, <1>4 DEF Next

LEMMA ReturnDoes ==
  ASSUME IInv, NEW r \in Request, NEW b \in Browser, NEW f \in Flow, NEW g \in Flow \cup {None}, Return(r, b, f, g)
  PROVE  /\ UNCHANGED <<begun, origin, sessions, expired>>
         /\ \/ UNCHANGED consent /\ (g # None => consent[g] # NoAccount)
            \/ /\ g \in 1..Len(begun) /\ consent[g] = NoAccount
               /\ \E a \in Account : consent' = [consent EXCEPT ![g] = a]
<1>1. UNCHANGED <<begun, origin, sessions, expired>>
  BY DEF Return, Send, tables
<1>2. CASE g = None
  BY <1>1, <1>2 DEF Return
<1>3. CASE g # None
  <2>1. PICK a \in Account : consent[g] \in {NoAccount, a} /\ consent' = [consent EXCEPT ![g] = a]
    BY <1>3 DEF Return
  <2>2. g \in 1..Len(begun) /\ g \in Flow
    BY <1>3 DEF Return
  <2>3. CASE consent[g] = a
    BY <1>1, <2>1, <2>2, <2>3, AccountAssumption DEF IInv, TypeOK
  <2>4. CASE consent[g] = NoAccount
    BY <1>1, <2>1, <2>2, <2>4
  <2> QED
    BY <2>1, <2>3, <2>4
<1> QED
  BY <1>2, <1>3

\* Rows of sessions that are too old are removed with a login.
LEMMA HandleLoginDoes ==
  ASSUME IInv, NEW r \in Request, HandleLogin(r) \/ Begin(r)
  PROVE  /\ UNCHANGED <<consent, origin, expired>>
         /\ \A s \in SessionId : sessions'[s] = sessions[s] \/ (s \in expired /\ sessions'[s] = NoAccount)
         /\ \/ UNCHANGED begun
            \/ begun' = Append(begun, request[r].browser) /\ Len(begun) + 1 <= MaxFlow /\ request[r].browser \in Browser
<1>1. request[r].browser \in Browser
  BY MessageTyped DEF HandleLogin, Begin, IInv, Working, Message
<1>2. \A s \in SessionId : sessions'[s] = sessions[s] \/ (s \in expired /\ sessions'[s] = NoAccount)
  BY DEF HandleLogin, Begin
<1>3. UNCHANGED begun \/ (begun' = Append(begun, request[r].browser) /\ Len(begun) + 1 <= MaxFlow)
  BY DEF HandleLogin, Begin
<1> QED
  BY <1>1, <1>2, <1>3 DEF HandleLogin, Begin

\* A session is revoked, or none: its row was gone, or the statement failed.
LEMMA RevokesOne ==
  ASSUME IInv, NEW r \in Request, Rotate(r) \/ HandleLogout(r)
  PROVE  /\ UNCHANGED <<begun, consent, origin, expired>>
         /\ \/ UNCHANGED sessions
            \/ \A s \in SessionId : sessions'[s] = IF s = request[r].cookie THEN NoAccount ELSE sessions[s]
  BY DEF Rotate, HandleLogout, Revoke, Revoked, outside

LEMMA InsertDoes ==
  ASSUME IInv, Codes, NEW r \in Request, Insert(r)
  PROVE  /\ UNCHANGED <<begun, consent, expired>>
         /\ \/ UNCHANGED <<sessions, origin>>
            \/ \E f \in 1..Len(begun) :
                  /\ ~From(f) /\ consent[f] # NoAccount
                  /\ Len(origin) + 1 <= MaxSession
                  /\ sessions' = [sessions EXCEPT ![Len(origin) + 1] = consent[f]]
                  /\ origin' = Append(origin, [flow |-> f, browser |-> begun[f]])
<1>1. UNCHANGED <<begun, consent, expired>>
  BY DEF Insert, outside
<1>2. /\ Own(request[r].flow, request[r].browser) /\ ~From(request[r].flow)
      /\ request[r].code = request[r].flow
  BY DEF Insert, Using, IInv, Once
<1>3. consent[request[r].code] # NoAccount
  BY <1>2 DEF Insert, Codes, Coded, Idle, Own, None
<1> QED
  BY <1>1, <1>2, <1>3 DEF Insert, Own

\* What was chosen for a login is never chosen again.
LEMMA ConsentStays ==
  ASSUME IInv, Codes, [Next]_vars
  PROVE  \A f \in Flow : consent[f] # NoAccount => consent'[f] = consent[f]
<1>1. ASSUME NEW g, consent[g] = NoAccount, NEW a, consent' = [consent EXCEPT ![g] = a], NEW f \in Flow,
             consent[f] # NoAccount
      PROVE  consent'[f] = consent[f]
  BY <1>1 DEF IInv, TypeOK
<1>2. ASSUME NEW r \in Request, NEW b \in Browser, NEW f \in Flow, NEW g \in Flow \cup {None}, Return(r, b, f, g)
      PROVE  UNCHANGED consent \/ (consent[g] = NoAccount /\ \E a \in Account : consent' = [consent EXCEPT ![g] = a])
  BY <1>2, ReturnDoes
<1>3. ASSUME NEW r \in Request, HandleLogin(r) \/ Begin(r) \/ Rotate(r) \/ HandleLogout(r) \/ Insert(r) PROVE UNCHANGED consent
  BY <1>3, HandleLoginDoes, RevokesOne, InsertDoes
<1>4. Age => UNCHANGED consent
  BY DEF Age
<1>5. UNCHANGED OfLogins => UNCHANGED consent
  BY DEF OfLogins
<1> QED
  BY <1>1, <1>2, <1>3, <1>4, <1>5, NextSigns

LEMMA NumberedNext ==
  ASSUME IInv, IInv', Codes, Numbered, [Next]_vars
  PROVE  Numbered'
<1>0. Len(origin) \in Nat /\ sessions \in [SessionId -> Account \cup {NoAccount}]
  BY DEF IInv, TypeOK
<1>1. UNCHANGED <<origin, sessions, expired>> => Numbered'
  BY DEF Numbered
<1>5. CASE \/ UNCHANGED OfLogins
           \/ \E r \in Request, b \in Browser, f \in Flow, g \in Flow \cup {None} : Return(r, b, f, g)
  BY <1>1, <1>5, ReturnDoes DEF OfLogins
<1>2. ASSUME NEW r \in Request, HandleLogin(r) \/ Begin(r) \/ Rotate(r) \/ HandleLogout(r) PROVE Numbered'
  <2>1. UNCHANGED <<origin, expired>> /\ \A s \in SessionId : sessions'[s] \in {sessions[s], NoAccount}
    BY <1>2, HandleLoginDoes, RevokesOne
  <2> QED
    BY <2>1 DEF Numbered
<1>3. ASSUME NEW r \in Request, Insert(r) PROVE Numbered'
  <2>1. CASE UNCHANGED <<sessions, origin>>
    BY <1>3, <2>1, InsertDoes DEF Numbered
  <2>2. CASE ~UNCHANGED <<sessions, origin>>
    <3>1. PICK f \in 1..Len(begun) :
            /\ sessions' = [sessions EXCEPT ![Len(origin) + 1] = consent[f]]
            /\ origin' = Append(origin, [flow |-> f, browser |-> begun[f]])
      BY <1>3, <2>2, InsertDoes
    <3>2. Len(origin') = Len(origin) + 1
      BY <3>1 DEF IInv, TypeOK
    <3>3. \A s \in SessionId : s # Len(origin) + 1 => sessions'[s] = sessions[s]
      BY <1>0, <3>1
    <3>4. expired' = expired
      BY <1>3, InsertDoes
    <3> QED
      BY <1>0, <3>2, <3>3, <3>4 DEF Numbered
  <2> QED
    BY <2>1, <2>2
<1>4. CASE Age
  BY <1>4 DEF Age, Live, Numbered, tables
<1> QED
  BY <1>2, <1>3, <1>4, <1>5, NextSigns

\* A request keeps the code it was sent with, until it is answered.
LEMMA CodeKept ==
  ASSUME IInv, Codes, NEW r \in Request, UNCHANGED consent,
         \/ HandleLogin(r) \/ Begin(r) \/ HandleCallback(r) \/ Exchange(r) \/ Rotate(r) \/ Insert(r)
         \/ HandleLogout(r) \/ Protect(r) \/ Deliver(r) \/ Lose(r)
         \/ \E k \in Socket : OpenSocket(r, k)
  PROVE  Codes'
<1> DEFINE Kept(c) == request' = [request EXCEPT ![r] = c]
<1>1. ASSUME NEW c, Kept(c), c # Idle => c.code = None \/ (request[r].pc \in Working /\ c.code = request[r].code)
      PROVE  Codes'
  <2> SUFFICES ASSUME NEW q \in Request, request'[q] # Idle PROVE Coded(request[q])'
    BY DEF Codes
  <2>1. q # r => request'[q] = request[q]
    BY <1>1 DEF IInv, TypeOK
  <2>2. request'[r] = c
    BY <1>1 DEF IInv, TypeOK
  <2>3. request[r].pc \in Working => request[r] # Idle
    BY DEF Working, Idle
  <2> QED
    BY <1>1, <2>1, <2>2, <2>3 DEF Codes, Coded
<1>2. ASSUME NEW state, NEW session, request[r].pc \in Working, Answer(r, state, session) PROVE Codes'
  <2> DEFINE c == [request[r] EXCEPT !.pc = "answer", !.setState = state, !.setSession = session,
                                     !.flow = None, !.code = None, !.held = None]
  <2>1. c.code = None
    BY <1>2, MessageTyped DEF IInv, Message
  <2>2. Kept(c)
    BY <1>2 DEF Answer
  <2> HIDE DEF c
  <2> QED
    BY <1>1, <2>1, <2>2
<1>3. ASSUME NEW pc, request[r].pc \in Working, Goto(r, pc) PROVE Codes'
  <2> DEFINE c == [request[r] EXCEPT !.pc = pc]
  <2>1. c.code = request[r].code
    BY <1>3, MessageTyped DEF IInv, Message
  <2>2. Kept(c)
    BY <1>3 DEF Goto
  <2> HIDE DEF c
  <2> QED
    BY <1>1, <1>3, <2>1, <2>2
<1>4. Kept(Idle) => Codes'
  BY <1>1
<1>5. CASE Deliver(r) \/ Lose(r) \/ \E k \in Socket : OpenSocket(r, k)
  BY <1>4, <1>5 DEF Deliver, Lose, OpenSocket
<1>6. CASE HandleLogin(r) \/ Begin(r)
  BY <1>2, <1>3, <1>6 DEF HandleLogin, Begin, Working
<1>7. CASE HandleCallback(r) \/ Exchange(r) \/ Insert(r)
  BY <1>2, <1>3, <1>7 DEF HandleCallback, Exchange, Insert, Refuse, Working
<1>8. CASE Rotate(r) \/ HandleLogout(r) \/ Protect(r)
  BY <1>2, <1>3, <1>8 DEF Rotate, HandleLogout, Protect, Working
<1> QED
  BY <1>5, <1>6, <1>7, <1>8

LEMMA CodesNext ==
  ASSUME IInv, Codes, [Next]_vars
  PROVE  Codes'
<1>1. ASSUME NEW r \in Request, NEW b \in Browser, NEW kind, NEW f, NEW g \in Flow \cup {None},
             Send(r, b, kind, f, g), g # None => consent'[g] # NoAccount
      PROVE  Codes'
  <2> SUFFICES ASSUME NEW q \in Request, request'[q] # Idle PROVE Coded(request[q])'
    BY DEF Codes
  <2>1. CASE q = r
    BY <1>1, <2>1 DEF Send, Coded, IInv, TypeOK
  <2>2. CASE q # r
    <3>1. request'[q] = request[q] /\ Coded(request[q])
      BY <1>1, <2>2 DEF Send, Codes, IInv, TypeOK
    <3>2. request[q].code # None => request[q].code \in Flow
      BY <3>1 DEF IInv, TypeOK, Message
    <3> QED
      BY <3>1, <3>2, ConsentStays DEF Coded
  <2> QED
    BY <2>1, <2>2
<1>2. ASSUME NEW r \in Request, NEW b \in Browser, Ask(r, b) PROVE Codes'
  BY <1>1, <1>2 DEF Ask, None
<1>3. ASSUME NEW r \in Request, NEW b \in Browser, NEW f \in Flow, NEW g \in Flow \cup {None}, Return(r, b, f, g)
      PROVE  Codes'
  <2>1. g # None => consent'[g] # NoAccount
    BY <1>3, ReturnDoes, AccountAssumption DEF IInv, TypeOK
  <2>2. Send(r, b, "callback", f, g)
    BY <1>3 DEF Return
  <2> QED
    BY <1>1, <2>1, <2>2
<1>4. ASSUME NEW r \in Request,
             \/ HandleLogin(r) \/ Begin(r) \/ HandleCallback(r) \/ Exchange(r) \/ Rotate(r) \/ Insert(r)
             \/ HandleLogout(r) \/ Protect(r) \/ Deliver(r) \/ Lose(r)
             \/ \E k \in Socket : OpenSocket(r, k)
      PROVE  Codes'
  <2>1. UNCHANGED consent
    BY <1>4, HandleLoginDoes, RevokesOne, InsertDoes
       DEF HandleCallback, Exchange, Protect, Deliver, Lose, OpenSocket, outside
  <2> QED
    BY <1>4, <2>1, CodeKept
<1>5. UNCHANGED <<request, consent>> => Codes'
  BY DEF Codes, Coded
<1>6. CASE Age \/ OfHub \/ UNCHANGED vars
  BY <1>5, <1>6 DEF Age, OfHub, outside, vars
<1>7. ASSUME NEW k \in Socket, TimerFires(k) \/ CheckFinds(k) PROVE OfHub
  BY <1>7 DEF TimerFires, CheckFinds
<1> QED
  BY <1>2, <1>3, <1>4, <1>6, <1>7 DEF Next

\* What the sessions of Logins are made of.
LEMMA LastingTyped ==
  ASSUME IInv
  PROVE  /\ Len(origin) \in Nat /\ 1..Len(origin) \subseteq SessionId
         /\ Lasting \in Seq([flow: Flow, browser: Browser, account: Account \cup {NoAccount}])
         /\ Len(Lasting) = Len(origin) /\ DOMAIN Lasting = 1..Len(origin)
<1>1. Len(origin) \in Nat /\ Len(origin) <= MaxSession
  BY DEF IInv, TypeOK
<1>2. 1..Len(origin) \subseteq SessionId
  BY <1>1, BoundAssumption DEF SessionId
<1> DEFINE S == [flow: Flow, browser: Browser, account: Account \cup {NoAccount}]
<1>3. ASSUME NEW s \in 1..Len(origin) PROVE Lasting[s] \in S
  <2> DEFINE T == [flow: Flow, browser: Browser]
  <2>0. origin \in Seq(T)
    BY DEF IInv, TypeOK
  <2>1. origin[s] \in T
    <3> HIDE DEF T
    <3> QED
      BY <2>0
  <2>2. sessions[s] \in Account \cup {NoAccount}
    BY <1>2 DEF IInv, TypeOK
  <2> QED
    BY <2>1, <2>2 DEF Lasting
<1>4. Lasting \in [1..Len(origin) -> S]
  BY <1>3 DEF Lasting
<1>5. Lasting \in Seq(S) /\ Len(Lasting) = Len(origin) /\ DOMAIN Lasting = 1..Len(origin)
  <2> HIDE DEF S
  <2> QED
    BY <1>1, <1>4
<1> QED
  BY <1>1, <1>2, <1>5

\* Nothing has happened to the sessions that last.
LEMMA LastingSame ==
  ASSUME IInv, UNCHANGED <<origin, expired>>,
         \A s \in SessionId : sessions'[s] = sessions[s] \/ (s \in expired /\ sessions'[s] = NoAccount)
  PROVE  Lasting' = Lasting
<1>1. \A s \in SessionId : Live(s)' = Live(s) /\ (Live(s) => sessions'[s] = sessions[s])
  BY DEF Live
<1> QED
  BY <1>1, LastingTyped DEF Lasting

\* One of them has ended, or it had ended before.
LEMMA LastingEnds ==
  ASSUME IInv, Numbered, NEW s \in SessionId, ~Live(s)', UNCHANGED <<begun, consent, origin>>,
         \A t \in SessionId : t # s => Live(t)' = Live(t) /\ sessions'[t] = sessions[t]
  PROVE  Sign!LoginNext \/ Lasting' = Lasting
<1>1. CASE Live(s)
  <2>1. s \in 1..Len(origin)
    BY <1>1 DEF Live, Numbered
  <2>2. Lasting' = [Lasting EXCEPT ![s].account = NoAccount]
    BY <2>1, LastingTyped DEF Lasting
  <2> QED
    BY <2>1, <2>2, LastingTyped DEF Sign!LoginNext, Sign!End
<1>2. CASE ~Live(s)
  BY <1>2, LastingTyped DEF Lasting
<1> QED
  BY <1>1, <1>2

LEMMA InsertEarns ==
  ASSUME IInv, Codes, Numbered, NEW f \in 1..Len(begun), ~From(f), consent[f] # NoAccount,
         Len(origin) + 1 <= MaxSession, UNCHANGED <<begun, consent, expired>>,
         sessions' = [sessions EXCEPT ![Len(origin) + 1] = consent[f]],
         origin' = Append(origin, [flow |-> f, browser |-> begun[f]])
  PROVE  Sign!Earn(f) /\ f \in Flow
<1> DEFINE e == [flow |-> f, browser |-> begun[f], account |-> consent[f]]
<1>0. PICK s \in SessionId : s = Len(origin) + 1
  BY BoundAssumption DEF IInv, TypeOK, SessionId
<1>1. /\ Len(origin) \in Nat /\ DOMAIN begun = 1..Len(begun)
      /\ f \in Flow /\ begun[f] \in Browser /\ consent[f] \in Account
  BY BoundAssumption DEF IInv, TypeOK, Flow
<1>2. /\ Len(origin') = s /\ origin'[s] = [flow |-> f, browser |-> begun[f]]
      /\ \A t \in 1..Len(origin) : origin'[t] = origin[t]
  BY <1>0, <1>1 DEF IInv, TypeOK
<1>3. Live(s)' /\ sessions'[s] = consent[f]
  <2>1. sessions'[s] = consent[f]
    BY <1>0, <1>1 DEF IInv, TypeOK
  <2>2. s \notin expired'
    BY <1>0, <1>1 DEF Numbered
  <2> QED
    BY <1>0, <1>1, <2>1, <2>2 DEF Live, None
<1>4. \A t \in 1..Len(origin) : Live(t)' = Live(t) /\ sessions'[t] = sessions[t]
  BY <1>0, <1>1 DEF Live, IInv, TypeOK
<1>5. Lasting' = Append(Lasting, e)
  <2>1. Append(Lasting, e) = [t \in 1..s |-> IF t = s THEN e ELSE Lasting[t]]
    BY <1>0, <1>1, LastingTyped
  <2>2. Lasting' = [t \in 1..s |-> [flow |-> origin'[t].flow, browser |-> origin'[t].browser,
                                   account |-> IF Live(t)' THEN sessions'[t] ELSE NoAccount]]
    BY <1>0, <1>2 DEF Lasting
  <2>3. ASSUME NEW t \in 1..s
        PROVE  [flow |-> origin'[t].flow, browser |-> origin'[t].browser,
                account |-> IF Live(t)' THEN sessions'[t] ELSE NoAccount] = IF t = s THEN e ELSE Lasting[t]
    <3>1. CASE t = s
      <4>1. origin'[t].flow = f /\ origin'[t].browser = begun[f]
        BY <1>2, <3>1
      <4>2. Live(t)' /\ sessions'[t] = consent[f]
        BY <1>3, <3>1
      <4> QED
        BY <3>1, <4>1, <4>2
    <3>2. CASE t # s
      <4>1. t \in 1..Len(origin)
        BY <1>0, <1>1, <3>2
      <4> QED
        BY <1>2, <1>4, <3>2, <4>1 DEF Lasting
    <3> QED
      BY <3>1, <3>2
  <2> QED
    BY <2>1, <2>2, <2>3
<1>6. ~Sign!Spent(f)
  BY LastingTyped DEF Sign!Spent, From, Lasting
<1> QED
  BY <1>0, <1>1, <1>5, <1>6, LastingTyped DEF Sign!Earn, Sign!Chosen

LEMMA LoginsStep ==
  ASSUME IInv, Codes, Numbered, [Next]_vars
  PROVE  [Sign!LoginNext]_Sign!loginVars
<1>1. CASE UNCHANGED OfLogins
  BY <1>1, LastingSame DEF OfLogins, Sign!loginVars
<1>2. ASSUME NEW r \in Request, NEW b \in Browser, NEW f \in Flow, NEW g \in Flow \cup {None}, Return(r, b, f, g)
      PROVE  [Sign!LoginNext]_Sign!loginVars
  <2>1. Lasting' = Lasting /\ begun' = begun
    BY <1>2, ReturnDoes, LastingSame
  <2>2. CASE UNCHANGED consent
    BY <2>1, <2>2 DEF Sign!loginVars
  <2>3. CASE ~UNCHANGED consent
    <3>1. PICK a \in Account : /\ g \in 1..Len(begun) /\ consent[g] = NoAccount
                              /\ consent' = [consent EXCEPT ![g] = a]
      BY <1>2, <2>3, ReturnDoes
    <3>2. DOMAIN begun = 1..Len(begun) /\ g \in Flow
      BY <3>1, BoundAssumption DEF IInv, TypeOK, Flow
    <3>3. Sign!Choose(g, a)
      BY <2>1, <3>1, <3>2 DEF Sign!Choose, Sign!Chosen
    <3> QED
      BY <3>2, <3>3 DEF Sign!LoginNext
  <2> QED
    BY <2>2, <2>3
<1>3. ASSUME NEW r \in Request, HandleLogin(r) \/ Begin(r) PROVE [Sign!LoginNext]_Sign!loginVars
  <2>1. Lasting' = Lasting /\ consent' = consent
    BY <1>3, HandleLoginDoes, LastingSame
  <2>2. CASE begun' = Append(begun, request[r].browser) /\ Len(begun) + 1 <= MaxFlow
    <3>1. Len(begun) + 1 \in Flow /\ request[r].browser \in Browser
      BY <1>3, <2>2, HandleLoginDoes, MessageTyped DEF IInv, TypeOK, Flow, HandleLogin, Begin, Working, Message
    <3> QED
      BY <2>1, <2>2, <3>1 DEF Sign!LoginNext, Sign!Begin
  <2> QED
    BY <1>3, <2>1, <2>2, HandleLoginDoes DEF Sign!loginVars
<1>4. ASSUME NEW r \in Request, Rotate(r) \/ HandleLogout(r) PROVE [Sign!LoginNext]_Sign!loginVars
  <2>1. UNCHANGED <<begun, consent, origin, expired>>
    BY <1>4, RevokesOne
  <2>2. CASE UNCHANGED sessions
    BY <2>1, <2>2, LastingSame DEF Sign!loginVars
  <2>3. CASE ~UNCHANGED sessions
    <3>1. \A s \in SessionId : sessions'[s] = IF s = request[r].cookie THEN NoAccount ELSE sessions[s]
      BY <1>4, <2>3, RevokesOne
    <3>2. CASE request[r].cookie \in SessionId
      BY <2>1, <3>1, <3>2, LastingEnds DEF Live, Sign!loginVars
    <3>3. CASE request[r].cookie \notin SessionId
      BY <2>1, <3>1, <3>3, LastingSame DEF Sign!loginVars
    <3> QED
      BY <3>2, <3>3
  <2> QED
    BY <2>2, <2>3
<1>5. ASSUME NEW r \in Request, Insert(r) PROVE [Sign!LoginNext]_Sign!loginVars
  <2>1. CASE UNCHANGED <<sessions, origin>>
    BY <1>5, <2>1, InsertDoes, LastingSame DEF Sign!loginVars
  <2>2. CASE ~UNCHANGED <<sessions, origin>>
    BY <1>5, <2>2, InsertDoes, InsertEarns DEF Sign!LoginNext
  <2> QED
    BY <2>1, <2>2
<1>6. CASE Age
  <2>1. UNCHANGED <<begun, consent, origin, sessions>>
    BY <1>6 DEF Age, tables
  <2>2. CASE UNCHANGED expired
    BY <2>1, <2>2, LastingSame DEF Sign!loginVars
  <2>3. CASE ~UNCHANGED expired
    <3>1. PICK s \in SessionId : expired' = expired \cup {s}
      BY <1>6, <2>3 DEF Age
    <3> QED
      BY <2>1, <3>1, LastingEnds DEF Live, Sign!loginVars
  <2> QED
    BY <2>2, <2>3
<1> QED
  BY <1>1, <1>2, <1>3, <1>4, <1>5, <1>6, NextSigns

-----------------------------------------------------------------------------
(* Theorems *)

THEOREM Invariance == Spec => []IInv
  BY InitInv, NextInv, PTL DEF Spec

\* Tables, cookies, requests and sockets keep their types (oauth.go,
\* websocket.go).
THEOREM TypeCorrect == Spec => []TypeOK
<1>1. IInv => TypeOK
  BY DEF IInv
<1> QED
  BY <1>1, Invariance, PTL

\* No broadcast and no handler sends on the channel of a socket that has left
\* (Hub.broadcast, Hub.unregister and serveWebSocket in websocket.go).
THEOREM ChannelsAreOpen == Spec => []NoSendOnClosed
<1>1. IInv => NoSendOnClosed
  BY DEF IInv, TypeOK, HubTypeOK, ChannelsOpen, Handling, NoSendOnClosed
<1> QED
  BY <1>1, Invariance, PTL

\* Whatever requests cross, fail or are repeated, a session comes from one
\* login, of its own browser, for the account chosen for it (callbackHandler in
\* oauth.go).
THEOREM EverySessionIsEarned == Spec => []SessionsAreEarned
<1>1. IInv => SessionsAreEarned
  BY DEF IInv, Earned
<1> QED
  BY <1>1, Invariance, PTL

\* Answers of callbacks, requests and logouts that come late or out of order
\* take a live session's cookie only if they have a reason (protect and
\* callbackHandler in oauth.go).
THEOREM ClearsAreJustified == Spec => []ClearsAreDue
<1>1. Init => Cleared
  BY DEF Init, Cleared, None
<1>2. IInv /\ Cleared => ClearsAreDue
  <2> SUFFICES ASSUME IInv, Cleared, NEW r \in Request, request[r].pc = "answer",
                      request[r].setSession = None, Live(sessionCookie[request[r].browser])
               PROVE  request[r].kind = "logout" \/ request[r].cookie # sessionCookie[request[r].browser]
                      \/ failures > 0
    BY DEF ClearsAreDue
  <2>1. Due(r)
    BY DEF Cleared, Idle
  <2> QED
    BY <2>1 DEF Due
<1> QED
  BY <1>1, <1>2, ClearedNext, Invariance, PTL DEF Spec

\* Sign-in with all its requests, cookies, answers and failures earns sessions
\* as Logins says: one for a login, for the browser that began it, until it ends
\* for good (oauth.go).
THEOREM SessionsImplementLogins == Spec => ImplementsLogins
<1>1. Init => Codes /\ Numbered /\ Sign!LoginInit
  BY BoundAssumption DEF Init, Codes, Numbered, Lasting, Sign!LoginInit
<1>2. IInv /\ IInv' /\ Codes /\ Numbered /\ [Next]_vars => Codes' /\ Numbered'
  BY CodesNext, NumberedNext
<1>3. IInv /\ Codes /\ Numbered /\ [Next]_vars => [Sign!LoginNext]_Sign!loginVars
  BY LoginsStep
<1> QED
  BY <1>1, <1>2, <1>3, Invariance, PTL DEF Spec, ImplementsLogins, Sign!LoginSpec

=============================================================================

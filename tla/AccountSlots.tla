---------------------------- MODULE AccountSlots ----------------------------
(***************************************************************************)
(* Account environments of the 386GPT backend: src/backend/accounts.go.    *)
(*                                                                         *)
(* Each verified identity has a slot with a server of its own.  A          *)
(* goroutine has the environment provisioned, opens the store, starts the  *)
(* server and publishes it in the slot; only publishing, and deciding to   *)
(* start, hold the manager's mutex.  One identity of the owner takes the   *)
(* store from before there were accounts.                                  *)
(*                                                                         *)
(* What holds the mutex is one action.  The provisioner is external: it    *)
(* answers with the connection of the account's gateway, or fails.         *)
(***************************************************************************)
EXTENDS Integers, FiniteSets

CONSTANTS
    Account,    \* verified identities
    Owners,     \* those that are a user with the owner's email address
    Goroutine,  \* provisioning goroutines
    MaxConn,    \* bound: gateway connections of an account
    Limits      \* bound: how often each event of Event may happen

Event == {"signIn", "change", "crash"}

ASSUME OwnersAssumption == Owners \subseteq Account
ASSUME BoundAssumption  == MaxConn \in Nat \ {0} /\ Limits \in [Event -> Nat]

Conn == 1..MaxConn

\* app: the connection of the published server, 0 if there is none; wait: the
\* time of the next attempt has not come.
Slot == [legacy: BOOLEAN, app: 0..MaxConn, starting: BOOLEAN, err: BOOLEAN,
         wait: BOOLEAN, refresh: Nat \ {0}, checked: Nat]
NoSlot == [refresh |-> 0]

\* Locals of a goroutine; app: the server it is going to publish.
Job == [pc: {"provision", "publish"}, account: Account, revision: Nat,
        existing: 0..MaxConn, app: 0..MaxConn, err: BOOLEAN]
Idle == [pc |-> "idle"]

VARIABLES
    phase,      \* of the process: down, booting, up, closing, closed
    accounts,   \* table accounts: absent, own, or registry (legacy = 1)
    slots,      \* m.slots
    goroutine,  \* the goroutines of m.wg
    servers,    \* how many servers of an account are open
    connection, \* what the provisioner answers for an account
    proven,     \* history: accounts whose environment was asked for, and
                \*   published, since their last sign-in
    stale,      \* history: goroutines that asked before the last sign-in
    budget      \* events that may still happen

vars == <<phase, accounts, slots, goroutine, servers, connection, proven, stale, budget>>

Live      == phase \in {"up", "closing", "closed"}
Cancelled == phase \in {"closing", "closed"}

Spend(kind) == budget[kind] > 0 /\ budget' = [budget EXCEPT ![kind] = @ - 1]

Init ==
    /\ phase = "up"
    /\ accounts = [a \in Account |-> "absent"]
    /\ slots = [a \in Account |-> NoSlot]
    /\ goroutine = [g \in Goroutine |-> Idle]
    /\ servers = [a \in Account |-> 0]
    /\ connection = [a \in Account |-> 1]
    /\ proven = {} /\ stale = {}
    /\ budget = Limits

----------------------------------------------------------------------------
(* Slots and the decision to start *)

(* Definitions whose name ends in Variant are not part of the model: each is *)
(* what a mistake in the code it stands beside would make of it, and the     *)
(* properties are checked to tell it from the original.                      *)

UpToDateVariant(s) == s.app # 0
UpToDate(s) == s.app # 0 /\ s.checked = s.refresh

StartRefusedVariant(s) == UpToDate(s) \/ Cancelled \/ s.wait
StartRefused(s) == s.starting \/ UpToDate(s) \/ Cancelled \/ s.wait

NewJob(a, s) == [pc |-> "provision", account |-> a, revision |-> s.refresh,
                 existing |-> s.app, app |-> 0, err |-> FALSE]

\* start: s is the slot as its caller leaves it.
Start(a, s) ==
    IF StartRefused(s)
    THEN /\ slots' = [slots EXCEPT ![a] = s]
         /\ UNCHANGED goroutine
    ELSE \E g \in Goroutine :
         /\ goroutine[g] = Idle
         /\ goroutine' = [goroutine EXCEPT ![g] = NewJob(a, s)]
         /\ slots' = [slots EXCEPT ![a] = [s EXCEPT !.starting = TRUE]]

\* The first identity of the owner claims the store from before accounts.
ClaimsVariant(a) == a \in Owners
Claims(a) == a \in Owners /\ \A b \in Account : accounts[b] # "registry"

NewSlot(legacy) == [legacy |-> legacy, app |-> 0, starting |-> FALSE, err |-> FALSE,
                    wait |-> FALSE, refresh |-> 1, checked |-> 0]

\* slot: the binding is stored before the slot exists.
SlotOf(a) == IF slots[a] = NoSlot THEN NewSlot(Claims(a)) ELSE slots[a]
Remember(a) ==
    /\ slots[a] = NoSlot => accounts[a] = "absent"
    /\ accounts' = IF slots[a] = NoSlot
                   THEN [accounts EXCEPT ![a] = IF Claims(a) THEN "registry" ELSE "own"]
                   ELSE accounts

\* ServeHTTP: it hands the request on if the slot is Ready.
Request(a) ==
    /\ Live
    /\ Remember(a) /\ Start(a, SlotOf(a))
    /\ UNCHANGED <<phase, servers, connection, proven, stale, budget>>

Ready(a) ==
    /\ slots[a] # NoSlot /\ slots[a].app # 0
    /\ ~slots[a].starting /\ ~slots[a].err /\ slots[a].checked = slots[a].refresh

\* signedIn
SignIn(a) ==
    /\ Live /\ Spend("signIn")
    /\ Remember(a)
    /\ Start(a, [SlotOf(a) EXCEPT !.refresh = @ + 1, !.wait = FALSE])
    /\ proven' = proven \ {a}
    /\ stale' = stale \cup {g \in Goroutine : goroutine[g] # Idle /\ goroutine[g].account = a}
    /\ UNCHANGED <<phase, servers, connection>>

RetryElapses(a) ==
    /\ slots[a] # NoSlot /\ slots[a].wait
    /\ slots' = [slots EXCEPT ![a].wait = FALSE]
    /\ UNCHANGED <<phase, accounts, goroutine, servers, connection, proven, stale, budget>>

----------------------------------------------------------------------------
(* The goroutine *)

ServerConn(a) == IF accounts[a] = "registry" THEN 1 ELSE connection[a]

\* The environment is prepared, with the connection a running server has; a
\* first server is opened and recovers its runs.
Provisioned(g) ==
    LET j == goroutine[g]
        a == j.account
    IN /\ j.pc = "provision"
       /\ j.existing \in {0, ServerConn(a)}
       /\ goroutine' = [goroutine EXCEPT ![g].pc = "publish", ![g].app = ServerConn(a)]
       /\ servers' = IF j.existing = 0 THEN [servers EXCEPT ![a] = @ + 1] ELSE servers
       /\ UNCHANGED <<phase, accounts, slots, connection, proven, stale, budget>>

\* The provisioner fails, its answer names another connection, or the store
\* cannot be opened.
ProvisionFailed(g) ==
    /\ goroutine[g].pc = "provision"
    /\ goroutine' = [goroutine EXCEPT ![g].pc = "publish", ![g].err = TRUE]
    /\ UNCHANGED <<phase, accounts, slots, servers, connection, proven, stale, budget>>

CheckedAtVariant(g) == slots[goroutine[g].account].refresh
CheckedAt(g) == goroutine[g].revision

\* The end of the goroutine, under the mutex, which recover holds while it
\* starts all slots.
Publish(g) ==
    LET j == goroutine[g]
        s == slots[j.account]
    IN /\ j.pc = "publish" /\ phase # "booting"
       /\ slots' = [slots EXCEPT ![j.account] =
             IF j.err THEN [s EXCEPT !.starting = FALSE, !.err = TRUE, !.wait = TRUE]
             ELSE [s EXCEPT !.starting = FALSE, !.err = FALSE, !.wait = FALSE,
                            !.checked = CheckedAt(g), !.app = j.app]]
       /\ proven' = IF j.err \/ g \in stale THEN proven ELSE proven \cup {j.account}
       /\ goroutine' = [goroutine EXCEPT ![g] = Idle]
       /\ stale' = stale \ {g}
       /\ UNCHANGED <<phase, accounts, servers, connection, budget>>

\* The gateway of an account is moved to another address or key.
ConnectionChanges(a) ==
    /\ connection[a] < MaxConn /\ Spend("change")
    /\ connection' = [connection EXCEPT ![a] = @ + 1]
    /\ UNCHANGED <<phase, accounts, slots, goroutine, servers, proven, stale>>

----------------------------------------------------------------------------
(* close, crash and start of the process *)

CloseCancel ==
    /\ phase = "up" /\ phase' = "closing"
    /\ UNCHANGED <<accounts, slots, goroutine, servers, connection, proven, stale, budget>>

WorkersDoneVariant == TRUE
WorkersDone == \A g \in Goroutine : goroutine[g] = Idle

HasServer(a) == slots[a] # NoSlot /\ slots[a].app # 0

CloseServers ==
    /\ phase = "closing" /\ WorkersDone
    /\ phase' = "closed"
    /\ servers' = [a \in Account |-> IF HasServer(a) THEN servers[a] - 1 ELSE servers[a]]
    /\ UNCHANGED <<accounts, slots, goroutine, connection, proven, stale, budget>>

\* What the process holds in memory ends with it.
LoseMemory ==
    /\ phase' = "down"
    /\ slots' = [a \in Account |-> NoSlot]
    /\ goroutine' = [g \in Goroutine |-> Idle]
    /\ servers' = [a \in Account |-> 0]
    /\ proven' = {} /\ stale' = {}
    /\ UNCHANGED <<accounts, connection>>

Leave == phase = "closed" /\ LoseMemory /\ UNCHANGED budget

Crash == phase # "down" /\ Spend("crash") /\ LoseMemory

\* newAccountManager
Boot ==
    /\ phase = "down" /\ phase' = "booting"
    /\ slots' = [a \in Account |-> IF accounts[a] = "absent" THEN NoSlot
                                   ELSE NewSlot(accounts[a] = "registry")]
    /\ UNCHANGED <<accounts, goroutine, servers, connection, proven, stale, budget>>

\* recover
RecoverSlot(a) ==
    /\ phase = "booting" /\ slots[a] # NoSlot /\ ~slots[a].starting
    /\ Start(a, slots[a])
    /\ UNCHANGED <<phase, accounts, servers, connection, proven, stale, budget>>

RecoverDone ==
    /\ phase = "booting" /\ \A a \in Account : slots[a] # NoSlot => slots[a].starting
    /\ phase' = "up"
    /\ UNCHANGED <<accounts, slots, goroutine, servers, connection, proven, stale, budget>>

----------------------------------------------------------------------------
AccountStep(a) ==
    \/ Request(a) \/ SignIn(a) \/ RetryElapses(a)
    \/ ConnectionChanges(a) \/ RecoverSlot(a)

GoroutineStep(g) == Provisioned(g) \/ ProvisionFailed(g) \/ Publish(g)

ProcessStep == CloseCancel \/ CloseServers \/ Leave \/ Crash \/ Boot \/ RecoverDone

Next ==
    \/ \E a \in Account : AccountStep(a)
    \/ \E g \in Goroutine : GoroutineStep(g)
    \/ ProcessStep

Spec == Init /\ [][Next]_vars

----------------------------------------------------------------------------
(* Properties *)

\* Every variable has the shape the Go types and the table give it.
TypeOK ==
    /\ phase \in {"down", "booting", "up", "closing", "closed"}
    /\ accounts \in [Account -> {"absent", "own", "registry"}]
    /\ slots \in [Account -> Slot \cup {NoSlot}]
    /\ goroutine \in [Goroutine -> Job \cup {Idle}]
    /\ servers \in [Account -> Nat]
    /\ connection \in [Account -> Conn]
    /\ proven \subseteq Account /\ stale \subseteq Goroutine
    /\ budget \in [Event -> Nat]

Publishes(g, a) ==
    /\ goroutine[g].pc = "publish" /\ goroutine[g].account = a
    /\ goroutine[g].app # 0 /\ goroutine[g].existing = 0

\* An account has at most one open server, and the manager knows it: it is in
\* the slot, or a goroutine is about to put it there.  A second server would
\* recover and follow the runs of the same store again; a server nobody
\* knows would never be closed.
ServersAccounted ==
    phase # "closed" => \A a \in Account :
        /\ servers[a] \in {0, 1}
        /\ servers[a] = 1 <=> HasServer(a) \/ \E g \in Goroutine : Publishes(g, a)

\* Histories stay apart: at most one account, one of the owner's, ever has
\* the store from before accounts, before and after restarts, and a slot uses
\* the store its row names ("later identities cannot claim it").
StoresApart ==
    /\ \A a, b \in Account : accounts[a] = "registry" /\ accounts[b] = "registry" => a = b
    /\ \A a \in Account : accounts[a] = "registry" => a \in Owners
    /\ \A a \in Account : slots[a] # NoSlot => accounts[a] = IF slots[a].legacy THEN "registry" ELSE "own"

\* No request is served by an environment that was last asked for before the
\* account's latest sign-in, however sign-ins and goroutines overlap ("A
\* second login during an update must not be lost behind the cached result").
ReadyIsProven == \A a \in Account : Ready(a) => a \in proven

\* When close returns every server is closed and no goroutine can open or
\* publish another.
CloseLeavesNothing ==
    phase = "closed" => /\ \A a \in Account : servers[a] = 0
                        /\ \A g \in Goroutine : goroutine[g] = Idle

=============================================================================

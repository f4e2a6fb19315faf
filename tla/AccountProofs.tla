--------------------------- MODULE AccountProofs ---------------------------
(***************************************************************************)
(* Theorems about AccountSlots, for every value of its constants, and about *)
(* the same accounts behind AccountGate.  The inductive invariant says what *)
(* ties a goroutine to the slot it works for: it is the only one, it knows *)
(* the slot's server, and how old its question to the provisioner is.      *)
(***************************************************************************)
EXTENDS AccountGate, TLAPS

Works(g, a) == goroutine[g] # Idle /\ goroutine[g].account = a

\* A goroutine and its slot.
Jobs ==
    /\ \A g \in stale : goroutine[g] # Idle
    /\ \A g \in Goroutine : goroutine[g] # Idle =>
          LET j == goroutine[g]
              s == slots[j.account]
          IN /\ s # NoSlot /\ s.starting
             /\ j.existing = s.app
             /\ j.revision <= s.refresh
             /\ g \in stale => j.revision < s.refresh
             /\ j.pc = "provision" => j.app = 0 /\ ~j.err
             /\ j.pc = "publish" => (j.err <=> j.app = 0)
    /\ \A f, g \in Goroutine : goroutine[f] # Idle /\ goroutine[g] # Idle
                                /\ goroutine[f].account = goroutine[g].account => f = g

\* A check that counts as the latest answered a question asked since the
\* last sign-in.
Checks ==
    \A a \in Account : slots[a] # NoSlot =>
        /\ slots[a].checked <= slots[a].refresh
        /\ slots[a].checked = slots[a].refresh => a \in proven

\* What the process remembers in each phase.
Phases ==
    /\ phase = "down" => /\ \A a \in Account : slots[a] = NoSlot
                         /\ \A g \in Goroutine : goroutine[g] = Idle
    /\ phase # "down" => \A a \in Account : slots[a] = NoSlot <=> accounts[a] = "absent"

IInv == /\ TypeOK /\ Jobs /\ Checks /\ Phases
        /\ ServersAccounted /\ StoresApart /\ CloseLeavesNothing

-----------------------------------------------------------------------------
(* Types *)

LEMMA InitTyped == Init => TypeOK
  BY BoundAssumption DEF Init, TypeOK, Conn

LEMMA SlotTyped ==
  ASSUME TypeOK, NEW a \in Account
  PROVE  /\ slots[a] # NoSlot <=> slots[a] \in Slot
         /\ SlotOf(a) \in Slot
  BY BoundAssumption DEF TypeOK, SlotOf, NewSlot, Slot, NoSlot, Claims

LEMMA JobTyped ==
  ASSUME TypeOK, NEW g \in Goroutine
  PROVE  /\ goroutine[g] # Idle <=> goroutine[g] \in Job
         /\ goroutine[g].pc \in {"provision", "publish"} => goroutine[g] # Idle
  BY DEF TypeOK, Job, Idle

LEMMA ConnTyped ==
  ASSUME TypeOK, NEW a \in Account
  PROVE  ServerConn(a) \in Conn /\ ServerConn(a) \in 0..MaxConn /\ ServerConn(a) # 0
  BY BoundAssumption DEF TypeOK, ServerConn, Conn

\* The changes the code makes to a slot keep it a slot.
LEMMA SlotEdits ==
  ASSUME NEW s \in Slot
  PROVE  /\ [s EXCEPT !.starting = TRUE] \in Slot
         /\ [s EXCEPT !.wait = FALSE] \in Slot
         /\ [s EXCEPT !.refresh = @ + 1, !.wait = FALSE] \in Slot
         /\ [s EXCEPT !.starting = FALSE, !.err = TRUE, !.wait = TRUE] \in Slot
<1>1. [s EXCEPT !.starting = TRUE] \in Slot
  BY DEF Slot
<1>2. [s EXCEPT !.wait = FALSE] \in Slot
  BY DEF Slot
<1>3. [s EXCEPT !.refresh = @ + 1, !.wait = FALSE] \in Slot
  <2>1. s.refresh + 1 \in Nat \ {0}
    BY DEF Slot
  <2> QED
    BY <2>1 DEF Slot
<1>4. [s EXCEPT !.starting = FALSE, !.err = TRUE, !.wait = TRUE] \in Slot
  BY DEF Slot
<1> QED
  BY <1>1, <1>2, <1>3, <1>4

LEMMA SlotPublished ==
  ASSUME NEW s \in Slot, NEW app \in 0..MaxConn, NEW revision \in Nat
  PROVE  [s EXCEPT !.starting = FALSE, !.err = FALSE, !.wait = FALSE,
                   !.checked = revision, !.app = app] \in Slot
  BY DEF Slot

\* The changes to a goroutine keep it one.
LEMMA JobEdits ==
  ASSUME NEW j \in Job, NEW app \in 0..MaxConn
  PROVE  /\ [j EXCEPT !.pc = "publish", !.app = app] \in Job
         /\ [j EXCEPT !.pc = "publish", !.err = TRUE] \in Job
<1>1. [j EXCEPT !.pc = "publish", !.app = app] \in Job
  BY DEF Job
<1>2. [j EXCEPT !.pc = "publish", !.err = TRUE] \in Job
  BY DEF Job
<1> QED
  BY <1>1, <1>2

LEMMA NewJobTyped ==
  ASSUME NEW s \in Slot, NEW a \in Account
  PROVE  NewJob(a, s) \in Job
  BY BoundAssumption DEF Job, Slot, NewJob

LEMMA NewSlotTyped ==
  ASSUME NEW legacy \in BOOLEAN
  PROVE  NewSlot(legacy) \in Slot /\ ~NewSlot(legacy).starting
  BY BoundAssumption DEF Slot, NewSlot

\* What start does to the slot and the goroutines.
LEMMA StartEffect ==
  ASSUME TypeOK, NEW a \in Account, NEW s \in Slot, Start(a, s)
  PROVE  /\ slots' \in [Account -> Slot \cup {NoSlot}]
         /\ goroutine' \in [Goroutine -> Job \cup {Idle}]
         /\ \A b \in Account \ {a} : slots'[b] = slots[b]
         /\ \/ slots'[a] = s /\ goroutine' = goroutine
            \/ /\ ~s.starting /\ ~Cancelled /\ ~UpToDate(s)
               /\ slots'[a] = [s EXCEPT !.starting = TRUE]
               /\ \E g \in Goroutine :
                     /\ goroutine[g] = Idle /\ goroutine'[g] = NewJob(a, s)
                     /\ \A f \in Goroutine \ {g} : goroutine'[f] = goroutine[f]
<1>1. CASE StartRefused(s)
  BY <1>1 DEF Start, TypeOK
<1>2. CASE ~StartRefused(s)
  <2>1. PICK g \in Goroutine :
          /\ goroutine[g] = Idle
          /\ goroutine' = [goroutine EXCEPT ![g] = NewJob(a, s)]
          /\ slots' = [slots EXCEPT ![a] = [s EXCEPT !.starting = TRUE]]
    BY <1>2 DEF Start
  <2>2. NewJob(a, s) \in Job
    BY NewJobTyped
  <2>3. [s EXCEPT !.starting = TRUE] \in Slot
    BY SlotEdits
  <2> QED
    BY <1>2, <2>1, <2>2, <2>3 DEF TypeOK, StartRefused
<1> QED
  BY <1>1, <1>2

LEMMA StepTyped ==
  ASSUME IInv, [Next]_vars
  PROVE  TypeOK'
<1> USE DEF IInv
<1>1. ASSUME NEW a \in Account, Request(a) PROVE TypeOK'
  <2>1. SlotOf(a) \in Slot /\ Start(a, SlotOf(a))
    BY <1>1, SlotTyped DEF Request
  <2> QED
    BY <1>1, <2>1, StartEffect DEF Request, Remember, TypeOK
<1>2. ASSUME NEW a \in Account, SignIn(a) PROVE TypeOK'
  <2> DEFINE s == [SlotOf(a) EXCEPT !.refresh = @ + 1, !.wait = FALSE]
  <2>1. s \in Slot
    BY SlotTyped, SlotEdits
  <2>2. Start(a, s)
    BY <1>2 DEF SignIn
  <2> HIDE DEF s
  <2>3. slots' \in [Account -> Slot \cup {NoSlot}] /\ goroutine' \in [Goroutine -> Job \cup {Idle}]
    BY <2>1, <2>2, StartEffect
  <2> QED
    BY <1>2, <2>3 DEF SignIn, Remember, Spend, Event, TypeOK
<1>3. ASSUME NEW a \in Account, RetryElapses(a) PROVE TypeOK'
  <2>1. [slots[a] EXCEPT !.wait = FALSE] \in Slot
    BY <1>3, SlotTyped, SlotEdits DEF RetryElapses
  <2> QED
    BY <1>3, <2>1 DEF RetryElapses, TypeOK
<1>4. ASSUME NEW a \in Account, ConnectionChanges(a) PROVE TypeOK'
  BY <1>4, BoundAssumption DEF ConnectionChanges, Spend, Event, Conn, TypeOK
<1>5. ASSUME NEW a \in Account, RecoverSlot(a) PROVE TypeOK'
  <2>1. slots[a] \in Slot /\ Start(a, slots[a])
    BY <1>5, SlotTyped DEF RecoverSlot
  <2> QED
    BY <1>5, <2>1, StartEffect DEF RecoverSlot, TypeOK
<1>6. ASSUME NEW g \in Goroutine, GoroutineStep(g) PROVE TypeOK'
  <2>1. goroutine[g] \in Job
    BY <1>6, JobTyped DEF GoroutineStep, Provisioned, ProvisionFailed, Publish
  <2>2. goroutine[g].account \in Account /\ goroutine[g].app \in 0..MaxConn /\ goroutine[g].revision \in Nat
    BY <2>1 DEF Job
  <2>3. CASE Provisioned(g)
    <3>1. [goroutine[g] EXCEPT !.pc = "publish", !.app = ServerConn(goroutine[g].account)] \in Job
      BY <2>1, <2>2, ConnTyped, JobEdits
    <3> QED
      BY <2>2, <2>3, <3>1 DEF Provisioned, TypeOK
  <2>4. CASE ProvisionFailed(g)
    <3>1. [goroutine[g] EXCEPT !.pc = "publish", !.err = TRUE] \in Job
      BY <2>1, <2>2, JobEdits
    <3> QED
      BY <2>4, <3>1 DEF ProvisionFailed, TypeOK
  <2>5. CASE Publish(g)
    <3> DEFINE a == goroutine[g].account
               lost == [slots[a] EXCEPT !.starting = FALSE, !.err = TRUE, !.wait = TRUE]
               done == [slots[a] EXCEPT !.starting = FALSE, !.err = FALSE, !.wait = FALSE,
                                        !.checked = goroutine[g].revision, !.app = goroutine[g].app]
    <3>1. ASSUME slots[a] \in Slot PROVE lost \in Slot /\ done \in Slot
      BY <2>2, <3>1, SlotEdits, SlotPublished
    <3>2. slots' = [slots EXCEPT ![a] = IF goroutine[g].err THEN lost ELSE done]
      BY <2>5 DEF Publish, CheckedAt
    <3>3. slots[a] \in Slot
      BY <2>2, <2>5, JobTyped, SlotTyped DEF Publish, Jobs
    <3> QED
      BY <2>2, <2>5, <3>1, <3>2, <3>3 DEF Publish, TypeOK
  <2> QED
    BY <1>6, <2>3, <2>4, <2>5 DEF GoroutineStep
<1>7. ASSUME ProcessStep PROVE TypeOK'
  <2>1. CASE CloseCancel \/ RecoverDone
    BY <2>1 DEF CloseCancel, RecoverDone, TypeOK
  <2>2. CASE CloseServers
    <3>1. \A a \in Account : HasServer(a) => servers[a] - 1 \in Nat
      BY <2>2 DEF CloseServers, ServersAccounted
    <3> QED
      BY <2>2, <3>1 DEF CloseServers, TypeOK
  <2>3. CASE Leave \/ Crash
    BY <2>3 DEF Leave, Crash, LoseMemory, Spend, Event, TypeOK
  <2>4. CASE Boot
    <3>1. \A legacy \in BOOLEAN : NewSlot(legacy) \in Slot
      BY NewSlotTyped
    <3> QED
      BY <2>4, <3>1 DEF Boot, TypeOK
  <2> QED
    BY <1>7, <2>1, <2>2, <2>3, <2>4 DEF ProcessStep
<1>8. CASE UNCHANGED vars
  BY <1>8 DEF vars, TypeOK
<1> QED
  BY <1>1, <1>2, <1>3, <1>4, <1>5, <1>6, <1>7, <1>8 DEF Next, AccountStep

-----------------------------------------------------------------------------
(* Actions that end in start: a request, a sign-in, recovery *)

\* What they have in common: the slot differs from the one that is there, or
\* from a new one, at most by a later refresh, which makes what is under way
\* stale.
Begins(a, s) ==
    /\ s \in Slot /\ Start(a, s) /\ Remember(a)
    /\ s.app = SlotOf(a).app /\ s.starting = SlotOf(a).starting
    /\ s.legacy = SlotOf(a).legacy /\ s.checked = SlotOf(a).checked
    /\ \/ s.refresh = SlotOf(a).refresh /\ stale' = stale /\ proven' = proven
       \/ /\ s.refresh = SlotOf(a).refresh + 1
          /\ stale' = stale \cup {g \in Goroutine : goroutine[g] # Idle /\ goroutine[g].account = a}
          /\ proven' = proven \ {a}
    /\ phase # "down" /\ UNCHANGED <<phase, servers>>

LEMMA BeginSlot ==
  ASSUME IInv, NEW a \in Account, NEW s, Begins(a, s)
  PROVE  /\ slots'[a] \in Slot /\ slots'[a] # NoSlot
         /\ slots'[a].app = SlotOf(a).app /\ slots'[a].legacy = SlotOf(a).legacy
         /\ slots'[a].refresh = s.refresh /\ slots'[a].checked = SlotOf(a).checked
         /\ \A b \in Account \ {a} : slots'[b] = slots[b]
         /\ \/ goroutine' = goroutine /\ slots'[a].starting = SlotOf(a).starting
            \/ /\ ~SlotOf(a).starting /\ ~Cancelled /\ slots'[a].starting
               /\ \E g \in Goroutine :
                     /\ goroutine[g] = Idle /\ goroutine'[g] = NewJob(a, s)
                     /\ \A f \in Goroutine \ {g} : goroutine'[f] = goroutine[f]
<1> USE DEF IInv
<1>1. s \in Slot /\ [s EXCEPT !.starting = TRUE] \in Slot
  BY SlotEdits DEF Begins
<1>2. /\ [s EXCEPT !.starting = TRUE].app = s.app
      /\ [s EXCEPT !.starting = TRUE].legacy = s.legacy
      /\ [s EXCEPT !.starting = TRUE].refresh = s.refresh
      /\ [s EXCEPT !.starting = TRUE].checked = s.checked
      /\ [s EXCEPT !.starting = TRUE].starting
  BY <1>1 DEF Slot
<1>3. \A r \in Slot : r # NoSlot
  BY DEF Slot, NoSlot
<1>4. TypeOK /\ Start(a, s)
  BY DEF Begins
<1>5. /\ \A b \in Account \ {a} : slots'[b] = slots[b]
      /\ \/ slots'[a] = s /\ goroutine' = goroutine
         \/ /\ ~s.starting /\ ~Cancelled
            /\ slots'[a] = [s EXCEPT !.starting = TRUE]
            /\ \E g \in Goroutine :
                  /\ goroutine[g] = Idle /\ goroutine'[g] = NewJob(a, s)
                  /\ \A f \in Goroutine \ {g} : goroutine'[f] = goroutine[f]
  BY <1>1, <1>4, StartEffect
<1> QED
  BY <1>1, <1>2, <1>3, <1>5 DEF Begins

\* The slot before, whether it was there or not.
LEMMA OldSlot ==
  ASSUME IInv, NEW a \in Account
  PROVE  /\ slots[a] # NoSlot => SlotOf(a) = slots[a]
         /\ slots[a] = NoSlot => /\ SlotOf(a).app = 0 /\ ~SlotOf(a).starting
                                 /\ SlotOf(a).refresh = 1 /\ SlotOf(a).checked = 0
                                 /\ SlotOf(a).legacy = Claims(a)
         /\ SlotOf(a).refresh \in Nat \ {0} /\ SlotOf(a).checked \in Nat
         /\ SlotOf(a).app \in 0..MaxConn
<1>1. SlotOf(a) \in Slot
  BY SlotTyped DEF IInv
<1>2. SlotOf(a).refresh \in Nat \ {0} /\ SlotOf(a).checked \in Nat /\ SlotOf(a).app \in 0..MaxConn
  BY <1>1 DEF Slot
<1> QED
  BY <1>2 DEF SlotOf, NewSlot

LEMMA BeginJobs ==
  ASSUME IInv, NEW a \in Account, NEW s, Begins(a, s)
  PROVE  Jobs'
<1> USE DEF IInv
<1>1. /\ NewJob(a, s) # Idle /\ NewJob(a, s).account = a /\ NewJob(a, s).pc = "provision"
      /\ NewJob(a, s).app = 0 /\ ~NewJob(a, s).err /\ NewJob(a, s).existing = s.app /\ NewJob(a, s).revision = s.refresh
  BY DEF NewJob, Idle
<1>2. /\ s.app = SlotOf(a).app
      /\ s.refresh \in Nat /\ SlotOf(a).refresh \in Nat /\ SlotOf(a).refresh <= s.refresh
      /\ \A g \in stale' \ stale : goroutine[g] # Idle /\ SlotOf(a).refresh < s.refresh
      /\ stale \subseteq stale' /\ stale' \subseteq Goroutine
      /\ \A g \in Goroutine : g \in stale' \ stale => goroutine[g].account = a
  BY OldSlot DEF Begins, TypeOK
<1>3. ASSUME NEW f \in Goroutine, goroutine[f] # Idle, goroutine'[f] = goroutine[f]
      PROVE  LET j == goroutine'[f]
                 r == slots'[j.account]
             IN /\ r # NoSlot /\ r.starting
                /\ j.existing = r.app
                /\ j.revision <= r.refresh
                /\ f \in stale' => j.revision < r.refresh
                /\ j.pc = "provision" => j.app = 0 /\ ~j.err
                /\ j.pc = "publish" => (j.err <=> j.app = 0)
  <2>1. goroutine[f] \in Job /\ goroutine[f].account \in Account /\ goroutine[f].revision \in Nat
    BY <1>3, JobTyped DEF Job
  <2>2. CASE goroutine[f].account = a
    <3>1. slots[a] # NoSlot /\ slots[a].starting /\ SlotOf(a) = slots[a]
      BY <1>3, <2>2, OldSlot DEF Jobs
    <3>2. slots'[a] # NoSlot /\ slots'[a].starting /\ slots'[a].app = slots[a].app /\ slots'[a].refresh = s.refresh
      BY <3>1, BeginSlot
    <3>3. goroutine[f].revision <= slots[a].refresh /\ (f \in stale => goroutine[f].revision < slots[a].refresh)
      BY <1>3, <2>2 DEF Jobs
    <3> QED
      BY <1>2, <1>3, <2>1, <2>2, <3>1, <3>2, <3>3 DEF Jobs
  <2>3. CASE goroutine[f].account # a
    BY <1>2, <1>3, <2>1, <2>3, BeginSlot DEF Jobs
  <2> QED
    BY <2>2, <2>3
<1>4. CASE goroutine' = goroutine
  BY <1>2, <1>3, <1>4 DEF Jobs
<1>5. ASSUME NEW g \in Goroutine, ~SlotOf(a).starting, slots'[a].starting,
             goroutine[g] = Idle, goroutine'[g] = NewJob(a, s),
             \A f \in Goroutine \ {g} : goroutine'[f] = goroutine[f]
      PROVE  Jobs'
  <2>1. \A f \in Goroutine : goroutine[f] # Idle => goroutine[f].account # a
    BY <1>5, OldSlot DEF Jobs
  <2>2. g \notin stale'
    BY <1>2, <1>5 DEF Jobs
  <2>3. /\ slots'[a] # NoSlot /\ slots'[a].app = s.app /\ slots'[a].refresh = s.refresh
    BY <1>2, BeginSlot
  <2>4. \A f \in stale' : goroutine'[f] # Idle
    BY <1>2, <1>5, <2>2 DEF Jobs
  <2>5. ASSUME NEW e \in Goroutine, NEW f \in Goroutine, goroutine'[e] # Idle, goroutine'[f] # Idle,
               goroutine'[e].account = goroutine'[f].account
        PROVE  e = f
    BY <1>1, <1>5, <2>1, <2>5 DEF Jobs
  <2>6. LET j == goroutine'[g]
            r == slots'[j.account]
        IN /\ r # NoSlot /\ r.starting
           /\ j.existing = r.app
           /\ j.revision <= r.refresh
           /\ g \in stale' => j.revision < r.refresh
           /\ j.pc = "provision" => j.app = 0 /\ ~j.err
           /\ j.pc = "publish" => (j.err <=> j.app = 0)
    BY <1>1, <1>2, <1>5, <2>2, <2>3
  <2> QED
    BY <1>3, <1>5, <2>4, <2>5, <2>6 DEF Jobs
<1> QED
  BY <1>4, <1>5, BeginSlot

LEMMA BeginKeeps ==
  ASSUME IInv, NEW a \in Account, NEW s, Begins(a, s)
  PROVE  Checks' /\ Phases' /\ ServersAccounted' /\ StoresApart' /\ CloseLeavesNothing'
<1> USE DEF IInv
<1>1. Checks'
  <2>1. /\ SlotOf(a).checked <= SlotOf(a).refresh
        /\ SlotOf(a).checked = SlotOf(a).refresh => a \in proven
    BY OldSlot DEF Checks
  <2>2. /\ slots'[a].checked <= slots'[a].refresh
        /\ slots'[a].checked = slots'[a].refresh => a \in proven'
    BY <2>1, OldSlot, BeginSlot DEF Begins
  <2>3. \A b \in Account \ {a} : slots'[b] = slots[b] /\ (b \in proven => b \in proven')
    BY BeginSlot DEF Begins
  <2> QED
    BY <2>2, <2>3 DEF Checks
<1>2. Phases'
  <2>1. phase' = phase /\ phase # "down"
    BY DEF Begins
  <2>2. \A b \in Account \ {a} : slots'[b] = slots[b] /\ accounts'[b] = accounts[b]
    BY BeginSlot DEF Begins, Remember, TypeOK
  <2>3. slots[a] = NoSlot <=> accounts[a] = "absent"
    BY <2>1 DEF Phases
  <2>4. accounts'[a] # "absent" /\ slots'[a] # NoSlot
    BY <2>3, BeginSlot DEF Begins, Remember, TypeOK
  <2> QED
    BY <2>1, <2>2, <2>4 DEF Phases
<1>3. ServersAccounted'
  <2>1. \A b \in Account : HasServer(b)' <=> HasServer(b)
    BY BeginSlot, OldSlot DEF HasServer
  <2>2. \A g \in Goroutine : goroutine'[g] = goroutine[g] \/ (goroutine[g] = Idle /\ goroutine'[g] = NewJob(a, s))
    BY BeginSlot
  <2>3. \A g \in Goroutine, b \in Account : Publishes(g, b)' <=> Publishes(g, b)
    BY <2>2 DEF Publishes, NewJob, Idle
  <2> QED
    BY <2>1, <2>3 DEF ServersAccounted, Begins
<1>4. StoresApart'
  <2>1. \A b \in Account \ {a} : accounts'[b] = accounts[b] /\ slots'[b] = slots[b]
    BY BeginSlot DEF Begins, Remember, TypeOK
  <2>2. accounts'[a] = IF slots[a] = NoSlot THEN IF Claims(a) THEN "registry" ELSE "own" ELSE accounts[a]
    BY DEF Begins, Remember, TypeOK
  <2>3. slots'[a] # NoSlot /\ slots'[a].legacy = SlotOf(a).legacy
    BY BeginSlot
  <2>4. accounts'[a] = IF slots'[a].legacy THEN "registry" ELSE "own"
    BY <2>2, <2>3, OldSlot DEF StoresApart
  <2>5. accounts'[a] = "registry" => a \in Owners /\ \A b \in Account \ {a} : accounts[b] # "registry"
    BY <2>2 DEF Claims, StoresApart
  <2> QED
    BY <2>1, <2>3, <2>4, <2>5 DEF StoresApart
<1>5. CloseLeavesNothing'
  BY BeginSlot DEF CloseLeavesNothing, Begins, Cancelled
<1> QED
  BY <1>1, <1>2, <1>3, <1>4, <1>5

-----------------------------------------------------------------------------
(* Each action keeps the invariant *)

LEMMA RequestKeeps ==
  ASSUME IInv, NEW a \in Account, Request(a) \/ RecoverSlot(a)
  PROVE  IInv'
<1>1. CASE Request(a)
  <2>1. SlotOf(a) \in Slot
    BY SlotTyped DEF IInv
  <2>2. Begins(a, SlotOf(a))
    BY <1>1, <2>1 DEF Begins, Request, Live
  <2>3. TypeOK'
    BY <1>1, StepTyped DEF Next, AccountStep
  <2> QED
    BY <2>2, <2>3, BeginJobs, BeginKeeps DEF IInv
<1>2. CASE RecoverSlot(a)
  <2>1. slots[a] # NoSlot /\ SlotOf(a) = slots[a] /\ slots[a] \in Slot
    BY <1>2, SlotTyped, OldSlot DEF IInv, RecoverSlot
  <2>2. Begins(a, slots[a])
    BY <1>2, <2>1 DEF Begins, RecoverSlot, Remember
  <2>3. TypeOK'
    BY <1>2, StepTyped DEF Next, AccountStep
  <2> QED
    BY <2>2, <2>3, BeginJobs, BeginKeeps DEF IInv
<1> QED
  BY <1>1, <1>2

LEMMA SignInKeeps ==
  ASSUME IInv, NEW a \in Account, SignIn(a)
  PROVE  IInv'
<1> DEFINE s == [SlotOf(a) EXCEPT !.refresh = @ + 1, !.wait = FALSE]
<1>1. SlotOf(a) \in Slot
  BY SlotTyped DEF IInv
<1>2. s \in Slot
  BY <1>1, SlotEdits
<1>3. /\ s.app = SlotOf(a).app /\ s.starting = SlotOf(a).starting /\ s.legacy = SlotOf(a).legacy
      /\ s.checked = SlotOf(a).checked /\ s.refresh = SlotOf(a).refresh + 1
  BY <1>1 DEF Slot
<1>4. Start(a, s)
  BY DEF SignIn
<1> HIDE DEF s
<1>5. Begins(a, s)
  BY <1>2, <1>3, <1>4 DEF Begins, SignIn, Live
<1>6. TypeOK'
  BY StepTyped DEF Next, AccountStep
<1> QED
  BY <1>5, <1>6, BeginJobs, BeginKeeps DEF IInv

\* Waiting says nothing the invariant depends on.
LEMMA RetryElapsesKeeps ==
  ASSUME IInv, NEW a \in Account, RetryElapses(a)
  PROVE  IInv'
<1>1. TypeOK'
  BY StepTyped DEF Next, AccountStep
<1>2. slots[a] \in Slot /\ slots[a] # NoSlot
  BY SlotTyped DEF IInv, RetryElapses
<1>3. /\ slots'[a].app = slots[a].app /\ slots'[a].starting = slots[a].starting
      /\ slots'[a].legacy = slots[a].legacy /\ slots'[a].checked = slots[a].checked
      /\ slots'[a].refresh = slots[a].refresh /\ slots'[a] # NoSlot
  BY <1>2 DEF RetryElapses, Slot, NoSlot, IInv, TypeOK
<1>4. \A b \in Account \ {a} : slots'[b] = slots[b]
  BY DEF RetryElapses, IInv, TypeOK
<1>5. \A b \in Account :
        /\ slots'[b].app = slots[b].app /\ slots'[b].starting = slots[b].starting
        /\ slots'[b].legacy = slots[b].legacy /\ slots'[b].checked = slots[b].checked
        /\ slots'[b].refresh = slots[b].refresh /\ (slots'[b] = NoSlot <=> slots[b] = NoSlot)
  BY <1>2, <1>3, <1>4
<1>6. UNCHANGED <<phase, accounts, goroutine, servers, proven, stale>>
  BY DEF RetryElapses
<1>7. Jobs'
  <2>1. \A g \in Goroutine : goroutine[g] # Idle => goroutine[g].account \in Account
    BY JobTyped DEF IInv, Job
  <2> QED
    BY <1>5, <1>6, <2>1 DEF IInv, Jobs
<1>8. Checks' /\ Phases'
  BY <1>5, <1>6 DEF IInv, Checks, Phases
<1>9. ServersAccounted' /\ CloseLeavesNothing'
  BY <1>5, <1>6 DEF IInv, ServersAccounted, CloseLeavesNothing, HasServer, Publishes
<1>10. StoresApart'
  BY <1>5, <1>6 DEF IInv, StoresApart
<1> QED
  BY <1>1, <1>7, <1>8, <1>9, <1>10 DEF IInv

LEMMA ConnectionKeeps ==
  ASSUME IInv, NEW a \in Account, ConnectionChanges(a)
  PROVE  IInv'
<1>1. TypeOK'
  BY StepTyped DEF Next, AccountStep
<1> QED
  BY <1>1 DEF IInv, ConnectionChanges, Jobs, Checks, Phases, ServersAccounted, StoresApart,
              CloseLeavesNothing, HasServer, Publishes

\* A goroutine at work has its account's slot for itself.
LEMMA Worker ==
  ASSUME IInv, NEW g \in Goroutine, GoroutineStep(g)
  PROVE  LET a == goroutine[g].account
         IN /\ goroutine[g] \in Job /\ goroutine[g] # Idle /\ a \in Account
            /\ slots[a] \in Slot /\ slots[a] # NoSlot
            /\ goroutine[g].existing = slots[a].app
            /\ \A f \in Goroutine \ {g} : goroutine[f] # Idle => goroutine[f].account # a
            /\ \A f \in Goroutine \ {g} : ~Publishes(f, a)
            /\ phase # "closed"
<1>1. goroutine[g] \in Job /\ goroutine[g] # Idle
  BY JobTyped DEF IInv, GoroutineStep, Provisioned, ProvisionFailed, Publish
<1>2. goroutine[g].account \in Account
  BY <1>1 DEF Job
<1>3. \A f \in Goroutine \ {g} : goroutine[f] # Idle => goroutine[f].account # goroutine[g].account
  BY <1>1 DEF IInv, Jobs
<1>4. \A f \in Goroutine \ {g} : ~Publishes(f, goroutine[g].account)
  BY <1>3, JobTyped DEF Publishes, IInv
<1> QED
  BY <1>1, <1>2, <1>3, <1>4, SlotTyped DEF IInv, Jobs, CloseLeavesNothing

LEMMA ProvisionKeeps ==
  ASSUME IInv, NEW g \in Goroutine, Provisioned(g) \/ ProvisionFailed(g)
  PROVE  IInv'
<1> DEFINE j == goroutine[g]
<1>0. PICK a \in Account : a = j.account
  BY Worker DEF GoroutineStep
<1>1. TypeOK'
  BY StepTyped DEF Next, GoroutineStep
<1>2. /\ j \in Job /\ j # Idle /\ a \in Account
      /\ slots[a] \in Slot /\ slots[a] # NoSlot /\ j.existing = slots[a].app
      /\ \A f \in Goroutine \ {g} : ~Publishes(f, a)
      /\ phase # "closed"
  BY <1>0, Worker DEF GoroutineStep
<1>3. j.pc = "provision" /\ j.app = 0 /\ ~j.err
  BY <1>0, <1>2 DEF Provisioned, ProvisionFailed, IInv, Jobs
<1>4. UNCHANGED <<phase, accounts, slots, proven, stale>>
  BY DEF Provisioned, ProvisionFailed
<1>5. \A f \in Goroutine \ {g} : goroutine'[f] = goroutine[f]
  BY <1>0 DEF Provisioned, ProvisionFailed, IInv, TypeOK
<1>6. /\ goroutine'[g].pc = "publish" /\ goroutine'[g].account = a
      /\ goroutine'[g].revision = j.revision /\ goroutine'[g].existing = j.existing
      /\ goroutine'[g].err <=> goroutine'[g].app = 0
      /\ Provisioned(g) <=> goroutine'[g].app # 0
      /\ goroutine'[g] # Idle
  <2>1. CASE Provisioned(g)
    <3>1. goroutine'[g] = [j EXCEPT !.pc = "publish", !.app = ServerConn(a)]
      BY <1>0, <2>1 DEF Provisioned, IInv, TypeOK
    <3>2. ServerConn(a) # 0
      BY <1>0, <1>2, ConnTyped DEF IInv
    <3> QED
      BY <1>0, <1>2, <1>3, <2>1, <3>1, <3>2 DEF Job, Idle
  <2>2. CASE ProvisionFailed(g)
    <3>1. goroutine'[g] = [j EXCEPT !.pc = "publish", !.err = TRUE]
      BY <1>0, <2>2 DEF ProvisionFailed, IInv, TypeOK
    <3>2. goroutine'[g].app = 0 /\ goroutine'[g].err
      BY <1>0, <1>2, <1>3, <3>1 DEF Job
    <3>3. ~Provisioned(g)
      <4>1. SUFFICES ASSUME Provisioned(g) PROVE FALSE
        OBVIOUS
      <4>2. goroutine'[g] = [j EXCEPT !.pc = "publish", !.app = ServerConn(a)]
        BY <1>0, <4>1 DEF Provisioned, IInv, TypeOK
      <4>3. goroutine'[g].app = ServerConn(a)
        BY <1>0, <1>2, <4>2 DEF Job
      <4> QED
        BY <1>0, <1>2, <3>2, <4>3, ConnTyped DEF IInv
    <3> QED
      BY <1>0, <1>2, <1>3, <2>2, <3>1, <3>2, <3>3 DEF Job, Idle
  <2> QED
    BY <2>1, <2>2
<1> HIDE DEF j
<1>7. Jobs'
  <2>1. ASSUME NEW f \in Goroutine, goroutine'[f] # Idle
        PROVE  LET i == goroutine'[f]
                   r == slots'[i.account]
               IN /\ r # NoSlot /\ r.starting
                  /\ i.existing = r.app
                  /\ i.revision <= r.refresh
                  /\ f \in stale' => i.revision < r.refresh
                  /\ i.pc = "provision" => i.app = 0 /\ ~i.err
                  /\ i.pc = "publish" => (i.err <=> i.app = 0)
    <3>1. CASE f = g
      BY <1>0, <1>2, <1>4, <1>6, <3>1 DEF IInv, Jobs, j
    <3>2. CASE f # g
      BY <1>4, <1>5, <2>1, <3>2 DEF IInv, Jobs
    <3> QED
      BY <3>1, <3>2
  <2>2. \A f \in Goroutine : /\ goroutine'[f] # Idle <=> goroutine[f] # Idle
                             /\ goroutine[f] # Idle => goroutine'[f].account = goroutine[f].account
    BY <1>0, <1>2, <1>5, <1>6 DEF j
  <2>3. \A f \in stale' : goroutine'[f] # Idle
    BY <1>4, <2>2 DEF IInv, Jobs, TypeOK
  <2>4. \A e, f \in Goroutine : goroutine'[e] # Idle /\ goroutine'[f] # Idle
                                 /\ goroutine'[e].account = goroutine'[f].account => e = f
    BY <2>2 DEF IInv, Jobs
  <2> QED
    BY <2>1, <2>3, <2>4 DEF Jobs
<1>8. Checks' /\ Phases'
  BY <1>0, <1>2, <1>4, <1>5, <1>6 DEF IInv, Checks, Phases, j
<1>9. ServersAccounted'
  <2>1. \A b \in Account : HasServer(b)' <=> HasServer(b)
    BY <1>4 DEF HasServer
  <2>2. \A f \in Goroutine \ {g}, b \in Account : Publishes(f, b)' <=> Publishes(f, b)
    BY <1>5 DEF Publishes
  <2>3. \A b \in Account \ {a} : ~Publishes(g, b) /\ ~Publishes(g, b)'
    BY <1>0, <1>6 DEF Publishes, j
  <2>4. \A b \in Account \ {a} : servers'[b] = servers[b]
    BY <1>0 DEF Provisioned, ProvisionFailed, IInv, TypeOK, j
  <2>5. ~Publishes(g, a) /\ (Publishes(g, a)' <=> Provisioned(g) /\ j.existing = 0)
    BY <1>0, <1>3, <1>6 DEF Publishes, j
  <2>6. servers'[a] = IF Provisioned(g) /\ j.existing = 0 THEN servers[a] + 1 ELSE servers[a]
    BY <1>0, <1>2 DEF Provisioned, ProvisionFailed, IInv, TypeOK, j
  <2>7. servers[a] \in {0, 1} /\ (servers[a] = 1 <=> HasServer(a)) /\ (HasServer(a) <=> j.existing # 0)
    BY <1>0, <1>2, <2>5 DEF IInv, ServersAccounted, HasServer
  <2>8. ASSUME NEW b \in Account
        PROVE  /\ servers'[b] \in {0, 1}
               /\ servers'[b] = 1 <=> HasServer(b)' \/ \E f \in Goroutine : Publishes(f, b)'
    <3>1. CASE b = a
      BY <1>2, <2>1, <2>2, <2>5, <2>6, <2>7, <3>1
    <3>2. CASE b # a
      BY <1>0, <1>2, <2>1, <2>2, <2>3, <2>4, <3>2 DEF IInv, ServersAccounted
    <3> QED
      BY <3>1, <3>2
  <2> QED
    BY <2>8 DEF ServersAccounted
<1>10. StoresApart' /\ CloseLeavesNothing'
  BY <1>0, <1>2, <1>4 DEF IInv, StoresApart, CloseLeavesNothing
<1> QED
  BY <1>1, <1>7, <1>8, <1>9, <1>10 DEF IInv

LEMMA PublishKeeps ==
  ASSUME IInv, NEW g \in Goroutine, Publish(g)
  PROVE  IInv'
<1> DEFINE j == goroutine[g]
<1>0. PICK a \in Account : a = j.account
  BY Worker DEF GoroutineStep
<1>1. TypeOK'
  BY StepTyped DEF Next, GoroutineStep
<1>2. /\ j \in Job /\ j # Idle /\ a \in Account
      /\ slots[a] \in Slot /\ slots[a] # NoSlot /\ j.existing = slots[a].app
      /\ \A f \in Goroutine \ {g} : goroutine[f] # Idle => goroutine[f].account # a
      /\ \A f \in Goroutine \ {g} : ~Publishes(f, a)
      /\ phase # "closed"
  BY <1>0, Worker DEF GoroutineStep
<1>3. j.pc = "publish" /\ (j.err <=> j.app = 0)
  BY <1>0, <1>2 DEF Publish, IInv, Jobs
<1>4. UNCHANGED <<phase, accounts, servers>> /\ stale' = stale \ {g} /\ g \notin stale'
  BY DEF Publish
<1>5. /\ \A f \in Goroutine \ {g} : goroutine'[f] = goroutine[f]
      /\ goroutine'[g] = Idle
  BY <1>0 DEF Publish, IInv, TypeOK
<1>6. \A b \in Account \ {a} : slots'[b] = slots[b] /\ (b \in proven' <=> b \in proven)
  BY <1>0 DEF Publish, IInv, TypeOK
<1>7. /\ slots'[a] # NoSlot /\ slots'[a].legacy = slots[a].legacy /\ slots'[a].refresh = slots[a].refresh
      /\ slots'[a].app = IF j.err THEN slots[a].app ELSE j.app
      /\ slots'[a].checked = IF j.err THEN slots[a].checked ELSE j.revision
  <2>1. CASE j.err
    <3>1. slots'[a] = [slots[a] EXCEPT !.starting = FALSE, !.err = TRUE, !.wait = TRUE]
      BY <1>0, <1>2, <2>1 DEF Publish, IInv, TypeOK
    <3> QED
      BY <1>0, <1>2, <2>1, <3>1 DEF Slot, NoSlot
  <2>2. CASE ~j.err
    <3>1. slots'[a] = [slots[a] EXCEPT !.starting = FALSE, !.err = FALSE, !.wait = FALSE,
                                       !.checked = j.revision, !.app = j.app]
      BY <1>0, <1>2, <2>2 DEF Publish, CheckedAt, IInv, TypeOK
    <3> QED
      BY <1>0, <1>2, <2>2, <3>1 DEF Slot, NoSlot
  <2> QED
    BY <2>1, <2>2
<1>8. j.revision <= slots[a].refresh /\ (g \in stale => j.revision < slots[a].refresh)
  BY <1>0, <1>2 DEF IInv, Jobs
<1>9. j.revision \in Nat /\ slots[a].refresh \in Nat /\ j.app \in 0..MaxConn
  BY <1>0, <1>2 DEF Job, Slot
<1>10. proven' = IF j.err \/ g \in stale THEN proven ELSE proven \cup {a}
  BY <1>0 DEF Publish
<1> HIDE DEF j
<1>11. Jobs'
  <2>1. ASSUME NEW f \in Goroutine, goroutine'[f] # Idle
        PROVE  f # g /\ goroutine'[f] = goroutine[f] /\ goroutine[f].account \in Account \ {a}
    BY <1>0, <1>2, <1>5, <2>1, JobTyped DEF IInv, Job
  <2> QED
    BY <1>0, <1>4, <1>5, <1>6, <2>1 DEF IInv, Jobs, TypeOK
<1>12. Checks'
  <2>1. /\ slots'[a].checked <= slots'[a].refresh
        /\ slots'[a].checked = slots'[a].refresh => a \in proven'
    BY <1>0, <1>2, <1>7, <1>8, <1>9, <1>10 DEF IInv, Checks
  <2> QED
    BY <1>6, <2>1 DEF IInv, Checks
<1>13. Phases'
  BY <1>0, <1>2, <1>4, <1>6, <1>7 DEF IInv, Phases
<1>14. ServersAccounted'
  <2>1. \A b \in Account \ {a} : HasServer(b)' <=> HasServer(b)
    BY <1>6 DEF HasServer
  <2>2. \A f \in Goroutine \ {g}, b \in Account : Publishes(f, b)' <=> Publishes(f, b)
    BY <1>5 DEF Publishes
  <2>3. \A b \in Account : ~Publishes(g, b)'
    BY <1>5 DEF Publishes, Idle
  <2>4. \A b \in Account \ {a} : ~Publishes(g, b)
    BY <1>0 DEF Publishes, j
  <2>5. Publishes(g, a) <=> ~j.err /\ j.existing = 0
    BY <1>0, <1>3 DEF Publishes, j
  <2>6. HasServer(a)' <=> HasServer(a) \/ ~j.err
    BY <1>0, <1>2, <1>3, <1>7 DEF HasServer
  <2>7. servers[a] \in {0, 1} /\ (servers[a] = 1 <=> HasServer(a) \/ Publishes(g, a)) /\ (HasServer(a) <=> j.existing # 0)
    BY <1>0, <1>2 DEF IInv, ServersAccounted, HasServer
  <2>8. servers[a] = 1 <=> HasServer(a)'
    BY <2>5, <2>6, <2>7
  <2>9. ASSUME NEW b \in Account
        PROVE  /\ servers'[b] \in {0, 1}
               /\ servers'[b] = 1 <=> HasServer(b)' \/ \E f \in Goroutine : Publishes(f, b)'
    <3>1. CASE b = a
      BY <1>2, <1>4, <2>2, <2>3, <2>7, <2>8, <3>1
    <3>2. CASE b # a
      BY <1>0, <1>2, <1>4, <2>1, <2>2, <2>3, <2>4, <3>2 DEF IInv, ServersAccounted
    <3> QED
      BY <3>1, <3>2
  <2> QED
    BY <2>9 DEF ServersAccounted
<1>15. StoresApart' /\ CloseLeavesNothing'
  BY <1>0, <1>2, <1>4, <1>6, <1>7 DEF IInv, StoresApart, CloseLeavesNothing
<1> QED
  BY <1>1, <1>11, <1>12, <1>13, <1>14, <1>15 DEF IInv

LEMMA ProcessKeeps ==
  ASSUME IInv, ProcessStep
  PROVE  IInv'
<1>1. TypeOK'
  BY StepTyped DEF Next
<1>2. CASE CloseCancel \/ RecoverDone
  BY <1>1, <1>2 DEF IInv, CloseCancel, RecoverDone, Jobs, Checks, Phases, ServersAccounted, StoresApart,
                    CloseLeavesNothing, HasServer, Publishes
<1>3. CASE CloseServers
  <2>1. phase = "closing" /\ phase' = "closed" /\ \A g \in Goroutine : goroutine[g] = Idle
    BY <1>3 DEF CloseServers, WorkersDone
  <2>2. UNCHANGED <<accounts, slots, goroutine, proven, stale>>
    BY <1>3 DEF CloseServers
  <2>3. \A a \in Account : servers[a] = IF HasServer(a) THEN 1 ELSE 0
    BY <2>1 DEF IInv, ServersAccounted, Publishes, Idle
  <2>4. \A a \in Account : servers'[a] = 0
    BY <1>3, <2>3 DEF CloseServers
  <2> QED
    BY <1>1, <2>1, <2>2, <2>4 DEF IInv, Jobs, Checks, Phases, ServersAccounted, StoresApart, CloseLeavesNothing
<1>4. CASE Leave \/ Crash
  <2>1. /\ phase' = "down" /\ stale' = {} /\ accounts' = accounts
        /\ \A a \in Account : slots'[a] = NoSlot /\ servers'[a] = 0
        /\ \A g \in Goroutine : goroutine'[g] = Idle
    BY <1>4 DEF Leave, Crash, LoseMemory
  <2>2. \A a \in Account : ~HasServer(a)' /\ \A g \in Goroutine : ~Publishes(g, a)'
    BY <2>1 DEF HasServer, Publishes, Idle
  <2>3. ServersAccounted'
    BY <2>1, <2>2 DEF ServersAccounted
  <2> QED
    BY <1>1, <2>1, <2>3 DEF IInv, Jobs, Checks, Phases, StoresApart, CloseLeavesNothing
<1>5. CASE Boot
  <2>1. /\ phase = "down" /\ phase' = "booting"
        /\ UNCHANGED <<accounts, goroutine, servers, proven, stale>>
        /\ \A g \in Goroutine : goroutine[g] = Idle
    BY <1>5 DEF Boot, IInv, Phases
  <2>2. \A a \in Account : slots'[a] = IF accounts[a] = "absent" THEN NoSlot ELSE NewSlot(accounts[a] = "registry")
    BY <1>5 DEF Boot
  <2>3. \A legacy \in BOOLEAN : /\ NewSlot(legacy) # NoSlot /\ NewSlot(legacy).app = 0
                                /\ NewSlot(legacy).legacy = legacy
                                /\ NewSlot(legacy).checked = 0 /\ NewSlot(legacy).refresh = 1
    BY DEF NewSlot, NoSlot
  <2>4. \A a \in Account : /\ slots'[a] = NoSlot <=> accounts[a] = "absent"
                           /\ slots'[a] # NoSlot => /\ slots'[a].app = 0
                                                    /\ slots'[a].legacy = (accounts[a] = "registry")
                                                    /\ slots'[a].checked = 0 /\ slots'[a].refresh = 1
    BY <2>2, <2>3
  <2>5. \A a \in Account : ~HasServer(a)' /\ ~HasServer(a)
    BY <2>1, <2>4 DEF HasServer, IInv, Phases
  <2>6. ServersAccounted'
    BY <2>1, <2>5 DEF IInv, ServersAccounted, Publishes
  <2>7. StoresApart'
    BY <2>1, <2>4 DEF IInv, StoresApart, TypeOK
  <2> QED
    BY <1>1, <2>1, <2>4, <2>6, <2>7 DEF IInv, Jobs, Checks, Phases, CloseLeavesNothing
<1> QED
  BY <1>2, <1>3, <1>4, <1>5 DEF ProcessStep

LEMMA InitHolds == Init => IInv
<1> SUFFICES ASSUME Init PROVE IInv
  OBVIOUS
<1>1. \A a \in Account : ~HasServer(a) /\ \A g \in Goroutine : ~Publishes(g, a)
  BY DEF Init, HasServer, Publishes, Idle
<1> QED
  BY <1>1, InitTyped DEF Init, IInv, Jobs, Checks, Phases, ServersAccounted, StoresApart, CloseLeavesNothing

LEMMA StepHolds == IInv /\ [Next]_vars => IInv'
<1>1. ASSUME IInv, UNCHANGED vars PROVE IInv'
  BY <1>1, StepTyped DEF IInv, vars, Jobs, Checks, Phases, ServersAccounted, StoresApart,
                         CloseLeavesNothing, HasServer, Publishes
<1>2. ASSUME IInv, Next PROVE IInv'
  BY <1>2, RequestKeeps, SignInKeeps, RetryElapsesKeeps, ConnectionKeeps, ProvisionKeeps, PublishKeeps,
     ProcessKeeps DEF Next, AccountStep, GoroutineStep
<1> QED
  BY <1>1, <1>2

LEMMA Invariance == Spec => []IInv
  BY InitHolds, StepHolds, PTL DEF Spec

-----------------------------------------------------------------------------
(* The theorems *)

\* Every variable has the shape the Go types and the table give it.
THEOREM TypeCorrect == Spec => []TypeOK
  BY Invariance, PTL DEF IInv

\* Whatever overlaps, an account has at most one open server, and the manager
\* has it or a goroutine is about to hand it over.
THEOREM OneServerPerAccount == Spec => []ServersAccounted
  BY Invariance, PTL DEF IInv

\* At most one account, one of the owner's, ever has the store from before
\* accounts, and each slot uses the store its row names, across restarts.
THEOREM HistoriesStayApart == Spec => []StoresApart
  BY Invariance, PTL DEF IInv

LEMMA ReadyFollows == IInv => ReadyIsProven
  BY DEF IInv, Checks, Ready, ReadyIsProven

\* A request is handed on only to an environment that was asked for after the
\* account's latest sign-in.
THEOREM ReadyIsFresh == Spec => []ReadyIsProven
  BY Invariance, ReadyFollows, PTL

\* When close returns no server is open and no goroutine is left.
THEOREM CloseIsComplete == Spec => []CloseLeavesNothing
  BY Invariance, PTL DEF IInv

-----------------------------------------------------------------------------
(* Behind the gate *)

\* Whatever a page does is a request, a sign-in or nothing to the server.
LEMMA GateStepsAreSteps == [GateNext]_gateVars => [Next]_vars
<1>1. ASSUME NEW a \in Gated, GateStep(a) PROVE [Next]_vars
  <2>1. a \in Account
    BY GatedAssumption
  <2>2. CASE Ask(a)
    BY <2>1, <2>2 DEF Ask, Next, AccountStep
  <2>3. CASE SignInAgain(a)
    BY <2>1, <2>3 DEF SignInAgain, Next, AccountStep
  <2>4. CASE Refused(a) \/ Opens(a) \/ AnswerLost(a)
    BY <2>4 DEF Refused, Opens, AnswerLost
  <2> QED
    BY <1>1, <2>2, <2>3, <2>4 DEF GateStep
<1>2. ASSUME UNCHANGED gateVars PROVE UNCHANGED vars
  BY <1>2 DEF gateVars
<1> QED
  BY <1>1, <1>2 DEF GateNext

\* The pages of the web client are users the account environments allow: with
\* any number of them asking, losing answers and signing in again, the
\* environments behave as AccountSlots says.
THEOREM PagesObey == GateSpec => Spec
<1>1. GateInit => Init
  BY DEF GateInit
<1> QED
  BY <1>1, GateStepsAreSteps, PTL DEF GateSpec, Spec

\* With the pages of the web client in front, with or without the fairness
\* the liveness run assumes, each account has one server the manager knows,
\* histories stay apart, no page is served by an environment from before the
\* latest sign-in, and close leaves nothing behind.
THEOREM AccountsBehindTheGate ==
  FairGateSpec => [](TypeOK /\ ServersAccounted /\ StoresApart /\ ReadyIsProven /\ CloseLeavesNothing)
<1>1. FairGateSpec => Spec
  BY PagesObey DEF FairGateSpec
<1>2. IInv => TypeOK /\ ServersAccounted /\ StoresApart /\ ReadyIsProven /\ CloseLeavesNothing
  BY ReadyFollows DEF IInv
<1> QED
  BY <1>1, <1>2, Invariance, PTL

=============================================================================

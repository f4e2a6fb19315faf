---------------------------- MODULE BrokerProofs ----------------------------
(***************************************************************************)
(* Theorems about Broker, for every number of accounts, ports and faults.  *)
(*                                                                         *)
(* With one process that serves requests, and any number of update scripts *)
(* beside it: distinct ports and one connection for each account.  Only    *)
(* that process prepares an account, so what it has seen of the files      *)
(* stays true while it works (FInv).                                       *)
(*                                                                         *)
(* Under the same hypothesis: a stack that runs sees all its agent wrote,  *)
(* as long as no two processes moved its workspace at the same time, which *)
(* nothing in the code excludes.  Of the accounts that are not contested,  *)
(* one process at a time is between the check of the workspace and its     *)
(* registration, so what it has seen of the stack stays true (IInv).       *)
(***************************************************************************)
EXTENDS Broker, FiniteSetTheorems, WellFoundedInduction, TLAPS

OneService == \A p, q \in Service : p = q

Ports == PortsDistinct /\ \A a \in Account : port[a] # NoPort => a \in dirs

Pc == {"port", "files", "env", "manifest", "check", "inspect", "stop", "copy",
       "rename", "register", "undo", "update"}

Filing(p) == job[p].pc \in {"port", "files", "env", "manifest"}

\* What the files say while an account is prepared, and from then on.
Preparing(p) ==
    LET j == job[p]
    IN /\ Filing(p) =>
             /\ p \in Service
             /\ j.account \in dirs /\ j.port \in Port /\ manifest[j.account] = NoManifest
             /\ j.pc = "port" => j.port = port[j.account] \/ j.port \notin Used
             /\ j.pc # "port" => j.port = port[j.account]
             /\ j.pc = "manifest" => j.port = env[j.account].port
       /\ j.pc \in Pc /\ ~Filing(p) => Prepared(j.account)
Filings == \A p \in Process : Preparing(p)

\* No copy of a workspace holds writes that were not made.
Amounts ==
    /\ \A a \in Account : volume[a] <= writes[a] /\ dir[a] <= writes[a] /\ gone[a] <= writes[a]
    /\ \A p \in Process : job[p].pc \in Pc => job[p].staging <= writes[job[p].account]

FInv == TypeOK /\ Amounts /\ Ports /\ ConnectionIsStable /\ Filings

\* Where the writes of an agent are.
Kept(a) ==
    /\ container[a].mount # "gone"
    /\ container[a].mount = "dir" => dir[a] = writes[a]
    /\ container[a].mount = "volume" =>
          IF container[a].state = "absent" THEN volume[a] = Missing /\ writes[a] = 0 ELSE volume[a] = writes[a]
    /\ env[a].registered =>
          dir[a] = writes[a] /\ (container[a].mount = "volume" => container[a].state # "running")
Workspaces == \A a \in Account \ contested : Kept(a)

\* What the stack is like while its workspace is moved.
Moving(p) ==
    LET j == job[p]
        a == job[p].account
    IN /\ j.pc \in {"inspect", "stop", "copy", "rename"} => dir[a] = Missing
       /\ j.pc \in {"inspect", "stop", "copy", "rename", "register", "undo"} => ~env[a].registered
       /\ j.pc = "stop" => j.running \/ container[a].state # "running"
       /\ j.pc \in {"stop", "copy"} => (j.source <=> volume[a] # Missing)
       /\ j.pc \in {"copy", "rename", "register"} => container[a].state # "running"
       /\ j.pc = "rename" => j.staging = writes[a]
       /\ j.pc = "register" => dir[a] = writes[a]
       /\ j.pc = "update" => env[a].registered
Moves == \A p \in Process : job[p].pc \in Pc /\ job[p].account \notin contested => Moving(p)

\* Between the check of a workspace and its registration there is one process
\* at a time, unless the account is contested.
MidPc  == {"inspect", "stop", "copy", "rename", "register", "undo"}
Mid(p) == job[p].pc \in MidPc
Apart  == \A p, q \in Process : p # q /\ Mid(p) /\ Mid(q) /\ job[p].account = job[q].account
                                  => job[p].account \in contested

IInv == FInv /\ Workspaces /\ Moves /\ Apart

-----------------------------------------------------------------------------
(* Facts *)

LEMMA Numbers ==
  /\ NoPort \notin Port /\ Torn \notin Port /\ Torn # NoPort /\ Port \subseteq Nat
  /\ Content \subseteq Nat /\ Missing \notin Content /\ 0 \in Content
  /\ Limit \in Nat /\ MaxWrites \in Nat
  /\ NoManifest \notin Manifest
<1>1. /\ NoPort \notin Port /\ Torn \notin Port /\ Torn # NoPort /\ Port \subseteq Nat
      /\ Content \subseteq Nat /\ Missing \notin Content /\ 0 \in Content
      /\ Limit \in Nat /\ MaxWrites \in Nat
  BY BoundAssumption DEF NoPort, Torn, Port, Content, Missing
<1>2. \A m \in Manifest : m.port \in Port
  BY DEF Manifest
<1>3. NoManifest.port = NoPort
  BY DEF NoManifest
<1> QED
  BY <1>1, <1>2, <1>3

\* Of sets of ports, one has no other within it.
LEMMA Least ==
  ASSUME NEW S, IsFiniteSet(S), NEW F, F \subseteq SUBSET S, F # {}
  PROVE  \E x \in F : \A y \in F : ~(y \subseteq x /\ y # x)
<1>1. IsWellFoundedOn(StrictSubsetOrdering(S), SUBSET S)
  BY FS_StrictSubsetOrderingWellFounded, FS_FiniteSubsetsOfFinite
<1>2. \E x \in F : \A y \in F : ~(<<y, x>> \in StrictSubsetOrdering(S))
  BY <1>1, WFMin
<1> QED
  BY <1>2 DEF StrictSubsetOrdering

\* A set of ports that is not empty has a first one.
LEMMA FirstPort ==
  ASSUME NEW S \in SUBSET Port, S # {}
  PROVE  \E q \in S : \A r \in S : q <= r
<1> DEFINE To(q) == {r \in S : r <= q}
           F == {To(q) : q \in S}
<1>0. IsFiniteSet(Port) /\ \A r \in S : r \in Nat
  BY FS_Interval, Numbers DEF Port
<1>1. F \subseteq SUBSET Port /\ F # {}
  OBVIOUS
<1>2. PICK x \in F : \A y \in F : ~(y \subseteq x /\ y # x)
  <2> HIDE DEF F
  <2> QED
    BY <1>0, <1>1, Least
<1>3. PICK q \in S : x = To(q)
  BY <1>2
<1>4. \A r \in S : ~(To(r) \subseteq To(q) /\ To(r) # To(q))
  <2>1. \A r \in S : To(r) \in F
    OBVIOUS
  <2> HIDE DEF F, To
  <2> QED
    BY <1>2, <1>3, <2>1
<1>5. ASSUME NEW r \in S, ~(q <= r) PROVE FALSE
  <2>1. q \in Nat /\ r \in Nat /\ r < q /\ \A k \in S : k \in Nat
    BY <1>0, <1>5
  <2>2. To(r) \subseteq To(q) /\ q \in To(q) /\ q \notin To(r)
    <3>1. q <= q /\ ~(q <= r) /\ \A k \in S : k <= r => k <= q
      BY <2>1
    <3> QED
      BY <3>1
  <2> HIDE DEF To
  <2> QED
    BY <1>4, <2>2
<1> QED
  BY <1>5

LEMMA FreePortIs ==
  ASSUME ~(Port \subseteq Used)
  PROVE  FreePort \in Port /\ FreePort \notin Used
<1>1. Port \ Used \in SUBSET Port /\ Port \ Used # {}
  OBVIOUS
<1>2. \E q \in Port \ Used : \A r \in Port \ Used : q <= r
  BY <1>1, FirstPort
<1> QED
  BY <1>2 DEF FreePort
LEMMA JobTyped ==
  ASSUME TypeOK, NEW p \in Process, job[p].pc \in Pc
  PROVE  /\ job[p] \in Job /\ job[p].account \in Account /\ job[p].port \in {NoPort} \cup Port
         /\ job[p].running \in BOOLEAN /\ job[p].source \in BOOLEAN /\ job[p].staging \in {Missing} \cup Content
<1>1. job[p] \in Job
  BY DEF TypeOK, Pc, Idle, Down
<1> QED
  BY <1>1 DEF Job

LEMMA StepDoes ==
  ASSUME TypeOK, NEW p \in Process, NEW from \in Pc, NEW to \in Pc, Step(p, from, to)
  PROVE  /\ job' \in [Process -> Job \cup {Idle, Down}] /\ job[p].pc = from /\ job'[p].pc = to
         /\ job[p] \in Job /\ job[p].account \in Account
         /\ job'[p].account = job[p].account /\ job'[p].port = job[p].port
         /\ job'[p].running = job[p].running /\ job'[p].source = job[p].source
         /\ job'[p].staging = job[p].staging
<1>1. job[p].pc = from /\ job' = [job EXCEPT ![p].pc = to]
  BY DEF Step
<1>2. job[p] \in Job /\ job[p].account \in Account
  BY <1>1, JobTyped
<1>3. [job[p] EXCEPT !.pc = to] \in Job
  BY <1>2 DEF Job, Pc
<1> QED
  BY <1>1, <1>2, <1>3 DEF TypeOK, Job

LEMMA InitTyped == Init => TypeOK
<1> SUFFICES ASSUME Init PROVE TypeOK
  OBVIOUS
<1>1. /\ dirs \subseteq Tenant /\ port \in [Account -> {Torn, NoPort} \cup Port]
      /\ key \in [Account -> Nat] /\ root \in BOOLEAN /\ contested \subseteq Account
      /\ budget \in [Event -> Nat] /\ job \in [Process -> Job \cup {Idle, Down}]
  BY AccountAssumption, BoundAssumption DEF Init
<1>2. env \in [Account -> [port: {NoPort} \cup Port, registered: BOOLEAN]]
  BY DEF Init
<1>3. manifest \in [Account -> {NoManifest} \cup Manifest]
  <2>1. \A a \in Old : a \in Account /\ port[a] \in Port
    BY AccountAssumption DEF Init, Account
  <2>2. \A a \in Old : [port |-> port[a], key |-> 1] \in Manifest
    BY <2>1 DEF Manifest
  <2> QED
    BY <2>2 DEF Init
<1>4. /\ container \in [Account -> Container] /\ writes \in [Account -> 0..MaxWrites]
      /\ volume \in [Account -> {Missing} \cup Content] /\ dir \in [Account -> {Missing} \cup Content]
      /\ gone \in [Account -> {Missing} \cup Content] /\ told \in [Account -> SUBSET Manifest]
  BY Numbers DEF Init, Container, Content
<1> QED
  BY <1>1, <1>2, <1>3, <1>4 DEF TypeOK

LEMMA InitInv == Init => IInv
<1> SUFFICES ASSUME Init PROVE IInv
  OBVIOUS
<1>1. Ports
  BY DEF Init, Ports, PortsDistinct, Account
<1>2. ConnectionIsStable
  BY DEF Init, ConnectionIsStable, Account
<1>3. Workspaces
  BY DEF Init, Workspaces, Kept
<1>4. Filings /\ Moves /\ Apart
  BY DEF Init, Filings, Filing, Moves, Preparing, Moving, Apart, Mid, MidPc, Idle, Pc
<1>5. Amounts
  BY DEF Init, Amounts, Missing, Idle, Pc
<1> QED
  BY <1>1, <1>2, <1>3, <1>4, <1>5, InitTyped DEF IInv, FInv

LEMMA PortsSame ==
  ASSUME Ports, UNCHANGED <<dirs, port>>
  PROVE  Ports'
  BY DEF Ports, PortsDistinct

LEMMA ConnectionsSame ==
  ASSUME ConnectionIsStable, UNCHANGED <<port, key, manifest, told>>, \A a \in Account : env'[a].port = env[a].port
  PROVE  ConnectionIsStable'
  BY DEF ConnectionIsStable, Account

\* What happens to the files of an account nobody was told of is no matter of
\* the others.
LEMMA ConnectionsAt ==
  ASSUME ConnectionIsStable, NEW a \in Tenant, told[a] = {}, told' = told,
         manifest'[a] = NoManifest \/ (/\ manifest'[a] = [port |-> env'[a].port, key |-> key'[a]]
                                       /\ port'[a] = env'[a].port),
         \A b \in Tenant : b # a => /\ port'[b] = port[b] /\ key'[b] = key[b] /\ env'[b].port = env[b].port
                                    /\ manifest'[b] = manifest[b]
  PROVE  ConnectionIsStable'
  BY DEF ConnectionIsStable

-----------------------------------------------------------------------------
(* Preparing an account, beside update scripts *)

Others(p) == \A q \in Process \ {p} : job'[q] = job[q]

LEMMA StepOthers ==
  ASSUME NEW p \in Process, NEW j, TypeOK, job' = [job EXCEPT ![p] = j]
  PROVE  Others(p)
  BY DEF Others, TypeOK

\* One process prepares accounts: what it does it does to no other
\* preparation, and an update script leaves the files of accounts alone.
LEMMA Aside ==
  ASSUME OneService, FInv, NEW p \in Process, Others(p), Preparing(p)',
         p \in Service \/ (UNCHANGED <<dirs, port>> /\ \A a \in Account : env'[a].port = env[a].port),
         p \in Service \/ manifest' = manifest,
         \A a \in Account : Prepared(a) => Prepared(a)'
  PROVE  Filings'
<1> SUFFICES ASSUME NEW q \in Process, q # p PROVE Preparing(q)'
  BY DEF Filings
<1>1. job'[q] = job[q] /\ Preparing(q)
  BY DEF Others, FInv, Filings
<1>2. job[q].pc \in Pc => job[q].account \in Account
  <2>1. ASSUME job[q].pc \in Pc PROVE job[q] \in Job
    BY <2>1 DEF FInv, TypeOK, Pc, Idle, Down
  <2> QED
    BY <2>1 DEF Job
<1>3. CASE Filing(q)
  <2>1. q \in Service /\ p \notin Service
    BY <1>1, <1>3 DEF Preparing, OneService
  <2>2. UNCHANGED <<dirs, port, manifest>> /\ \A a \in Account : env'[a].port = env[a].port
    BY <2>1
  <2>3. job[q].account \in Account
    BY <1>2, <1>3 DEF Filing, Pc
  <2> QED
    BY <1>1, <1>3, <2>2, <2>3 DEF Preparing, Filing, Used
<1>4. CASE ~Filing(q)
  <2>1. ~Filing(q)'
    BY <1>1, <1>4 DEF Filing
  <2>2. ASSUME job[q].pc \in Pc PROVE Prepared(job[q].account)'
    <3>1. job[q].account \in Account /\ Prepared(job[q].account)
      BY <1>1, <1>2, <1>4, <2>2 DEF Preparing
    <3>2. PICK a \in Account : a = job[q].account
      BY <3>1
    <3>3. Prepared(a)'
      BY <3>1, <3>2
    <3> QED
      BY <1>1, <3>2, <3>3 DEF Prepared
  <2>3. job'[q].pc \in Pc => Prepared(job[q].account)'
    BY <1>1, <2>2
  <2> QED
    BY <1>1, <2>1, <2>3 DEF Preparing, Prepared
<1> QED
  BY <1>3, <1>4

LEMMA AmountsSame ==
  ASSUME Amounts, NEW p \in Process, Others(p), UNCHANGED <<volume, dir, gone, writes>>,
         job'[p].pc \in Pc => job'[p].staging <= writes[job'[p].account]
  PROVE  Amounts'
<1> SUFFICES ASSUME NEW q \in Process, job'[q].pc \in Pc PROVE job'[q].staging <= writes[job'[q].account]
  BY DEF Amounts
<1>1. CASE q = p
  BY <1>1
<1>2. CASE q # p
  BY <1>2 DEF Others, Amounts
<1> QED
  BY <1>1, <1>2

\* The account of a preparation is a tenant that has no manifest; only the
\* process that serves requests has one.
LEMMA PreparingDoes ==
  ASSUME FInv, NEW p \in Process, Filing(p)
  PROVE  /\ p \in Service
         /\ job[p] \in Job /\ job[p].account \in Account /\ job[p].account \in Tenant
         /\ job[p].account \in dirs /\ job[p].port \in Port /\ manifest[job[p].account] = NoManifest
         /\ told[job[p].account] = {}
         /\ job[p].staging <= writes[job[p].account]
<1>1. job[p] \in Job /\ job[p].account \in Account /\ job[p].pc \in Pc
  BY JobTyped DEF FInv, Filing, Pc
<1>2. p \in Service /\ job[p].account \in dirs /\ job[p].port \in Port /\ manifest[job[p].account] = NoManifest
  BY DEF FInv, Filings, Preparing
<1>3. job[p].account \in Tenant /\ told[job[p].account] \in SUBSET Manifest
  BY <1>1, <1>2 DEF FInv, TypeOK
<1>4. told[job[p].account] \subseteq {NoManifest}
  BY <1>2, <1>3 DEF FInv, ConnectionIsStable
<1> QED
  BY <1>1, <1>2, <1>3, <1>4, Numbers DEF FInv, Amounts

LEMMA Rested ==
  ASSUME TypeOK, NEW p \in Process, NEW j \in {Idle, Down}, job' = [job EXCEPT ![p] = j]
  PROVE  /\ job' \in [Process -> Job \cup {Idle, Down}] /\ Others(p)
         /\ job'[p].pc \notin Pc /\ Preparing(p)'
<1>1. job' \in [Process -> Job \cup {Idle, Down}] /\ job'[p] = j /\ j.pc \in {"idle", "down"}
  BY DEF TypeOK, Idle, Down
<1> QED
  BY <1>1, StepOthers DEF Preparing, Filing, Pc

LEMMA EnterFiles ==
  ASSUME OneService, FInv, NEW p \in Process, NEW a \in Account, Enter(p, a)
  PROVE  FInv'
<1>0. UNCHANGED <<port, key, root, env, manifest, container, volume, dir, gone, writes, told, contested>>
      /\ budget' \in [Event -> Nat]
  <2>1. UNCHANGED <<port, key, root, env, manifest, container, volume, dir, gone, writes, told, contested>>
    BY DEF Enter, stack
  <2>2. Spend("update") \/ Spend("new") \/ UNCHANGED budget
    BY DEF Enter
  <2> QED
    BY <2>1, <2>2 DEF Spend, FInv, TypeOK, Event
<1>1. \A pc \in Pc, q \in {NoPort} \cup Port : Begin(pc, a, q) \in Job
  BY Numbers DEF Begin, Job, Pc
<1>2. \A pc, q : /\ Begin(pc, a, q).pc = pc /\ Begin(pc, a, q).account = a /\ Begin(pc, a, q).port = q
                 /\ Begin(pc, a, q).staging = Missing
  BY DEF Begin
<1>3. ConnectionIsStable'
  BY <1>0, ConnectionsSame DEF FInv
<1>4. Missing <= writes[a] /\ \A b \in Account : Prepared(b) => Prepared(b)'
  BY <1>0 DEF FInv, TypeOK, Missing, Prepared
<1>5. ASSUME NEW pc \in {"check", "port"}, NEW q \in {NoPort} \cup Port, job' = [job EXCEPT ![p] = Begin(pc, a, q)]
      PROVE  /\ job' \in [Process -> Job \cup {Idle, Down}] /\ Others(p) /\ Amounts'
             /\ job'[p].pc = pc /\ job'[p].account = a /\ job'[p].port = q
  <2>1. Begin(pc, a, q) \in Job
    BY <1>1 DEF Pc
  <2>2. /\ job' \in [Process -> Job \cup {Idle, Down}] /\ Others(p)
        /\ job'[p].pc = pc /\ job'[p].account = a /\ job'[p].port = q /\ job'[p].staging = Missing
    BY <1>2, <1>5, <2>1, StepOthers DEF FInv, TypeOK
  <2> QED
    BY <1>0, <1>4, <2>2, AmountsSame DEF FInv
<1>6. CASE Prepared(a)
  <2>1. job' = [job EXCEPT ![p] = Begin("check", a, NoPort)] /\ dirs' = dirs
    BY <1>6 DEF Enter
  <2>2. /\ job' \in [Process -> Job \cup {Idle, Down}] /\ Others(p) /\ Amounts'
        /\ job'[p].pc = "check" /\ job'[p].account = a
    BY <1>5, <2>1
  <2>3. Preparing(p)'
    BY <1>0, <1>6, <2>2 DEF Preparing, Filing, Prepared
  <2>4. Filings'
    BY <1>0, <1>4, <2>1, <2>2, <2>3, Aside
  <2> QED
    BY <1>0, <1>3, <2>1, <2>2, <2>4, PortsSame DEF FInv, TypeOK
<1>7. CASE ~Prepared(a)
  <2>1. /\ p \in Service
        /\ a \in Tenant /\ manifest[a] = NoManifest /\ dirs' = dirs \cup {a} /\ Torn \notin Used
        /\ \/ port[a] # NoPort /\ job' = [job EXCEPT ![p] = Begin("port", a, port[a])]
           \/ Port \subseteq Used /\ job' = job
           \/ ~(Port \subseteq Used) /\ job' = [job EXCEPT ![p] = Begin("port", a, FreePort)]
    <3> HIDE DEF Begin, FreePort, Used, Port
    <3> QED
      BY <1>7 DEF Enter, Refuses, Prepared, Account, Process
  <2>2. Ports'
    <3>1. port[a] \in Port /\ a \notin dirs => FALSE
      BY Numbers DEF FInv, Ports
    <3> QED
      BY <1>0, <2>1, <3>1 DEF FInv, Ports, PortsDistinct
  <2>3. \A q \in Port : q \notin Used => q = port[a] \/ q \notin Used'
    BY <1>0, <2>1 DEF Used
  <2>4. ASSUME NEW q \in Port, q = port[a] \/ q \notin Used, job' = [job EXCEPT ![p] = Begin("port", a, q)]
        PROVE  job' \in [Process -> Job \cup {Idle, Down}] /\ Others(p) /\ Amounts' /\ Preparing(p)'
    <3>1. /\ job' \in [Process -> Job \cup {Idle, Down}] /\ Others(p) /\ Amounts'
          /\ job'[p].pc = "port" /\ job'[p].account = a /\ job'[p].port = q
      BY <1>5, <2>4
    <3> QED
      BY <1>0, <2>1, <2>3, <2>4, <3>1 DEF Preparing, Filing
  <2>5. job' \in [Process -> Job \cup {Idle, Down}] /\ Others(p) /\ Amounts' /\ Preparing(p)'
    <3>1. CASE port[a] # NoPort /\ job' = [job EXCEPT ![p] = Begin("port", a, port[a])]
      <4>1. port[a] \in Port
        <5>1. a \in dirs /\ port[a] \in {Torn, NoPort} \cup Port
          BY <3>1 DEF FInv, Ports, TypeOK
        <5>2. port[a] # Torn
          BY <2>1, <5>1 DEF Used
        <5> QED
          BY <3>1, <5>1, <5>2
      <4> QED
        BY <2>4, <3>1, <4>1
    <3>2. CASE job' = job
      <4>1. job[p] = Idle
        BY DEF Enter
      <4>2. Preparing(p)' /\ job'[p].pc \notin Pc
        BY <3>2, <4>1 DEF Preparing, Filing, Idle, Pc
      <4>3. Others(p)
        BY <3>2 DEF Others
      <4> QED
        BY <1>0, <3>2, <4>2, <4>3, AmountsSame DEF FInv, TypeOK
    <3>3. CASE ~(Port \subseteq Used) /\ job' = [job EXCEPT ![p] = Begin("port", a, FreePort)]
      BY <2>4, <3>3, FreePortIs
    <3> QED
      BY <2>1, <3>1, <3>2, <3>3
  <2>6. Filings'
    BY <1>4, <2>1, <2>5, Aside
  <2>7. TypeOK'
    BY <1>0, <2>1, <2>5 DEF FInv, TypeOK
  <2> QED
    BY <1>3, <2>2, <2>5, <2>6, <2>7 DEF FInv
<1> QED
  BY <1>6, <1>7

LEMMA FilingStep ==
  ASSUME FInv, NEW p \in Process, NEW from \in {"port", "files", "env", "manifest"}, NEW to \in Pc,
         Step(p, from, to), UNCHANGED <<volume, dir, gone, writes>>
  PROVE  /\ job' \in [Process -> Job \cup {Idle, Down}] /\ Others(p) /\ Amounts' /\ Filing(p)
         /\ job[p].pc = from /\ job'[p].pc = to
         /\ job'[p].account = job[p].account /\ job'[p].port = job[p].port
<1>1. from \in Pc
  BY DEF Pc
<1>2. /\ job' \in [Process -> Job \cup {Idle, Down}] /\ job[p].pc = from /\ job'[p].pc = to
      /\ job'[p].account = job[p].account /\ job'[p].port = job[p].port /\ job'[p].staging = job[p].staging
  BY <1>1, StepDoes DEF FInv
<1>3. Filing(p) /\ Others(p)
  BY <1>2 DEF Filing, Step, Others, FInv, TypeOK
<1>4. job[p].staging <= writes[job[p].account]
  BY <1>3, PreparingDoes
<1> QED
  BY <1>2, <1>3, <1>4, AmountsSame DEF FInv

LEMMA WritePortFiles ==
  ASSUME OneService, FInv, NEW p \in Process, WritePort(p)
  PROVE  FInv'
<1> DEFINE a == job[p].account
           q == job[p].port
<1>0. UNCHANGED <<dirs, key, root, env, manifest, container, volume, dir, gone, writes, told, contested, budget>>
      /\ port' = [port EXCEPT ![a] = q] /\ Step(p, "port", "files")
  BY DEF WritePort, stack
<1>1. /\ job' \in [Process -> Job \cup {Idle, Down}] /\ Others(p) /\ Amounts' /\ Filing(p)
      /\ job[p].pc = "port" /\ job'[p].pc = "files"
      /\ job'[p].account = a /\ job'[p].port = q
  BY <1>0, FilingStep DEF Pc
<1>2. /\ p \in Service
      /\ a \in Account /\ a \in Tenant /\ a \in dirs /\ q \in Port /\ manifest[a] = NoManifest /\ told[a] = {}
      /\ q = port[a] \/ q \notin Used
  BY <1>1, PreparingDoes DEF FInv, Filings, Preparing
<1>3. /\ port' \in [Account -> {Torn, NoPort} \cup Port] /\ port'[a] = q
      /\ \A b \in Account : b # a => port'[b] = port[b]
  BY <1>0, <1>2 DEF FInv, TypeOK
<1>4. TypeOK'
  BY <1>0, <1>1, <1>3 DEF FInv, TypeOK
<1>5. Ports'
  <2>1. \A b \in dirs : b \in Account
    BY DEF FInv, TypeOK, Account
  <2>2. \A b \in dirs : b # a => port[b] # q
    BY <1>2, <2>1 DEF FInv, Ports, PortsDistinct, Used
  <2>3. PortsDistinct'
    BY <1>0, <1>3, <2>1, <2>2 DEF FInv, Ports, PortsDistinct
  <2> QED
    BY <1>0, <1>2, <1>3, <2>3 DEF FInv, Ports
<1>6. ConnectionIsStable'
  BY <1>0, <1>2, <1>3, ConnectionsAt DEF FInv, Account
<1>7. Preparing(p)'
  BY <1>0, <1>1, <1>2, <1>3 DEF Preparing, Filing
<1>8. Filings'
  BY <1>0, <1>1, <1>2, <1>7, Aside DEF Prepared
<1> QED
  BY <1>1, <1>4, <1>5, <1>6, <1>8 DEF FInv

LEMMA TearPortFiles ==
  ASSUME OneService, FInv, NEW p \in Process, TearPort(p)
  PROVE  FInv'
<1> DEFINE a == job[p].account
<1>0. UNCHANGED <<dirs, key, root, env, manifest, container, volume, dir, gone, writes, told, contested>>
      /\ port' = [port EXCEPT ![a] = Torn] /\ job' = [job EXCEPT ![p] = Down]
      /\ Filing(p) /\ Spend("torn")
  BY DEF TearPort, stack, Filing
<1>1. /\ job' \in [Process -> Job \cup {Idle, Down}] /\ Others(p) /\ Preparing(p)' /\ Amounts'
  BY <1>0, Rested, AmountsSame DEF FInv
<1>2. p \in Service /\ a \in Account /\ a \in Tenant /\ a \in dirs /\ manifest[a] = NoManifest /\ told[a] = {}
  BY <1>0, PreparingDoes
<1>3. /\ port' \in [Account -> {Torn, NoPort} \cup Port] /\ port'[a] = Torn
      /\ \A b \in Account : b # a => port'[b] = port[b]
  BY <1>0, <1>2 DEF FInv, TypeOK
<1>4. budget' \in [Event -> Nat]
  BY <1>0 DEF Spend, FInv, TypeOK, Event
<1>5. TypeOK'
  BY <1>0, <1>1, <1>3, <1>4 DEF FInv, TypeOK
<1>6. Ports'
  <2>1. \A b \in dirs : b \in Account
    BY DEF FInv, TypeOK, Account
  <2> QED
    BY <1>0, <1>2, <1>3, <2>1, Numbers DEF FInv, Ports, PortsDistinct
<1>7. ConnectionIsStable'
  BY <1>0, <1>2, <1>3, ConnectionsAt DEF FInv, Account
<1>8. Filings'
  BY <1>0, <1>1, <1>2, Aside DEF Prepared
<1> QED
  BY <1>1, <1>5, <1>6, <1>7, <1>8 DEF FInv

LEMMA WriteFilesFiles ==
  ASSUME OneService, FInv, NEW p \in Process, WriteFiles(p)
  PROVE  FInv'
<1> DEFINE a == job[p].account
<1>0. UNCHANGED <<dirs, port, root, env, manifest, container, volume, dir, gone, writes, told, contested, budget>>
      /\ job[p].pc = "files" /\ Filing(p)
  BY DEF WriteFiles, stack, Filing
<1>1. p \in Service /\ a \in Account /\ a \in Tenant /\ a \in dirs /\ manifest[a] = NoManifest /\ told[a] = {}
  BY <1>0, PreparingDoes
<1>2. Ports'
  BY <1>0, PortsSame DEF FInv
<1>3. CASE Sealed(a)
  <2>1. job' = [job EXCEPT ![p] = Idle] /\ UNCHANGED key
    BY <1>3 DEF WriteFiles, Fail
  <2>2. job' \in [Process -> Job \cup {Idle, Down}] /\ Others(p) /\ Preparing(p)' /\ Amounts'
    BY <1>0, <2>1, Rested, AmountsSame DEF FInv
  <2>3. TypeOK' /\ ConnectionIsStable'
    BY <1>0, <2>1, <2>2, ConnectionsSame DEF FInv, TypeOK
  <2>4. Filings'
    BY <1>0, <1>1, <2>2, Aside DEF Prepared
  <2> QED
    BY <1>2, <2>2, <2>3, <2>4 DEF FInv
<1>4. CASE ~Sealed(a)
  <2>1. Step(p, "files", "env") /\ key' = [key EXCEPT ![a] = @ + 1]
    BY <1>4 DEF WriteFiles
  <2>2. /\ job' \in [Process -> Job \cup {Idle, Down}] /\ Others(p) /\ Amounts'
        /\ job'[p].pc = "env" /\ job'[p].account = a /\ job'[p].port = job[p].port
    BY <1>0, <2>1, FilingStep DEF Pc
  <2>3. /\ key' \in [Account -> Nat]
        /\ \A b \in Account : b # a => key'[b] = key[b]
    BY <1>1, <2>1 DEF FInv, TypeOK
  <2>4. TypeOK'
    BY <1>0, <2>2, <2>3 DEF FInv, TypeOK
  <2>5. ConnectionIsStable'
    BY <1>0, <1>1, <2>3, ConnectionsAt DEF FInv, Account
  <2>6. Preparing(p)'
    BY <1>0, <2>2 DEF FInv, Filings, Preparing, Filing
  <2>7. Filings'
    BY <1>0, <1>1, <2>2, <2>6, Aside DEF Prepared
  <2> QED
    BY <1>2, <2>2, <2>4, <2>5, <2>7 DEF FInv
<1> QED
  BY <1>3, <1>4

LEMMA WriteEnvFiles ==
  ASSUME OneService, FInv, NEW p \in Process, WriteEnv(p)
  PROVE  FInv'
<1> DEFINE a == job[p].account
           q == job[p].port
<1>0. UNCHANGED <<dirs, port, key, root, manifest, container, volume, dir, gone, writes, told, contested, budget>>
      /\ Step(p, "env", "manifest") /\ env' = [env EXCEPT ![a] = [port |-> q, registered |-> FALSE]]
  BY DEF WriteEnv, stack
<1>1. /\ job' \in [Process -> Job \cup {Idle, Down}] /\ Others(p) /\ Amounts' /\ Filing(p)
      /\ job[p].pc = "env" /\ job'[p].pc = "manifest"
      /\ job'[p].account = a /\ job'[p].port = q
  BY <1>0, FilingStep DEF Pc
<1>2. /\ p \in Service
      /\ a \in Account /\ a \in Tenant /\ a \in dirs /\ q \in Port /\ manifest[a] = NoManifest /\ told[a] = {}
      /\ q = port[a]
  BY <1>1, PreparingDoes DEF FInv, Filings, Preparing
<1>3. /\ env' \in [Account -> [port: {NoPort} \cup Port, registered: BOOLEAN]]
      /\ env'[a].port = q /\ env'[a].registered = FALSE
      /\ \A b \in Account : b # a => env'[b] = env[b]
  BY <1>0, <1>2 DEF FInv, TypeOK
<1>4. TypeOK'
  BY <1>0, <1>1, <1>3 DEF FInv, TypeOK
<1>5. ConnectionIsStable'
  BY <1>0, <1>2, <1>3, ConnectionsAt DEF FInv, Account
<1>6. Ports'
  BY <1>0, PortsSame DEF FInv
<1>7. Preparing(p)'
  BY <1>0, <1>1, <1>2, <1>3 DEF Preparing, Filing
<1>8. Filings'
  BY <1>0, <1>1, <1>2, <1>7, Aside DEF Prepared
<1> QED
  BY <1>1, <1>4, <1>5, <1>6, <1>8 DEF FInv

LEMMA WriteManifestFiles ==
  ASSUME OneService, FInv, NEW p \in Process, WriteManifest(p)
  PROVE  FInv'
<1> DEFINE a == job[p].account
           m == [port |-> job[p].port, key |-> key[a]]
<1>0. UNCHANGED <<dirs, port, key, root, env, container, volume, dir, gone, writes, told, contested, budget>>
      /\ Step(p, "manifest", "check") /\ manifest' = [manifest EXCEPT ![a] = m]
  BY DEF WriteManifest, stack
<1>1. /\ job' \in [Process -> Job \cup {Idle, Down}] /\ Others(p) /\ Amounts' /\ Filing(p)
      /\ job[p].pc = "manifest" /\ job'[p].pc = "check"
      /\ job'[p].account = a
  BY <1>0, FilingStep DEF Pc
<1>2. /\ p \in Service
      /\ a \in Account /\ a \in Tenant /\ job[p].port \in Port /\ told[a] = {}
      /\ job[p].port = port[a] /\ job[p].port = env[a].port
  BY <1>1, PreparingDoes DEF FInv, Filings, Preparing
<1>3. m \in Manifest
  BY <1>2 DEF Manifest, FInv, TypeOK
<1>4. /\ manifest' \in [Account -> {NoManifest} \cup Manifest] /\ manifest'[a] = m
      /\ \A b \in Account : b # a => manifest'[b] = manifest[b]
  BY <1>0, <1>2, <1>3 DEF FInv, TypeOK
<1>5. TypeOK'
  BY <1>0, <1>1, <1>4 DEF FInv, TypeOK
<1>6. ConnectionIsStable'
  BY <1>0, <1>2, <1>4, ConnectionsAt DEF FInv, Account
<1>7. Ports'
  BY <1>0, PortsSame DEF FInv
<1>8. Prepared(a)' /\ \A b \in Account : Prepared(b) => Prepared(b)'
  <2>1. manifest'[a] # NoManifest
    BY <1>3, <1>4, Numbers
  <2>2. \A b \in Account : b = a \/ manifest'[b] = manifest[b]
    BY <1>4
  <2> QED
    BY <1>1, <2>1, <2>2 DEF Prepared
<1>9. Preparing(p)'
  BY <1>1, <1>8 DEF Preparing, Filing, Prepared
<1>10. Filings'
  BY <1>1, <1>2, <1>8, <1>9, Aside
<1> QED
  BY <1>1, <1>5, <1>6, <1>7, <1>10 DEF FInv

-----------------------------------------------------------------------------
(* Moving a workspace, beside update scripts *)

\* A step of the job of p once its account is prepared, or its end.
Moved(p) ==
    /\ job' \in [Process -> Job \cup {Idle, Down}] /\ Others(p)
    /\ job'[p].pc \in Pc =>
          /\ job[p].pc \in Pc /\ ~Filing(p) /\ ~Filing(p)'
          /\ job'[p].account = job[p].account
          /\ job'[p].staging <= writes[job[p].account]

LEMMA StepMoved ==
  ASSUME FInv, NEW p \in Process,
         NEW from \in {"check", "inspect", "stop", "copy", "rename", "register", "undo", "update"},
         NEW to \in {"check", "inspect", "stop", "copy", "rename", "register", "undo", "update"},
         Step(p, from, to)
  PROVE  Moved(p)
<1>1. from \in Pc /\ to \in Pc
  BY DEF Pc
<1>2. /\ job' \in [Process -> Job \cup {Idle, Down}] /\ job[p].pc = from /\ job'[p].pc = to
      /\ job'[p].account = job[p].account /\ job'[p].staging = job[p].staging
  BY <1>1, StepDoes DEF FInv
<1>3. Others(p)
  BY DEF Step, Others, FInv, TypeOK
<1>4. job[p].staging <= writes[job[p].account] /\ ~Filing(p) /\ ~Filing(p)'
  BY <1>1, <1>2 DEF FInv, Amounts, Filing
<1> QED
  BY <1>1, <1>2, <1>3, <1>4 DEF Moved

LEMMA RestedMoved ==
  ASSUME FInv, NEW p \in Process, NEW j \in {Idle, Down}, job' = [job EXCEPT ![p] = j]
  PROVE  Moved(p)
  BY Rested DEF Moved, FInv

\* The account stays prepared.
LEMMA MovedFilings ==
  ASSUME OneService, FInv, NEW p \in Process, Moved(p), UNCHANGED <<dirs, port, manifest>>,
         \A a \in Account : env'[a].port = env[a].port
  PROVE  Filings'
<1>1. \A a : Prepared(a) <=> Prepared(a)'
  BY DEF Prepared
<1>2. Preparing(p)'
  <2>1. CASE job'[p].pc \in Pc
    <3>1. Prepared(job[p].account) /\ job'[p].account = job[p].account /\ ~Filing(p)'
      BY <2>1 DEF Moved, FInv, Filings, Preparing
    <3> QED
      BY <3>1 DEF Preparing, Prepared
  <2>2. CASE job'[p].pc \notin Pc
    BY <2>2 DEF Preparing, Filing, Pc
  <2> QED
    BY <2>1, <2>2
<1> QED
  BY <1>1, <1>2, Aside DEF Moved

\* The steps that change no file and no workspace.
LEMMA MoveFiles ==
  ASSUME OneService, FInv, NEW p \in Process, Moved(p), UNCHANGED <<files, volume, dir, gone, writes, told>>,
         container' \in [Account -> Container], budget' \in [Event -> Nat], contested' \subseteq Account
  PROVE  FInv'
<1>1. UNCHANGED <<dirs, port, key, root, env, manifest>>
  BY DEF files
<1>2. Filings'
  BY <1>1, MovedFilings
<1>3. Amounts'
  BY AmountsSame DEF Moved, FInv
<1>4. TypeOK'
  BY <1>1 DEF Moved, FInv, TypeOK
<1> QED
  BY <1>1, <1>2, <1>3, <1>4, PortsSame, ConnectionsSame DEF FInv

LEMMA ContainerTyped ==
  ASSUME TypeOK, NEW a \in Account
  PROVE  /\ container[a] \in Container
         /\ \A s \in {"absent", "stopped", "running"} :
               /\ [container[a] EXCEPT !.state = s] \in Container
               /\ [container[a] EXCEPT !.state = s].state = s
               /\ [container[a] EXCEPT !.state = s].mount = container[a].mount
  BY DEF TypeOK, Container

LEMMA ContainerPut ==
  ASSUME TypeOK, NEW a \in Account, NEW c \in Container, container' = [container EXCEPT ![a] = c]
  PROVE  container' \in [Account -> Container]
  BY DEF TypeOK

LEMMA InspectDoes ==
  ASSUME FInv, NEW p \in Process, Inspect(p)
  PROVE  /\ Moved(p)
         /\ \/ Fail(p)
            \/ \E r \in BOOLEAN, v \in BOOLEAN :
                  /\ r = (container[job[p].account].state = "running") /\ v = (volume[job[p].account] # Missing)
                  /\ job'[p].pc = "stop" /\ job'[p].account = job[p].account
                  /\ job'[p].running = r /\ job'[p].source = v
<1> DEFINE a == job[p].account
<1>1. CASE Fail(p)
  BY <1>1, RestedMoved DEF Fail
<1>2. CASE job' = [job EXCEPT ![p].pc = "stop", ![p].running = container[a].state = "running",
                              ![p].source = volume[a] # Missing]
  <2>0. PICK r \in BOOLEAN, v \in BOOLEAN : r = (container[a].state = "running") /\ v = (volume[a] # Missing)
    OBVIOUS
  <2>1. job[p] \in Job /\ job[p].pc = "inspect" /\ job[p].pc \in Pc
        /\ job' = [job EXCEPT ![p].pc = "stop", ![p].running = r, ![p].source = v]
    BY <1>2, <2>0, JobTyped DEF Inspect, FInv, Pc
  <2>2. [job[p] EXCEPT !.pc = "stop", !.running = r, !.source = v] \in Job
    BY <2>1 DEF Job
  <2>3. /\ job' \in [Process -> Job \cup {Idle, Down}] /\ Others(p)
        /\ job'[p].pc = "stop" /\ job'[p].account = a
        /\ job'[p].running = r /\ job'[p].source = v /\ job'[p].staging = job[p].staging
    BY <2>1, <2>2 DEF FInv, TypeOK, Job, Others
  <2>4. Moved(p)
    BY <2>1, <2>3 DEF Moved, Filing, FInv, Amounts
  <2> QED
    BY <2>0, <2>3, <2>4
<1> QED
  BY <1>1, <1>2 DEF Inspect

LEMMA CopyDoes ==
  ASSUME FInv, NEW p \in Process, Copy(p)
  PROVE  /\ Moved(p) /\ job'[p].pc = "rename" /\ job'[p].account = job[p].account
         /\ job'[p].staging = IF job[p].source THEN volume[job[p].account] ELSE 0
<1>1. job[p] \in Job /\ job[p].pc = "copy" /\ job[p].pc \in Pc /\ job[p].account \in Account
  BY JobTyped DEF Copy, FInv, Pc
<1>2. PICK n \in {Missing} \cup Content : /\ n = IF job[p].source THEN volume[job[p].account] ELSE 0
                                          /\ n <= writes[job[p].account]
  BY <1>1, Numbers DEF FInv, TypeOK, Amounts
<1>3. job' = [job EXCEPT ![p].pc = "rename", ![p].staging = n]
  BY <1>1, <1>2 DEF Copy
<1>4. [job[p] EXCEPT !.pc = "rename", !.staging = n] \in Job
  BY <1>1 DEF Job
<1>5. /\ job' \in [Process -> Job \cup {Idle, Down}] /\ Others(p) /\ job'[p].pc = "rename"
      /\ job'[p].account = job[p].account /\ job'[p].staging = n
  BY <1>1, <1>3, <1>4 DEF FInv, TypeOK, Job, Others
<1> QED
  BY <1>1, <1>2, <1>5 DEF Moved, Filing

\* What a failing docker leaves.
LEMMA LeftoversAre ==
  ASSUME FInv, NEW p \in Process, NEW a \in Account, job[p].account = a, NEW c \in Leftovers(p)
  PROVE  /\ c \in Container
         /\ \/ c = container[a]
            \/ c.state = "stopped" /\ container[a].state = "running" /\ c.mount = container[a].mount
            \/ job[p].pc = "update" /\ c.mount = "dir"
<1>1. \/ c = container[a]
      \/ c = [container[a] EXCEPT !.state = "stopped"] /\ container[a].state = "running"
      \/ job[p].pc = "update" /\ c \in [state: {"absent", "stopped", "running"}, mount: {"dir"}]
  BY DEF Leftovers
<1>2. CASE c = container[a]
  BY <1>2, ContainerTyped DEF FInv
<1>3. CASE c = [container[a] EXCEPT !.state = "stopped"] /\ container[a].state = "running"
  BY <1>3, ContainerTyped DEF FInv
<1>4. CASE job[p].pc = "update" /\ c \in [state: {"absent", "stopped", "running"}, mount: {"dir"}]
  BY <1>4 DEF Container
<1> QED
  BY <1>1, <1>2, <1>3, <1>4

LEMMA DockerFailsDoes ==
  ASSUME FInv, NEW p \in Process, DockerFails(p)
  PROVE  /\ Moved(p)
         /\ \E a \in Account, c \in Container :
               /\ job[p].account = a /\ container' = [container EXCEPT ![a] = c]
               /\ \/ c = container[a]
                  \/ c.state = "stopped" /\ container[a].state = "running" /\ c.mount = container[a].mount
                  \/ job[p].pc = "update" /\ c.mount = "dir"
<1>1. PICK a \in Account : job[p].account = a
  BY JobTyped DEF DockerFails, FInv, Pc
<1>2. PICK c \in Leftovers(p) : container' = [container EXCEPT ![a] = c]
  BY <1>1 DEF DockerFails
<1>3. Moved(p)
  BY StepMoved, RestedMoved DEF DockerFails, Fail
<1>4. /\ c \in Container
      /\ \/ c = container[a]
         \/ c.state = "stopped" /\ container[a].state = "running" /\ c.mount = container[a].mount
         \/ job[p].pc = "update" /\ c.mount = "dir"
  BY <1>1, LeftoversAre
<1> QED
  BY <1>1, <1>2, <1>3, <1>4

LEMMA QuiesceDoes ==
  ASSUME FInv, NEW p \in Process, Quiesce(p)
  PROVE  /\ Moved(p)
         /\ \E a \in Account, c \in Container :
               /\ job[p].account = a /\ container' = [container EXCEPT ![a] = c]
               /\ job[p].running => c.state # "running"
               /\ c = container[a] \/ (/\ c.state = "stopped" /\ container[a].state = "running"
                                       /\ c.mount = container[a].mount)
<1>1. PICK a \in Account : job[p].account = a
  BY JobTyped DEF Quiesce, Step, FInv, Pc
<1>2. Moved(p)
  BY StepMoved DEF Quiesce
<1>3. CASE Stops(p) /\ container[a].state = "running"
  <2>1. container' = [container EXCEPT ![a] = [container[a] EXCEPT !.state = "stopped"]]
    BY <1>1, <1>3 DEF Quiesce
  <2> QED
    BY <1>1, <1>2, <1>3, <2>1, ContainerTyped DEF FInv
<1>4. CASE Stops(p) /\ container[a].state # "running"
  <2>1. container' = [container EXCEPT ![a].state = container[a].state]
    BY <1>1, <1>4 DEF Quiesce
  <2>2. container' = [container EXCEPT ![a] = container[a]]
    BY <2>1 DEF FInv, TypeOK, Container
  <2> QED
    BY <1>1, <1>2, <1>4, <2>2, ContainerTyped DEF FInv
<1>5. CASE ~Stops(p)
  <2>1. container' = [container EXCEPT ![a] = container[a]] /\ ~job[p].running
    BY <1>1, <1>5 DEF Quiesce, Stops, FInv, TypeOK
  <2> QED
    BY <1>1, <1>2, <2>1, ContainerTyped DEF FInv
<1> QED
  BY <1>3, <1>4, <1>5

LEMMA UndoDoes ==
  ASSUME FInv, NEW p \in Process, Undo(p)
  PROVE  /\ Moved(p)
         /\ \E a \in Account, c \in Container :
               /\ job[p].account = a /\ container' = [container EXCEPT ![a] = c]
               /\ c = container[a] \/ (/\ container[a].state # "absent" /\ c.state = "running"
                                       /\ c.mount = container[a].mount)
<1>1. PICK a \in Account : job[p].account = a
  BY JobTyped DEF Undo, FInv, Pc
<1>2. Moved(p)
  BY RestedMoved DEF Undo, Fail
<1>3. CASE job[p].running /\ container[a].state # "absent"
  <2>1. container' = [container EXCEPT ![a] = [container[a] EXCEPT !.state = "running"]]
    BY <1>1, <1>3 DEF Undo
  <2> QED
    BY <1>1, <1>2, <1>3, <2>1, ContainerTyped DEF FInv
<1>4. CASE ~(job[p].running /\ container[a].state # "absent")
  <2>1. container' = [container EXCEPT ![a] = container[a]]
    BY <1>1, <1>4 DEF Undo, FInv, TypeOK
  <2> QED
    BY <1>1, <1>2, <2>1, ContainerTyped DEF FInv
<1> QED
  BY <1>3, <1>4

LEMMA UpdateDoes ==
  ASSUME FInv, NEW p \in Process, Update(p)
  PROVE  /\ Moved(p)
         /\ \E a \in Account, c \in Container :
               /\ job[p].account = a /\ container' = [container EXCEPT ![a] = c]
               /\ c = container[a] \/ c.mount = "dir"
               /\ told' = IF a = Owner THEN told ELSE [told EXCEPT ![a] = @ \cup {manifest[a]}]
<1>1. PICK a \in Account : job[p].account = a
  BY JobTyped DEF Update, FInv, Pc
<1>2. Moved(p)
  BY RestedMoved DEF Update, Fail
<1>3. told' = IF a = Owner THEN told ELSE [told EXCEPT ![a] = @ \cup {manifest[a]}]
  BY <1>1 DEF Update
<1>4. CASE container' = [container EXCEPT ![a] = [state |-> "running", mount |-> "dir"]]
  <2>1. [state |-> "running", mount |-> "dir"] \in Container
    BY DEF Container
  <2> QED
    BY <1>1, <1>2, <1>3, <1>4, <2>1
<1>5. CASE UNCHANGED container
  <2>1. container' = [container EXCEPT ![a] = container[a]]
    BY <1>5 DEF FInv, TypeOK
  <2> QED
    BY <1>1, <1>2, <1>3, <2>1, ContainerTyped DEF FInv
<1> QED
  BY <1>1, <1>4, <1>5 DEF Update

LEMMA RenameFiles ==
  ASSUME OneService, FInv, NEW p \in Process, Rename(p)
  PROVE  FInv'
<1>0. UNCHANGED <<dirs, port, key, root, env, manifest, volume, writes, told, contested, budget>> /\ job[p].pc = "rename"
  BY DEF Rename, files
<1>1. PICK a \in Account : job[p].account = a
  BY <1>0, JobTyped DEF FInv, Pc
<1>2. Moved(p)
  BY StepMoved DEF Rename
<1>3. job[p].staging \in {Missing} \cup Content /\ job[p].staging <= writes[a] /\ 0 <= writes[a]
  BY <1>0, <1>1, JobTyped DEF FInv, Amounts, Pc, TypeOK
<1>4. /\ dir' = dir \/ dir' = [dir EXCEPT ![a] = job[p].staging]
      /\ gone' = gone \/ (gone' = [gone EXCEPT ![a] = dir[a]] /\ dir[a] \in {Missing, 0})
      /\ container' = container \/ container' = [container EXCEPT ![a].mount = "gone"]
  BY <1>1 DEF Rename
<1>5. /\ dir' \in [Account -> {Missing} \cup Content] /\ gone' \in [Account -> {Missing} \cup Content]
      /\ container' \in [Account -> Container]
  <2>1. dir \in [Account -> {Missing} \cup Content] /\ gone \in [Account -> {Missing} \cup Content]
        /\ container \in [Account -> Container] /\ dir[a] \in {Missing} \cup Content
    BY DEF FInv, TypeOK
  <2>2. dir' \in [Account -> {Missing} \cup Content] /\ gone' \in [Account -> {Missing} \cup Content]
    BY <1>3, <1>4, <2>1
  <2>3. [container[a] EXCEPT !.mount = "gone"] \in Container
    BY <2>1 DEF Container
  <2>4. container' \in [Account -> Container]
    BY <1>4, <2>1, <2>3
  <2> QED
    BY <2>2, <2>4
<1>6. TypeOK'
  BY <1>0, <1>2, <1>5 DEF FInv, TypeOK, Moved
<1>7. Amounts'
  <2>1. \A b \in Account : dir'[b] <= writes'[b] /\ gone'[b] <= writes'[b] /\ volume'[b] <= writes'[b]
    BY <1>0, <1>3, <1>4 DEF FInv, TypeOK, Amounts, Missing
  <2>2. \A q \in Process : job'[q].pc \in Pc => job'[q].staging <= writes'[job'[q].account]
    BY <1>0, <1>2 DEF Moved, Others, FInv, Amounts
  <2> QED
    BY <2>1, <2>2 DEF Amounts
<1>8. Filings'
  BY <1>0, <1>2, MovedFilings
<1> QED
  BY <1>0, <1>6, <1>7, <1>8, PortsSame, ConnectionsSame DEF FInv

LEMMA RegisterDoes ==
  ASSUME FInv, NEW p \in Process, Register(p)
  PROVE  \E a \in Account :
            /\ job[p].account = a
            /\ env' \in [Account -> [port: {NoPort} \cup Port, registered: BOOLEAN]]
            /\ env'[a].registered = TRUE /\ \A b \in Account : env'[b].port = env[b].port
            /\ \A b \in Account : b # a => env'[b] = env[b]
<1>1. PICK a \in Account : job[p].account = a
  BY JobTyped DEF Register, Step, FInv, Pc
<1>2. env[a] \in [port: {NoPort} \cup Port, registered: BOOLEAN]
  BY DEF FInv, TypeOK
<1>3. /\ [env[a] EXCEPT !.registered = TRUE] \in [port: {NoPort} \cup Port, registered: BOOLEAN]
      /\ [env[a] EXCEPT !.registered = TRUE].registered = TRUE
      /\ [env[a] EXCEPT !.registered = TRUE].port = env[a].port
  BY <1>2
<1>4. env' = [env EXCEPT ![a] = [env[a] EXCEPT !.registered = TRUE]]
  BY <1>1 DEF Register
<1> QED
  BY <1>1, <1>3, <1>4 DEF FInv, TypeOK

LEMMA RegisterFiles ==
  ASSUME OneService, FInv, NEW p \in Process, Register(p)
  PROVE  FInv'
<1>0. UNCHANGED <<dirs, port, key, root, manifest, container, volume, dir, gone, writes, told, contested, budget>>
  BY DEF Register, stack
<1>1. Moved(p)
  BY StepMoved DEF Register
<1>2. PICK a \in Account :
         /\ env' \in [Account -> [port: {NoPort} \cup Port, registered: BOOLEAN]]
         /\ \A b \in Account : env'[b].port = env[b].port
  BY RegisterDoes
<1>3. TypeOK'
  BY <1>0, <1>1, <1>2 DEF FInv, TypeOK, Moved
<1>4. Amounts'
  BY <1>0, <1>1, AmountsSame DEF FInv, Moved
<1>5. Filings'
  BY <1>0, <1>1, <1>2, MovedFilings
<1> QED
  BY <1>0, <1>2, <1>3, <1>4, <1>5, PortsSame, ConnectionsSame DEF FInv

\* The answer names the connection of the files.
LEMMA UpdateFiles ==
  ASSUME OneService, FInv, NEW p \in Process, Update(p)
  PROVE  FInv'
<1>0. UNCHANGED <<dirs, port, key, root, env, manifest, volume, dir, gone, writes, contested, budget>> /\ job[p].pc = "update"
  BY DEF Update, files
<1>1. PICK a \in Account, c \in Container :
         /\ job[p].account = a /\ container' = [container EXCEPT ![a] = c]
         /\ told' = IF a = Owner THEN told ELSE [told EXCEPT ![a] = @ \cup {manifest[a]}]
  BY UpdateDoes
<1>2. Moved(p) /\ container' \in [Account -> Container]
  BY <1>1, UpdateDoes, ContainerPut DEF FInv
<1>3. Prepared(a)
  BY <1>0, <1>1 DEF FInv, Filings, Preparing, Filing, Pc
<1>4. told' \in [Account -> SUBSET Manifest] /\ ConnectionIsStable'
  <2>1. CASE a = Owner
    BY <1>0, <1>1, <2>1, ConnectionsSame DEF FInv, TypeOK
  <2>2. CASE a # Owner
    <3>1. manifest[a] \in Manifest
      BY <1>3, <2>2 DEF FInv, TypeOK, Prepared
    <3>2. told' \in [Account -> SUBSET Manifest] /\ told'[a] = told[a] \cup {manifest[a]}
          /\ \A b \in Account : b # a => told'[b] = told[b]
      BY <1>1, <2>2, <3>1 DEF FInv, TypeOK
    <3>3. ConnectionIsStable'
      <4> SUFFICES ASSUME NEW b \in Tenant PROVE told'[b] \subseteq {manifest[b]}
        BY <1>0 DEF FInv, ConnectionIsStable
      <4>1. told[b] \subseteq {manifest[b]} /\ b \in Account
        BY DEF FInv, ConnectionIsStable, Account
      <4> QED
        BY <3>2, <4>1
    <3> QED
      BY <3>2, <3>3
  <2> QED
    BY <2>1, <2>2
<1>5. TypeOK'
  BY <1>0, <1>2, <1>4 DEF FInv, TypeOK, Moved
<1>6. Amounts'
  BY <1>0, <1>2, AmountsSame DEF FInv, Moved
<1>7. Filings'
  BY <1>0, <1>2, MovedFilings
<1> QED
  BY <1>0, <1>4, <1>5, <1>6, <1>7, PortsSame DEF FInv

LEMMA FilingsSame ==
  ASSUME FInv, UNCHANGED <<dirs, port, env, manifest, job>>
  PROVE  Filings'
  BY DEF FInv, Filings, Preparing, Filing, Prepared, Used

LEMMA AgentWritesFiles ==
  ASSUME FInv, NEW a \in Account, AgentWrites(a)
  PROVE  FInv'
<1>0. /\ UNCHANGED <<dirs, port, key, root, env, manifest, container, job, told, contested, budget>>
      /\ writes[a] < MaxWrites /\ writes' = [writes EXCEPT ![a] = @ + 1]
      /\ container[a].mount \in {"volume", "dir", "gone"}
  BY DEF AgentWrites, files, FInv, TypeOK, Container
<1>1. /\ volume' = volume \/ volume' = [volume EXCEPT ![a] = @ + 1]
      /\ dir' = dir \/ dir' = [dir EXCEPT ![a] = @ + 1]
      /\ gone' = gone \/ gone' = [gone EXCEPT ![a] = @ + 1]
  BY <1>0 DEF AgentWrites
<1>2. writes[a] \in Nat /\ MaxWrites \in Nat /\ writes[a] + 1 \in 0..MaxWrites
  BY <1>0, Numbers DEF FInv, TypeOK
<1>3. \A n \in {Missing} \cup Content : n <= writes[a] => n + 1 \in Content
  BY <1>0, <1>2 DEF Missing, Content
<1>4. /\ volume[a] + 1 \in Content /\ dir[a] + 1 \in Content /\ gone[a] + 1 \in Content
  BY <1>3 DEF FInv, TypeOK, Amounts
<1>5. TypeOK'
  <2>1. writes' \in [Account -> 0..MaxWrites]
    BY <1>0, <1>2 DEF FInv, TypeOK
  <2>2. \A f \in [Account -> {Missing} \cup Content] :
           f[a] + 1 \in Content => [f EXCEPT ![a] = @ + 1] \in [Account -> {Missing} \cup Content]
    OBVIOUS
  <2>3. /\ volume \in [Account -> {Missing} \cup Content] /\ dir \in [Account -> {Missing} \cup Content]
        /\ gone \in [Account -> {Missing} \cup Content]
    BY DEF FInv, TypeOK
  <2>4. /\ volume' \in [Account -> {Missing} \cup Content] /\ dir' \in [Account -> {Missing} \cup Content]
        /\ gone' \in [Account -> {Missing} \cup Content]
    BY <1>1, <1>4, <2>2, <2>3
  <2> QED
    BY <1>0, <2>1, <2>4 DEF FInv, TypeOK
<1>6. Amounts'
  <2>1. \A n \in {Missing} \cup Content : n \in Int
    BY DEF Missing, Content
  <2>2. \A b \in Account : volume[b] \in Int /\ dir[b] \in Int /\ gone[b] \in Int /\ writes[b] \in Int
    BY <2>1 DEF FInv, TypeOK
  <2>3. \A b \in Account : writes'[b] = IF b = a THEN writes[b] + 1 ELSE writes[b]
    BY <1>0 DEF FInv, TypeOK
  <2>4. ASSUME NEW b \in Account PROVE volume'[b] <= writes'[b] /\ dir'[b] <= writes'[b] /\ gone'[b] <= writes'[b]
    <3>1. /\ volume'[b] = volume[b] \/ (b = a /\ volume'[b] = volume[b] + 1)
          /\ dir'[b] = dir[b] \/ (b = a /\ dir'[b] = dir[b] + 1)
          /\ gone'[b] = gone[b] \/ (b = a /\ gone'[b] = gone[b] + 1)
      BY <1>1 DEF FInv, TypeOK
    <3> QED
      BY <2>2, <2>3, <3>1 DEF FInv, Amounts
  <2>5. ASSUME NEW q \in Process, job[q].pc \in Pc PROVE job[q].staging <= writes'[job[q].account]
    <3>1. /\ job[q].account \in Account /\ job[q].staging \in Int
          /\ job[q].staging <= writes[job[q].account]
      BY <2>1, <2>5, JobTyped DEF FInv, Amounts
    <3> QED
      BY <2>2, <2>3, <3>1
  <2> QED
    BY <1>0, <2>4, <2>5 DEF Amounts
<1> QED
  BY <1>0, <1>5, <1>6, FilingsSame, PortsSame, ConnectionsSame DEF FInv

LEMMA StackStopsDoes ==
  ASSUME FInv, NEW a \in Account, StackStops(a)
  PROVE  /\ budget' \in [Event -> Nat]
         /\ \E c \in Container : /\ container' = [container EXCEPT ![a] = c]
                                 /\ c.state = "stopped" /\ c.mount = container[a].mount
<1>1. container' = [container EXCEPT ![a] = [container[a] EXCEPT !.state = "stopped"]]
  BY DEF StackStops
<1>2. budget' \in [Event -> Nat]
  BY DEF StackStops, Spend, FInv, TypeOK, Event
<1>3. /\ [container[a] EXCEPT !.state = "stopped"] \in Container
      /\ [container[a] EXCEPT !.state = "stopped"].state = "stopped"
      /\ [container[a] EXCEPT !.state = "stopped"].mount = container[a].mount
  BY ContainerTyped DEF FInv
<1> QED
  BY <1>1, <1>2, <1>3

LEMMA StackStopsFiles ==
  ASSUME FInv, NEW a \in Account, StackStops(a)
  PROVE  FInv'
<1>0. UNCHANGED <<dirs, port, key, root, env, manifest, volume, dir, gone, writes, job, told, contested>>
  BY DEF StackStops, files
<1>1. container' \in [Account -> Container] /\ budget' \in [Event -> Nat]
  BY StackStopsDoes, ContainerPut DEF FInv
<1>2. TypeOK' /\ Amounts'
  BY <1>0, <1>1 DEF FInv, TypeOK, Amounts
<1> QED
  BY <1>0, <1>2, FilingsSame, PortsSame, ConnectionsSame DEF FInv

LEMMA CheckFiles ==
  ASSUME OneService, FInv, NEW p \in Process, CheckWorkspace(p)
  PROVE  FInv'
<1>1. Moved(p)
  BY StepMoved, RestedMoved DEF CheckWorkspace, Fail
<1>2. contested' \subseteq Account
  BY JobTyped DEF CheckWorkspace, FInv, TypeOK, Pc
<1>3. UNCHANGED <<files, volume, dir, gone, writes, told, container, budget>>
  BY DEF CheckWorkspace, stack
<1> QED
  BY <1>1, <1>2, <1>3, MoveFiles DEF FInv, TypeOK

LEMMA CopiesFiles ==
  ASSUME OneService, FInv, NEW p \in Process, Inspect(p) \/ Copy(p)
  PROVE  FInv'
<1>1. Moved(p)
  BY InspectDoes, CopyDoes
<1> QED
  BY <1>1, MoveFiles DEF Inspect, Copy, stack, FInv, TypeOK

LEMMA ContainerFiles ==
  ASSUME OneService, FInv, NEW p \in Process, Quiesce(p) \/ Undo(p) \/ DockerFails(p)
  PROVE  FInv'
<1>1. Moved(p) /\ container' \in [Account -> Container]
  BY QuiesceDoes, UndoDoes, DockerFailsDoes, ContainerPut DEF FInv
<1>2. UNCHANGED <<files, volume, dir, gone, writes, told, contested>>
  BY DEF Quiesce, Undo, DockerFails
<1>3. budget' \in [Event -> Nat]
  BY DEF Quiesce, Undo, DockerFails, Spend, FInv, TypeOK, Event
<1> QED
  BY <1>1, <1>2, <1>3, MoveFiles DEF FInv, TypeOK

LEMMA FaultFiles ==
  ASSUME OneService, FInv, NEW p \in Process, DiskFails(p) \/ Crash(p) \/ Restart(p)
  PROVE  FInv'
<1>1. Moved(p)
  BY StepMoved, RestedMoved DEF DiskFails, Crash, Restart
<1>2. UNCHANGED <<files, volume, dir, gone, writes, told, container, contested>>
  BY DEF DiskFails, Crash, Restart, stack
<1>3. budget' \in [Event -> Nat]
  BY DEF DiskFails, Crash, Restart, Spend, FInv, TypeOK, Event
<1> QED
  BY <1>1, <1>2, <1>3, MoveFiles DEF FInv, TypeOK

\* The files are kept right by the one process that serves requests, whatever
\* update scripts do.
LEMMA NextFiles == ASSUME OneService, FInv, [Next]_vars PROVE FInv'
<1>1. ASSUME NEW p \in Process, NEW a \in Account, Enter(p, a) PROVE FInv'
  BY <1>1, EnterFiles
<1>2. ASSUME NEW p \in Process, Advance(p) PROVE FInv'
  BY <1>2, WritePortFiles, WriteFilesFiles, WriteEnvFiles, WriteManifestFiles, CheckFiles, CopiesFiles,
     ContainerFiles, RenameFiles, RegisterFiles, UpdateFiles DEF Advance
<1>3. ASSUME NEW p \in Process, Fault(p) \/ Restart(p) PROVE FInv'
  BY <1>3, TearPortFiles, ContainerFiles, FaultFiles DEF Fault
<1>4. ASSUME NEW a \in Account, AgentWrites(a) \/ StackStops(a) PROVE FInv'
  BY <1>4, AgentWritesFiles, StackStopsFiles
<1>5. CASE UNCHANGED vars
  <2>1. UNCHANGED <<dirs, port, key, root, env, manifest, container, volume, dir, gone, writes, job, told, contested, budget>>
    BY <1>5 DEF vars, files, stack
  <2>2. TypeOK' /\ Amounts'
    BY <2>1 DEF FInv, TypeOK, Amounts
  <2> QED
    BY <2>1, <2>2, FilingsSame, PortsSame, ConnectionsSame DEF FInv
<1> QED
  BY <1>1, <1>2, <1>3, <1>4, <1>5 DEF Next

-----------------------------------------------------------------------------
(* Moving a workspace, with one process at a time between check and register *)

\* Nobody else is between the check and the registration of the account of a
\* process that is.
LEMMA MidAlone ==
  ASSUME IInv, NEW p \in Process, NEW q \in Process, q # p, Mid(p), Mid(q),
         job[q].account = job[p].account
  PROVE  job[p].account \in contested
  BY DEF IInv, Apart

\* What happens to one account is no matter of the others.
Elsewhere(a) ==
    \A b \in Account \ {a} :
        /\ container'[b] = container[b] /\ volume'[b] = volume[b] /\ dir'[b] = dir[b]
        /\ writes'[b] = writes[b] /\ env'[b] = env[b]

LEMMA KeptElsewhere ==
  ASSUME NEW a \in Account, NEW b \in Account, b # a, Elsewhere(a), Kept(b)
  PROVE  Kept(b)'
  BY DEF Kept, Elsewhere

LEMMA AccountOf ==
  ASSUME TypeOK, NEW p \in Process, job[p].pc \in Pc
  PROVE  \E a \in Account : job[p].account = a
  BY JobTyped

\* A step of one process that touches no workspace and does not begin to move
\* one.
LEMMA Outside ==
  ASSUME IInv, NEW p \in Process, Others(p), UNCHANGED <<container, volume, dir, writes, contested>>,
         job'[p].pc \notin MidPc \cup {"update"},
         \A a \in Account : env'[a].registered => env[a].registered,
         \A q \in Process : job[q].pc = "update" => env'[job[q].account] = env[job[q].account]
  PROVE  Workspaces' /\ Moves' /\ Apart'
<1>1. Workspaces'
  <2> SUFFICES ASSUME NEW a \in Account, a \notin contested PROVE Kept(a)'
    BY DEF Workspaces
  <2>1. Kept(a)
    BY DEF IInv, Workspaces
  <2> QED
    BY <2>1 DEF Kept
<1>2. Moves'
  <2> SUFFICES ASSUME NEW q \in Process, job'[q].pc \in Pc, job'[q].account \notin contested PROVE Moving(q)'
    BY DEF Moves
  <2>1. CASE q = p
    BY <2>1 DEF Moving, MidPc
  <2>2. CASE q # p
    <3>1. job'[q] = job[q] /\ Moving(q)
      BY <2>2 DEF Others, IInv, Moves
    <3>2. PICK a \in Account : job[q].account = a
      BY <3>1, AccountOf DEF IInv, FInv
    <3> QED
      BY <3>1, <3>2 DEF Moving
  <2> QED
    BY <2>1, <2>2
<1>3. Apart'
  <2> SUFFICES ASSUME NEW q \in Process, NEW r \in Process, q # r, Mid(q)', Mid(r)',
                      job'[q].account = job'[r].account
               PROVE  job'[q].account \in contested
    BY DEF Apart
  <2>1. q # p /\ r # p
    BY DEF Mid
  <2> QED
    BY <2>1 DEF Others, Mid, IInv, Apart
<1> QED
  BY <1>1, <1>2, <1>3

\* A step of one process on the account whose workspace it moves, or has: what
\* the others have seen stays true, since none of them moves this workspace.
LEMMA Beside ==
  ASSUME IInv, NEW p \in Process, NEW a \in Account, job[p].account = a,
         job[p].pc \in MidPc \cup {"update"}, Moved(p), job'[p].pc \in Pc => job[p].pc \in MidPc,
         UNCHANGED contested, Elsewhere(a), env[a].registered => env'[a].registered,
         a \notin contested => Kept(a)' /\ (job'[p].pc \in Pc => Moving(p)')
  PROVE  Workspaces' /\ Moves' /\ Apart'
<1>0. Others(p) /\ (job'[p].pc \in Pc => job'[p].account = a)
  BY DEF Moved
<1>1. Workspaces'
  <2> SUFFICES ASSUME NEW b \in Account, b \notin contested PROVE Kept(b)'
    BY DEF Workspaces
  <2>1. Kept(b)
    BY DEF IInv, Workspaces
  <2> QED
    BY <2>1, KeptElsewhere
<1>2. Moves'
  <2> SUFFICES ASSUME NEW q \in Process, job'[q].pc \in Pc, job'[q].account \notin contested PROVE Moving(q)'
    BY DEF Moves
  <2>1. CASE q = p
    BY <1>0, <2>1
  <2>2. CASE q # p
    <3>1. job'[q] = job[q] /\ Moving(q) /\ job[q].pc \in Pc
      BY <1>0, <2>2 DEF Others, IInv, Moves
    <3>2. PICK b \in Account : job[q].account = b
      BY <3>1, AccountOf DEF IInv, FInv
    <3>3. CASE b # a
      BY <3>1, <3>2, <3>3 DEF Moving, Elsewhere
    <3>4. CASE b = a
      <4>1. Moving(p)
        BY <2>2, <3>1, <3>2, <3>4 DEF IInv, Moves, MidPc, Pc
      <4>2. job[q].pc \notin MidPc
        <5>1. CASE job[p].pc = "update"
          BY <3>1, <3>2, <3>4, <4>1, <5>1 DEF Moving, MidPc
        <5>2. CASE job[p].pc \in MidPc
          BY <2>2, <3>1, <3>2, <3>4, <5>2, MidAlone DEF Mid
        <5> QED
          BY <5>1, <5>2
      <4> QED
        BY <3>1, <3>2, <3>4, <4>2 DEF Moving, MidPc
    <3> QED
      BY <3>3, <3>4
  <2> QED
    BY <2>1, <2>2
<1>3. Apart'
  <2> SUFFICES ASSUME NEW q \in Process, NEW r \in Process, q # r, Mid(q)', Mid(r)',
                      job'[q].account = job'[r].account
               PROVE  job'[q].account \in contested
    BY DEF Apart
  <2>1. \A x \in {q, r} : Mid(x) /\ job'[x].account = job[x].account
    BY <1>0 DEF Others, Mid, MidPc, Pc
  <2> QED
    BY <2>1 DEF IInv, Apart
<1> QED
  BY <1>1, <1>2, <1>3

LEMMA EnterMoves ==
  ASSUME IInv, NEW p \in Process, NEW a \in Account, Enter(p, a)
  PROVE  Workspaces' /\ Moves' /\ Apart'
<1>1. UNCHANGED <<env, container, volume, dir, writes, contested>> /\ job[p] = Idle
  BY DEF Enter, stack
<1>2. \A pc, q : Begin(pc, a, q).pc = pc
  BY DEF Begin
<1>3. \/ job' = job
      \/ \E q : job' = [job EXCEPT ![p] = Begin("check", a, q)] \/ job' = [job EXCEPT ![p] = Begin("port", a, q)]
  <2> HIDE DEF Begin, FreePort, Used, Port
  <2> QED
    BY DEF Enter
<1>4. job'[p].pc \in {"idle", "check", "port"} /\ Others(p)
  BY <1>1, <1>2, <1>3 DEF IInv, FInv, TypeOK, Idle, Others
<1> QED
  BY <1>1, <1>4, Outside DEF MidPc

\* A preparation writes no file of an account whose stack is brought up.
LEMMA FilingMoves ==
  ASSUME IInv, NEW p \in Process,
         WritePort(p) \/ WriteFiles(p) \/ WriteEnv(p) \/ WriteManifest(p) \/ TearPort(p)
  PROVE  Workspaces' /\ Moves' /\ Apart'
<1>1. UNCHANGED <<container, volume, dir, writes, contested>> /\ (env' = env \/ WriteEnv(p))
  BY DEF WritePort, WriteFiles, WriteEnv, WriteManifest, TearPort, stack
<1>2. ASSUME WriteEnv(p) PROVE \A a \in Account : env'[a].registered => env[a].registered
  BY <1>2 DEF WriteEnv, IInv, FInv, TypeOK
<1>3. ASSUME WriteEnv(p), NEW q \in Process, job[q].pc = "update"
      PROVE  env'[job[q].account] = env[job[q].account]
  <2>1. PICK a \in Account : job[q].account = a
    BY <1>3, AccountOf DEF IInv, FInv, Pc
  <2>2. Prepared(a)
    BY <1>3, <2>1 DEF IInv, FInv, Filings, Preparing, Filing, Pc
  <2>3. Filing(p)
    BY <1>3 DEF WriteEnv, Step, Filing
  <2>4. job[p].account \in Tenant /\ manifest[job[p].account] = NoManifest
    BY <2>3, PreparingDoes DEF IInv
  <2>5. job[p].account # a
    BY <2>2, <2>4, AccountAssumption DEF Prepared
  <2> QED
    BY <1>3, <2>1, <2>5 DEF WriteEnv, IInv, FInv, TypeOK
<1>4. job'[p].pc \in {"files", "env", "manifest", "check", "idle", "down"} /\ Others(p)
  <2>1. \/ \E to \in {"files", "env", "manifest", "check"} : job[p].pc \in Pc /\ job' = [job EXCEPT ![p].pc = to]
        \/ \E j \in {Idle, Down} : job' = [job EXCEPT ![p] = j]
    BY DEF WritePort, WriteFiles, WriteEnv, WriteManifest, TearPort, Step, Fail, Pc
  <2>2. ASSUME job[p].pc \in Pc, NEW to \in {"files", "env", "manifest", "check"}, job' = [job EXCEPT ![p].pc = to]
        PROVE  job'[p].pc = to
    BY <2>2, JobTyped DEF IInv, FInv, TypeOK, Job
  <2>3. ASSUME NEW j \in {Idle, Down}, job' = [job EXCEPT ![p] = j] PROVE job'[p].pc \in {"idle", "down"}
    BY <2>3 DEF IInv, FInv, TypeOK, Idle, Down
  <2>4. Others(p)
    BY <2>1 DEF Others, IInv, FInv, TypeOK
  <2> QED
    BY <2>1, <2>2, <2>3, <2>4
<1> QED
  BY <1>1, <1>2, <1>3, <1>4, Outside DEF MidPc

\* The one step with which a process begins to move a workspace.
LEMMA CheckMoves ==
  ASSUME IInv, NEW p \in Process, CheckWorkspace(p)
  PROVE  Workspaces' /\ Moves' /\ Apart'
<1>1. UNCHANGED <<env, container, volume, dir, writes>> /\ job[p].pc = "check"
  BY DEF CheckWorkspace, files, stack
<1>2. PICK a \in Account : job[p].account = a
  BY <1>1, AccountOf DEF IInv, FInv, Pc
<1>3. CASE Fail(p) /\ UNCHANGED contested
  <2>1. Others(p) /\ job'[p].pc \notin Pc
    BY <1>3, Rested DEF Fail, IInv, FInv
  <2> QED
    BY <1>1, <1>3, <2>1, Outside DEF MidPc, Pc
<1>4. ASSUME NEW to \in {"update", "inspect"}, Step(p, "check", to), contested \subseteq contested',
             to = "update" => env[a].registered,
             to = "inspect" => /\ ~env[a].registered /\ dir[a] = Missing
                               /\ (\E q \in Process : Midway(q, a)) => a \in contested'
      PROVE  Workspaces' /\ Moves' /\ Apart'
  <2>1. job'[p].pc = to /\ job'[p].account = a /\ Others(p)
    BY <1>2, <1>4, StepDoes, StepOthers DEF IInv, FInv, Pc, Step, TypeOK, Others
  <2>2. Workspaces'
    BY <1>1, <1>4 DEF IInv, Workspaces, Kept
  <2>3. Moves'
    <3> SUFFICES ASSUME NEW q \in Process, job'[q].pc \in Pc, job'[q].account \notin contested' PROVE Moving(q)'
      BY DEF Moves
    <3>1. CASE q = p
      BY <1>1, <1>4, <2>1, <3>1 DEF Moving
    <3>2. CASE q # p
      <4>1. job'[q] = job[q]
        BY <2>1, <3>2 DEF Others
      <4>2. Moving(q)
        BY <1>4, <4>1 DEF IInv, Moves
      <4> QED
        BY <1>1, <4>1, <4>2 DEF Moving
    <3> QED
      BY <3>1, <3>2
  <2>4. Apart'
    <3> SUFFICES ASSUME NEW q \in Process, NEW r \in Process, q # r, Mid(q)', Mid(r)',
                        job'[q].account = job'[r].account
                 PROVE  job'[q].account \in contested'
      BY DEF Apart
    <3>1. \A x \in Process \ {p} : job'[x] = job[x]
      BY <2>1 DEF Others
    <3>2. CASE q # p /\ r # p
      <4>1. job[q].account \in contested
        BY <3>1, <3>2 DEF Mid, IInv, Apart
      <4> QED
        BY <1>4, <3>1, <3>2, <4>1
    <3>3. ASSUME NEW x \in {q, r} \ {p}, p \in {q, r} PROVE a \in contested'
      <4>1. Midway(x, a) /\ to = "inspect"
        BY <2>1, <3>1, <3>3 DEF Mid, MidPc, Midway
      <4> QED
        BY <1>4, <4>1
    <3> QED
      BY <2>1, <3>2, <3>3
  <2> QED
    BY <2>2, <2>3, <2>4
<1>5. CASE env[a].registered /\ Step(p, "check", "update") /\ UNCHANGED contested
  BY <1>4, <1>5
<1>6. CASE /\ ~env[a].registered /\ dir[a] = Missing /\ Step(p, "check", "inspect")
           /\ contested' = IF \E q \in Process : Midway(q, a) THEN contested \cup {a} ELSE contested
  <2>1. contested \subseteq contested' /\ ((\E q \in Process : Midway(q, a)) => a \in contested')
    BY <1>6
  <2> QED
    BY <1>4, <1>6, <2>1
<1> QED
  BY <1>2, <1>3, <1>5, <1>6 DEF CheckWorkspace

\* A step that changes at most one container.
LEMMA OneContainer ==
  ASSUME TypeOK, NEW a \in Account, NEW c, container' = [container EXCEPT ![a] = c],
         UNCHANGED <<env, volume, dir, writes>>
  PROVE  container'[a] = c /\ Elsewhere(a)
  BY DEF TypeOK, Elsewhere

LEMMA SameStack ==
  ASSUME NEW a \in Account, UNCHANGED <<env, container, volume, dir, writes>>
  PROVE  Elsewhere(a) /\ (Kept(a) => Kept(a)')
  BY DEF Kept, Elsewhere

LEMMA InspectMoves ==
  ASSUME IInv, NEW p \in Process, Inspect(p)
  PROVE  Workspaces' /\ Moves' /\ Apart'
<1>1. UNCHANGED <<env, container, volume, dir, writes, contested>> /\ job[p].pc = "inspect"
  BY DEF Inspect, files, stack
<1>2. PICK a \in Account : job[p].account = a
  BY <1>1, AccountOf DEF IInv, FInv, Pc
<1>3. Moved(p)
  BY InspectDoes DEF IInv
<1>4. ASSUME a \notin contested, job'[p].pc \in Pc PROVE Moving(p)'
  <2>1. dir[a] = Missing /\ ~env[a].registered
    BY <1>1, <1>2, <1>4 DEF IInv, Moves, Moving, Pc
  <2>2. ~Fail(p)
    BY <1>4, Rested DEF Fail, IInv, FInv
  <2>3. PICK r \in BOOLEAN, v \in BOOLEAN :
           /\ r = (container[a].state = "running") /\ v = (volume[a] # Missing)
           /\ job'[p].pc = "stop" /\ job'[p].account = a
           /\ job'[p].running = r /\ job'[p].source = v
    BY <1>2, <2>2, InspectDoes DEF IInv
  <2> QED
    BY <1>1, <2>1, <2>3 DEF Moving
<1>5. a \notin contested => Kept(a)
  BY DEF IInv, Workspaces
<1> QED
  BY <1>1, <1>2, <1>3, <1>4, <1>5, SameStack, Beside DEF MidPc

LEMMA QuiesceMoves ==
  ASSUME IInv, NEW p \in Process, Quiesce(p)
  PROVE  Workspaces' /\ Moves' /\ Apart'
<1>0. UNCHANGED <<env, volume, dir, writes, contested>> /\ Step(p, "stop", "copy")
  BY DEF Quiesce, files
<1>1. /\ job[p].pc = "stop" /\ job'[p].pc = "copy"
      /\ job'[p].account = job[p].account /\ job'[p].source = job[p].source
  BY <1>0, StepDoes DEF IInv, FInv, Pc
<1>2. PICK a \in Account, c \in Container :
         /\ job[p].account = a /\ container' = [container EXCEPT ![a] = c]
         /\ job[p].running => c.state # "running"
         /\ c = container[a] \/ (c.state = "stopped" /\ container[a].state = "running" /\ c.mount = container[a].mount)
  BY QuiesceDoes DEF IInv
<1>3. container'[a] = c /\ Elsewhere(a) /\ Moved(p)
  BY <1>0, <1>2, OneContainer, QuiesceDoes DEF IInv, FInv
<1>4. ASSUME a \notin contested PROVE Kept(a)' /\ Moving(p)'
  <2>1. /\ Kept(a) /\ dir[a] = Missing /\ ~env[a].registered /\ (job[p].source <=> volume[a] # Missing)
        /\ c.state # "running"
    BY <1>1, <1>2, <1>4 DEF IInv, Workspaces, Moves, Moving, Pc
  <2>2. Kept(a)'
    BY <1>0, <1>2, <1>3, <2>1 DEF Kept
  <2>3. Moving(p)'
    BY <1>0, <1>1, <1>2, <1>3, <2>1 DEF Moving
  <2> QED
    BY <2>2, <2>3
<1> QED
  BY <1>0, <1>1, <1>2, <1>3, <1>4, Beside DEF MidPc

\* The copy has everything: the stack does not run.
LEMMA CopyMoves ==
  ASSUME IInv, NEW p \in Process, Copy(p)
  PROVE  Workspaces' /\ Moves' /\ Apart'
<1>0. UNCHANGED <<env, container, volume, dir, writes, contested>> /\ job[p].pc = "copy"
  BY DEF Copy, files, stack
<1>1. PICK a \in Account : job[p].account = a
  BY <1>0, AccountOf DEF IInv, FInv, Pc
<1>2. /\ job'[p].pc = "rename" /\ job'[p].account = a /\ Moved(p)
      /\ job'[p].staging = IF job[p].source THEN volume[a] ELSE 0
  BY <1>1, CopyDoes DEF IInv
<1>3. ASSUME a \notin contested PROVE Kept(a) /\ Moving(p)'
  <2>1. /\ Kept(a) /\ dir[a] = Missing /\ ~env[a].registered /\ (job[p].source <=> volume[a] # Missing)
        /\ container[a].state # "running"
    BY <1>0, <1>1, <1>3 DEF IInv, Workspaces, Moves, Moving, Pc
  <2>2. writes[a] \in Content /\ container[a].mount \in {"volume", "dir", "gone"}
    BY DEF IInv, FInv, TypeOK, Content, Container
  <2>3. container[a].mount = "volume"
    BY <2>1, <2>2, Numbers DEF Kept
  <2>4. job'[p].staging = writes[a]
    BY <1>2, <2>1, <2>2, <2>3, Numbers DEF Kept
  <2> QED
    BY <1>0, <1>2, <2>1, <2>4 DEF Moving
<1> QED
  BY <1>0, <1>1, <1>2, <1>3, SameStack, Beside DEF MidPc

LEMMA RenameDoes ==
  ASSUME TypeOK, NEW p \in Process, NEW a \in Account, job[p].account = a, Rename(p)
  PROVE  Elsewhere(a)
<1>1. UNCHANGED <<env, volume, writes>>
  BY DEF Rename, files
<1>2. /\ dir' = dir \/ dir' = [dir EXCEPT ![a] = job[p].staging]
      /\ container' = container \/ container' = [container EXCEPT ![a].mount = "gone"]
  BY DEF Rename
<1> QED
  BY <1>1, <1>2 DEF Elsewhere, TypeOK

\* The directory is new: nothing is replaced.
LEMMA RenameMoves ==
  ASSUME IInv, NEW p \in Process, Rename(p)
  PROVE  Workspaces' /\ Moves' /\ Apart'
<1>0. UNCHANGED <<env, volume, writes, contested>> /\ job[p].pc = "rename"
  BY DEF Rename, files
<1>1. PICK a \in Account : job[p].account = a
  BY <1>0, AccountOf DEF IInv, FInv, Pc
<1>2. Moved(p) /\ Elsewhere(a)
  BY <1>1, StepMoved, RenameDoes DEF Rename, IInv, FInv
<1>3. ASSUME a \notin contested PROVE Kept(a)' /\ Moving(p)'
  <2>1. /\ Kept(a) /\ dir[a] = Missing /\ ~env[a].registered /\ job[p].staging = writes[a]
        /\ container[a].state # "running"
    BY <1>0, <1>1, <1>3 DEF IInv, Workspaces, Moves, Moving, Pc
  <2>2. writes[a] \in Content
    BY DEF IInv, FInv, TypeOK, Content
  <2>3. container[a].mount # "dir"
    BY <2>1, <2>2, Numbers DEF Kept
  <2>4. Step(p, "rename", "register") /\ dir' = [dir EXCEPT ![a] = writes[a]] /\ UNCHANGED container
    BY <1>1, <2>1, <2>3 DEF Rename
  <2>5. job'[p].pc = "register" /\ job'[p].account = a
    BY <1>1, <2>4, StepDoes DEF IInv, FInv, Pc
  <2>6. dir'[a] = writes[a]
    BY <2>4 DEF IInv, FInv, TypeOK
  <2>7. Kept(a)'
    BY <1>0, <2>1, <2>3, <2>4, <2>6 DEF Kept
  <2>8. Moving(p)'
    BY <1>0, <2>1, <2>4, <2>5, <2>6 DEF Moving
  <2> QED
    BY <2>7, <2>8
<1> QED
  BY <1>0, <1>1, <1>2, <1>3, Beside DEF MidPc

LEMMA RegisterMoves ==
  ASSUME IInv, NEW p \in Process, Register(p)
  PROVE  Workspaces' /\ Moves' /\ Apart'
<1>0. UNCHANGED <<container, volume, dir, writes, contested>> /\ Step(p, "register", "update")
  BY DEF Register, stack
<1>1. /\ job[p].pc = "register" /\ job'[p].pc = "update" /\ job'[p].account = job[p].account /\ Moved(p)
  BY <1>0, StepDoes, StepMoved DEF IInv, FInv, Pc
<1>2. PICK a \in Account :
         /\ job[p].account = a
         /\ env'[a].registered = TRUE /\ \A b \in Account : b # a => env'[b] = env[b]
  BY RegisterDoes DEF IInv
<1>3. Elsewhere(a)
  BY <1>0, <1>2 DEF Elsewhere
<1>4. ASSUME a \notin contested PROVE Kept(a)' /\ Moving(p)'
  <2>1. Kept(a) /\ dir[a] = writes[a] /\ container[a].state # "running"
    BY <1>1, <1>2, <1>4 DEF IInv, Workspaces, Moves, Moving, Pc
  <2> QED
    BY <1>0, <1>1, <1>2, <2>1 DEF Kept, Moving
<1> QED
  BY <1>0, <1>1, <1>2, <1>3, <1>4, Beside DEF MidPc

\* A failure after the container was stopped goes on with the handler.
LEMMA UndoneMoving ==
  ASSUME IInv, NEW p \in Process, NEW a \in Account, job[p].account = a, a \notin contested,
         NEW from \in {"copy", "register"}, Step(p, from, "undo"), UNCHANGED env
  PROVE  Moving(p)'
<1>1. /\ job[p].pc = from /\ job'[p].pc = "undo" /\ job'[p].account = a
  BY StepDoes DEF IInv, FInv, Pc
<1>2. ~env[a].registered
  BY <1>1 DEF IInv, Moves, Moving, Pc
<1> QED
  BY <1>1, <1>2 DEF Moving

LEMMA DockerFailsMoves ==
  ASSUME IInv, NEW p \in Process, DockerFails(p)
  PROVE  Workspaces' /\ Moves' /\ Apart'
<1>0. UNCHANGED <<env, volume, dir, writes, contested>> /\ job[p].pc \in {"inspect", "stop", "copy", "update"}
  BY DEF DockerFails, files
<1>1. PICK a \in Account, c \in Container :
         /\ job[p].account = a /\ container' = [container EXCEPT ![a] = c]
         /\ \/ c = container[a]
            \/ c.state = "stopped" /\ container[a].state = "running" /\ c.mount = container[a].mount
            \/ job[p].pc = "update" /\ c.mount = "dir"
  BY DockerFailsDoes DEF IInv
<1>2. container'[a] = c /\ Elsewhere(a) /\ Moved(p)
  BY <1>0, <1>1, OneContainer, DockerFailsDoes DEF IInv, FInv
<1>3. ASSUME a \notin contested PROVE Kept(a)'
  <2>1. Kept(a) /\ (job[p].pc = "update" => env[a].registered)
    BY <1>1, <1>3 DEF IInv, Workspaces, Moves, Moving, Pc
  <2> QED
    BY <1>0, <1>1, <1>2, <2>1 DEF Kept
<1>4. Step(p, "copy", "undo") \/ job'[p].pc \notin Pc
  BY Rested DEF DockerFails, Fail, IInv, FInv
<1>5. a \notin contested => (job'[p].pc \in Pc => Moving(p)')
  BY <1>0, <1>1, <1>4, UndoneMoving
<1>6. job'[p].pc \in Pc => job[p].pc \in MidPc
  BY <1>4 DEF Step, MidPc
<1> QED
  BY <1>0, <1>1, <1>2, <1>3, <1>5, <1>6, Beside DEF MidPc

LEMMA DiskFailsMoves ==
  ASSUME IInv, NEW p \in Process, DiskFails(p)
  PROVE  Workspaces' /\ Moves' /\ Apart'
<1>1. Step(p, "register", "undo") /\ UNCHANGED <<env, container, volume, dir, writes, contested>>
  BY DEF DiskFails, files, stack
<1>2. job[p].pc = "register" /\ Moved(p)
  BY <1>1, StepMoved DEF Step, IInv
<1>3. PICK a \in Account : job[p].account = a
  BY <1>2, AccountOf DEF IInv, FInv, Pc
<1>4. a \notin contested => Moving(p)' /\ Kept(a)
  BY <1>1, <1>3, UndoneMoving DEF IInv, Workspaces
<1> QED
  BY <1>1, <1>2, <1>3, <1>4, SameStack, Beside DEF MidPc

\* What runs again has not been registered as moved.
LEMMA UndoMoves ==
  ASSUME IInv, NEW p \in Process, Undo(p)
  PROVE  Workspaces' /\ Moves' /\ Apart'
<1>0. UNCHANGED <<env, volume, dir, writes, contested>> /\ job[p].pc = "undo" /\ Fail(p)
  BY DEF Undo, files
<1>1. PICK a \in Account, c \in Container :
         /\ job[p].account = a /\ container' = [container EXCEPT ![a] = c]
         /\ c = container[a] \/ (container[a].state # "absent" /\ c.state = "running" /\ c.mount = container[a].mount)
  BY UndoDoes DEF IInv
<1>2. container'[a] = c /\ Elsewhere(a) /\ Moved(p) /\ job'[p].pc \notin Pc
  BY <1>0, <1>1, OneContainer, UndoDoes, Rested DEF Fail, IInv, FInv
<1>3. ASSUME a \notin contested PROVE Kept(a)'
  <2>1. Kept(a) /\ ~env[a].registered
    BY <1>0, <1>1, <1>3 DEF IInv, Workspaces, Moves, Moving, Pc
  <2> QED
    BY <1>0, <1>1, <1>2, <2>1 DEF Kept
<1> QED
  BY <1>0, <1>1, <1>2, <1>3, Beside DEF MidPc

LEMMA UpdateMoves ==
  ASSUME IInv, NEW p \in Process, Update(p)
  PROVE  Workspaces' /\ Moves' /\ Apart'
<1>0. UNCHANGED <<env, volume, dir, writes, contested>> /\ job[p].pc = "update" /\ Fail(p)
  BY DEF Update, files
<1>1. PICK a \in Account, c \in Container :
         /\ job[p].account = a /\ container' = [container EXCEPT ![a] = c]
         /\ c = container[a] \/ c.mount = "dir"
  BY UpdateDoes DEF IInv
<1>2. container'[a] = c /\ Elsewhere(a) /\ Moved(p) /\ job'[p].pc \notin Pc
  BY <1>0, <1>1, OneContainer, UpdateDoes, Rested DEF Fail, IInv, FInv
<1>3. ASSUME a \notin contested PROVE Kept(a)'
  <2>1. Kept(a) /\ env[a].registered
    BY <1>0, <1>1, <1>3 DEF IInv, Workspaces, Moves, Moving, Pc
  <2> QED
    BY <1>0, <1>1, <1>2, <2>1 DEF Kept
<1> QED
  BY <1>0, <1>1, <1>2, <1>3, Beside

-----------------------------------------------------------------------------
(* Around the broker *)

\* What a job has seen of a stack stays true while its agent writes and when
\* it stops.
LEMMA MovingStays ==
  ASSUME TypeOK, NEW p \in Process, NEW a \in Account, Moving(p), job[p].account = a, Kept(a),
         UNCHANGED <<job, env>>, container[a].state = "running",
         volume[a] = Missing <=> volume'[a] = Missing,
         container[a].mount # "dir" => dir'[a] = dir[a],
         container[a].mount = "dir" => dir[a] # Missing,
         dir[a] = writes[a] /\ container[a].mount = "dir" => dir'[a] = writes'[a]
  PROVE  Moving(p)'
  BY DEF Moving

\* Something happens to the stack of one account.
LEMMA StackChanges ==
  ASSUME IInv, NEW a \in Account, UNCHANGED <<job, contested>>, Elsewhere(a),
         a \notin contested => Kept(a)',
         a \notin contested => \A p \in Process : job[p].account = a /\ Moving(p) => Moving(p)'
  PROVE  Workspaces' /\ Moves' /\ Apart'
<1>1. Workspaces'
  <2> SUFFICES ASSUME NEW b \in Account, b \notin contested PROVE Kept(b)'
    BY DEF Workspaces
  <2>1. Kept(b)
    BY DEF IInv, Workspaces
  <2> QED
    BY <2>1, KeptElsewhere
<1>2. Moves'
  <2> SUFFICES ASSUME NEW p \in Process, job[p].pc \in Pc, job[p].account \notin contested PROVE Moving(p)'
    BY DEF Moves
  <2>1. Moving(p)
    BY DEF IInv, Moves
  <2>2. PICK b \in Account : job[p].account = b
    BY AccountOf DEF IInv, FInv
  <2>3. CASE b # a
    BY <2>1, <2>2, <2>3 DEF Moving, Elsewhere
  <2>4. CASE b = a
    BY <2>1, <2>2, <2>4
  <2> QED
    BY <2>3, <2>4
<1>3. Apart'
  BY DEF IInv, Apart, Mid
<1> QED
  BY <1>1, <1>2, <1>3

LEMMA AgentWritesMoves ==
  ASSUME IInv, NEW a \in Account, AgentWrites(a)
  PROVE  Workspaces' /\ Moves' /\ Apart'
<1>0. /\ UNCHANGED <<env, container, job, contested>>
      /\ container[a].state = "running" /\ writes[a] < MaxWrites /\ writes' = [writes EXCEPT ![a] = @ + 1]
  BY DEF AgentWrites, files
<1>1. container[a].mount \in {"volume", "dir", "gone"}
  BY DEF IInv, FInv, TypeOK, Container
<1>2. /\ writes[a] \in Nat /\ writes[a] + 1 \in 0..MaxWrites /\ writes[a] + 1 \in Content
      /\ writes[a] # Missing /\ writes[a] + 1 # Missing
  BY <1>0, Numbers DEF IInv, FInv, TypeOK, Content, Missing
<1>3. writes'[a] = writes[a] + 1
  BY <1>0, <1>2 DEF IInv, FInv, TypeOK
<1>4. Elsewhere(a)
  <2>1. /\ volume' = volume \/ volume' = [volume EXCEPT ![a] = @ + 1]
        /\ dir' = dir \/ dir' = [dir EXCEPT ![a] = @ + 1]
    BY <1>1 DEF AgentWrites
  <2> QED
    BY <1>0, <2>1 DEF Elsewhere, IInv, FInv, TypeOK
<1>5. ASSUME a \notin contested
      PROVE  Kept(a)' /\ \A p \in Process : job[p].account = a /\ Moving(p) => Moving(p)'
  <2>1. Kept(a) /\ container[a].mount # "gone"
    BY <1>5 DEF IInv, Workspaces, Kept
  <2>2. CASE container[a].mount = "volume"
    <3>1. volume' = [volume EXCEPT ![a] = @ + 1] /\ UNCHANGED <<dir, gone>>
      BY <2>2 DEF AgentWrites
    <3>2. volume[a] = writes[a] /\ ~env[a].registered
      BY <1>0, <2>1, <2>2 DEF Kept, IInv, FInv, TypeOK
    <3>3. volume'[a] = writes[a] + 1
      BY <3>1, <3>2 DEF IInv, FInv, TypeOK
    <3>4. Kept(a)'
      BY <1>0, <1>3, <2>2, <3>2, <3>3 DEF Kept
    <3>5. ASSUME NEW p \in Process, job[p].account = a, Moving(p) PROVE Moving(p)'
      BY <1>0, <1>2, <2>1, <2>2, <3>1, <3>2, <3>3, <3>5, MovingStays DEF IInv, FInv
    <3> QED
      BY <3>4, <3>5
  <2>3. CASE container[a].mount = "dir"
    <3>1. dir' = [dir EXCEPT ![a] = @ + 1] /\ UNCHANGED <<volume, gone>>
      BY <2>3 DEF AgentWrites
    <3>2. dir[a] = writes[a]
      BY <2>1, <2>3 DEF Kept
    <3>3. dir'[a] = writes[a] + 1
      BY <3>1, <3>2 DEF IInv, FInv, TypeOK
    <3>4. Kept(a)'
      BY <1>0, <1>3, <2>3, <3>3 DEF Kept
    <3>5. ASSUME NEW p \in Process, job[p].account = a, Moving(p) PROVE Moving(p)'
      BY <1>0, <1>2, <1>3, <2>1, <2>3, <3>1, <3>2, <3>3, <3>5, MovingStays DEF IInv, FInv
    <3> QED
      BY <3>4, <3>5
  <2> QED
    BY <1>1, <2>1, <2>2, <2>3
<1> QED
  BY <1>0, <1>4, <1>5, StackChanges

LEMMA StackStopsMoves ==
  ASSUME IInv, NEW a \in Account, StackStops(a)
  PROVE  Workspaces' /\ Moves' /\ Apart'
<1>0. UNCHANGED <<env, volume, dir, writes, job, contested>> /\ container[a].state = "running"
  BY DEF StackStops, files
<1>1. PICK c \in Container : /\ container' = [container EXCEPT ![a] = c]
                             /\ c.state = "stopped" /\ c.mount = container[a].mount
  BY StackStopsDoes DEF IInv
<1>2. container'[a] = c /\ Elsewhere(a)
  BY <1>0, <1>1, OneContainer DEF IInv, FInv
<1>3. ASSUME a \notin contested
      PROVE  Kept(a)' /\ \A p \in Process : job[p].account = a /\ Moving(p) => Moving(p)'
  <2>1. Kept(a)
    BY <1>3 DEF IInv, Workspaces
  <2>2. Kept(a)'
    BY <1>0, <1>1, <1>2, <2>1 DEF Kept
  <2>3. \A p \in Process : job[p].account = a /\ Moving(p) => Moving(p)'
    BY <1>0, <1>1, <1>2 DEF Moving
  <2> QED
    BY <2>2, <2>3
<1> QED
  BY <1>0, <1>2, <1>3, StackChanges

LEMMA CrashMoves ==
  ASSUME IInv, NEW p \in Process, Crash(p) \/ Restart(p)
  PROVE  Workspaces' /\ Moves' /\ Apart'
<1>1. PICK j \in {Idle, Down} : job' = [job EXCEPT ![p] = j]
  BY DEF Crash, Restart
<1>2. UNCHANGED <<env, container, volume, dir, writes, contested>>
  BY DEF Crash, Restart, files, stack
<1>3. Others(p) /\ job'[p].pc \notin Pc
  BY <1>1, Rested DEF IInv, FInv
<1> QED
  BY <1>2, <1>3, Outside DEF MidPc, Pc

LEMMA NextInv == ASSUME OneService, IInv, [Next]_vars PROVE IInv'
<1>0. FInv'
  BY NextFiles DEF IInv
<1>1. ASSUME NEW p \in Process, NEW a \in Account, Enter(p, a) PROVE IInv'
  BY <1>0, <1>1, EnterMoves DEF IInv
<1>2. ASSUME NEW p \in Process, Advance(p) PROVE IInv'
  BY <1>0, <1>2, FilingMoves, CheckMoves, InspectMoves, QuiesceMoves,
     CopyMoves, RenameMoves, RegisterMoves, UndoMoves, UpdateMoves DEF Advance, IInv
<1>3. ASSUME NEW p \in Process, Fault(p) \/ Restart(p) PROVE IInv'
  BY <1>0, <1>3, FilingMoves, DockerFailsMoves, DiskFailsMoves, CrashMoves DEF Fault, IInv
<1>4. ASSUME NEW a \in Account, AgentWrites(a) \/ StackStops(a) PROVE IInv'
  BY <1>0, <1>4, AgentWritesMoves, StackStopsMoves DEF IInv
<1>5. CASE UNCHANGED vars
  <2>1. UNCHANGED <<env, container, volume, dir, writes, job, contested>>
    BY <1>5 DEF vars, files, stack
  <2>2. Workspaces' /\ Moves' /\ Apart'
    BY <2>1 DEF IInv, Moves, Moving, Workspaces, Kept, Apart, Mid
  <2> QED
    BY <1>0, <2>2 DEF IInv
<1> QED
  BY <1>1, <1>2, <1>3, <1>4, <1>5 DEF Next

-----------------------------------------------------------------------------
(* The leases of Leases *)

\* The files an account's gateway reads are its manifest, once it has one.
LEMMA ConnectionIs ==
  FInv => \A a \in Tenant : Connection(a) = manifest[a] /\ manifest[a] \in Granted!Connection \cup {Granted!None}
<1> SUFFICES ASSUME FInv, NEW a \in Tenant
             PROVE  Connection(a) = manifest[a] /\ manifest[a] \in Granted!Connection \cup {Granted!None}
  OBVIOUS
<1>1. manifest[a] \in {NoManifest} \cup Manifest
  BY DEF FInv, TypeOK, Account
<1>2. manifest[a] # NoManifest => manifest[a] = [port |-> env[a].port, key |-> key[a]]
  BY DEF FInv, ConnectionIsStable
<1> QED
  BY <1>1, <1>2 DEF Connection, Granted!Connection, Granted!None, Manifest, NoManifest, NoPort

LEMMA ConnectionIsNext ==
  FInv' => \A a \in Tenant : Connection(a)' = manifest'[a] /\ manifest'[a] \in Granted!Connection \cup {Granted!None}
<1>1. (FInv => \A a \in Tenant : Connection(a) = manifest[a]
                                 /\ manifest[a] \in Granted!Connection \cup {Granted!None})'
  BY ConnectionIs, PTL
<1> QED
  BY <1>1 DEF Granted!Connection, Granted!None

LEMMA ConnectionsApart ==
  ASSUME FInv, NEW a \in Tenant, NEW b \in Tenant, manifest[a] # NoManifest, manifest[b] # NoManifest,
         manifest[a].port = manifest[b].port
  PROVE  a = b
<1>1. ASSUME NEW c \in Tenant, manifest[c] # NoManifest
      PROVE  manifest[c].port = port[c] /\ port[c] \in Port /\ c \in dirs
  <2>1. manifest[c] \in Manifest /\ c \in Account
    BY <1>1 DEF FInv, TypeOK, Account
  <2>2. manifest[c].port = port[c]
    <3>1. manifest[c] = [port |-> env[c].port, key |-> key[c]] /\ port[c] = env[c].port
      BY <1>1 DEF FInv, ConnectionIsStable
    <3>2. manifest[c].port = env[c].port
      BY <3>1
    <3> QED
      BY <3>1, <3>2
  <2>3. port[c] \in Port
    BY <2>1, <2>2 DEF Manifest
  <2> QED
    BY <2>1, <2>2, <2>3, Numbers DEF FInv, Ports
<1> QED
  BY <1>1 DEF FInv, Ports, PortsDistinct

LEMMA LeasesExclusive == FInv => Granted!Exclusive
<1> SUFFICES ASSUME FInv, NEW a \in Tenant, NEW b \in Tenant, Connection(a) # Granted!None, Connection(b) # Granted!None,
                    Connection(a).port = Connection(b).port
             PROVE  a = b
  BY DEF Granted!Exclusive, Granted!Held
<1> QED
  BY ConnectionIs, ConnectionsApart DEF Granted!None, NoManifest, NoPort

LEMMA LeasesInit == Init => Granted!LeaseInit
<1> SUFFICES ASSUME Init PROVE Granted!LeaseInit
  OBVIOUS
<1>1. FInv
  BY InitInv DEF IInv
<1>2. Granted!Exclusive
  BY <1>1, LeasesExclusive
<1>3. [a \in Tenant |-> Connection(a)] \in [Tenant -> Granted!Connection \cup {Granted!None}]
  BY <1>1, ConnectionIs
<1>4. [a \in Tenant |-> told[a]] = [a \in Tenant |-> {}]
  BY DEF Init, Account
<1> QED
  BY <1>2, <1>3, <1>4 DEF Granted!LeaseInit

\* The manifest is written once: the account has its lease.
LEMMA WriteManifestGrants ==
  ASSUME FInv, FInv', NEW p \in Process, WriteManifest(p)
  PROVE  Granted!LeaseNext
<1> DEFINE a == job[p].account
           m == [port |-> job[p].port, key |-> key[a]]
<1>1. /\ manifest' = [manifest EXCEPT ![a] = m] /\ told' = told /\ job[p].pc = "manifest"
  BY DEF WriteManifest, Step
<1>2. a \in Tenant /\ a \in Account /\ manifest[a] = NoManifest /\ job[p].port \in Port
  BY <1>1, PreparingDoes DEF Filing
<1>3. manifest'[a] = m /\ \A b \in Tenant \ {a} : manifest'[b] = manifest[b]
  BY <1>1, <1>2 DEF FInv, TypeOK, Account
<1>4. \A b \in Tenant : /\ Connection(b) = manifest[b]
                        /\ Connection(b)' = manifest'[b] /\ manifest'[b] \in Granted!Connection \cup {Granted!None}
  BY ConnectionIs, ConnectionIsNext
<1>5. m \in Granted!Connection
  BY <1>2 DEF Granted!Connection, FInv, TypeOK
<1>6. Granted!Exclusive'
  <2>1. (FInv => Granted!Exclusive)'
    BY LeasesExclusive, PTL
  <2> QED
    BY <2>1
<1>7. ~Granted!Held(a)
  BY <1>2, <1>4 DEF Granted!Held, Granted!None, NoManifest, NoPort
<1>8. [b \in Tenant |-> told'[b]] = [b \in Tenant |-> told[b]]
  BY <1>1
<1>9. Granted!Grant(a)
  BY <1>2, <1>3, <1>4, <1>5, <1>6, <1>7, <1>8 DEF Granted!Grant
<1> QED
  BY <1>2, <1>9 DEF Granted!LeaseNext

\* An answer tells an account its lease; the owner is answered otherwise.
LEMMA UpdateTells ==
  ASSUME FInv, FInv', NEW p \in Process, Update(p)
  PROVE  [Granted!LeaseNext]_Granted!leaseVars
<1>1. PICK a \in Account :
         /\ job[p].account = a
         /\ told' = IF a = Owner THEN told ELSE [told EXCEPT ![a] = @ \cup {manifest[a]}]
  BY UpdateDoes
<1>2. UNCHANGED <<manifest, env, key>> /\ job[p].pc = "update"
  BY DEF Update, files
<1>3. [b \in Tenant |-> Connection(b)]' = [b \in Tenant |-> Connection(b)]
  BY <1>2 DEF Connection
<1>4. CASE a = Owner
  BY <1>1, <1>3, <1>4 DEF Granted!leaseVars
<1>5. CASE a # Owner
  <2>1. a \in Tenant /\ manifest[a] # NoManifest
    BY <1>1, <1>2, <1>5 DEF FInv, Filings, Preparing, Filing, Pc, Prepared, Account
  <2>2. Granted!Held(a)
    BY <2>1, ConnectionIs DEF Granted!Held, Granted!None, NoManifest, NoPort
  <2>3. \A b \in Tenant : told'[b] = IF b = a THEN told[b] \cup {manifest[b]} ELSE told[b]
    BY <1>1, <1>5 DEF FInv, TypeOK, Account
  <2>4. [b \in Tenant |-> told[b]]'
           = [[b \in Tenant |-> told[b]] EXCEPT ![a] = @ \cup {[b \in Tenant |-> Connection(b)][a]}]
    BY <2>1, <2>3, ConnectionIs
  <2>5. Granted!Tell(a)
    BY <1>3, <2>2, <2>4 DEF Granted!Tell
  <2> QED
    BY <2>1, <2>5 DEF Granted!LeaseNext
<1> QED
  BY <1>4, <1>5

LEMMA LeasesSame ==
  ASSUME FInv, FInv', UNCHANGED <<manifest, told>>
  PROVE  UNCHANGED Granted!leaseVars
<1>1. \A a \in Tenant : Connection(a) = manifest[a] /\ Connection(a)' = manifest'[a]
  BY ConnectionIs, ConnectionIsNext
<1> QED
  BY <1>1 DEF Granted!leaseVars

LEMMA LeasesStep == ASSUME FInv, FInv', [Next]_vars PROVE [Granted!LeaseNext]_Granted!leaseVars
<1>1. ASSUME NEW p \in Process, NEW a \in Account, Enter(p, a) PROVE UNCHANGED <<manifest, told>>
  BY <1>1 DEF Enter
<1>2. ASSUME NEW p \in Process, Advance(p)
      PROVE  WriteManifest(p) \/ Update(p) \/ UNCHANGED <<manifest, told>>
  BY <1>2 DEF Advance, WritePort, WriteFiles, WriteEnv, CheckWorkspace, Inspect, Quiesce, Copy, Rename,
     Register, Undo, files
<1>3. ASSUME NEW p \in Process, Fault(p) \/ Restart(p) PROVE UNCHANGED <<manifest, told>>
  BY <1>3 DEF Fault, TearPort, DockerFails, DiskFails, Crash, Restart, files
<1>4. ASSUME NEW a \in Account, AgentWrites(a) \/ StackStops(a) PROVE UNCHANGED <<manifest, told>>
  BY <1>4 DEF AgentWrites, StackStops, files
<1>5. CASE UNCHANGED vars
  BY <1>5, LeasesSame DEF vars, files
<1> QED
  BY <1>1, <1>2, <1>3, <1>4, <1>5, LeasesSame, WriteManifestGrants, UpdateTells DEF Next

-----------------------------------------------------------------------------
(* The theorems *)

\* The one process that serves requests keeps the files right, through every
\* crash, torn file, failure of Docker and run of the update script.
THEOREM FilesInvariance == ASSUME OneService PROVE Spec => []FInv
<1>1. FInv /\ [Next]_vars => FInv'
  BY NextFiles
<1>2. Init => FInv
  BY InitInv DEF IInv
<1> QED
  BY <1>1, <1>2, PTL DEF Spec

\* What the processes keep true of the stacks, through the same failures.
THEOREM Invariance == ASSUME OneService PROVE Spec => []IInv
<1>1. IInv /\ [Next]_vars => IInv'
  BY NextInv
<1> QED
  BY <1>1, InitInv, PTL DEF Spec

\* What the files hold, what Docker says and what the processes remember have
\* their types.
THEOREM TypeCorrect == ASSUME OneService PROVE Spec => []TypeOK
<1>1. FInv => TypeOK
  BY DEF FInv
<1> QED
  BY <1>1, FilesInvariance, PTL

\* No two accounts ever hold the same port, whatever preparations were cut off
\* between any two of their files, and with update scripts at any point
\* (prepare).
THEOREM PortsStayDistinct == ASSUME OneService PROVE Spec => []PortsDistinct
<1>1. FInv => PortsDistinct
  BY DEF FInv, Ports
<1> QED
  BY <1>1, FilesInvariance, PTL

\* For an account the broker answers with one connection only, the one its
\* gateway was given (prepare, ensure).
THEOREM OneConnection == ASSUME OneService PROVE Spec => []ConnectionIsStable
<1>1. FInv => ConnectionIsStable
  BY DEF FInv
<1> QED
  BY <1>1, FilesInvariance, PTL

\* A stack that runs sees everything its agent wrote, before and after its
\* workspace moved, whatever failed on the way and with update scripts at any
\* point, unless two processes moved this workspace at the same time
\* (ensure_workspace).
THEOREM NothingIsLost == ASSUME OneService PROVE Spec => []WorkspaceKept
<1>1. IInv => WorkspaceKept
  BY DEF IInv, FInv, TypeOK, Container, Workspaces, Kept, WorkspaceKept
<1> QED
  BY <1>1, Invariance, PTL

\* The broker with all its files, processes, failures and crashes is a lessor:
\* an account gets one connection, with a port of its own, for ever, and is
\* told no other (prepare, ensure).
THEOREM BrokerImplementsLeases == ASSUME OneService PROVE Spec => ImplementsLeases
<1>1. FInv /\ FInv' /\ [Next]_vars => [Granted!LeaseNext]_Granted!leaseVars
  BY LeasesStep
<1> QED
  BY <1>1, LeasesInit, FilesInvariance, PTL DEF Spec, ImplementsLeases, Granted!LeaseSpec

=============================================================================

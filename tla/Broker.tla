------------------------------- MODULE Broker -------------------------------
(***************************************************************************)
(* The account broker: deploy/isolation/tenant-broker.py with workspace.py. *)
(*                                                                         *)
(* For each account it keeps a directory with a reserved port, keys and a  *)
(* Compose environment, moves the workspace from a Docker volume to a host *)
(* directory, and brings the account's stack up.  A process serves one     *)
(* account at a time, under its lock; the update script                    *)
(* (update-runtime.sh) is a process of its own, which runs beside it with  *)
(* no common lock.  A process may die between any two steps; Docker and    *)
(* the agent in the stack are external.                                    *)
(***************************************************************************)
EXTENDS Integers, FiniteSets

CONSTANTS
    Tenant,     \* accounts
    Owner,      \* the account from before there were accounts
    Old,        \* tenants prepared before workspaces were directories
    Service,    \* broker processes that serve requests (one on a host)
    Updater,    \* runs of the update script
    Limit,      \* capacity, and the number of ports
    MaxWrites,  \* bound: writes of an agent to its workspace
    Limits      \* bounds: how often each event of Event may happen

Account == Tenant \cup {Owner}
Process == Service \cup Updater

\* new: an account asks for the first time; update: an update script turns to
\* an account; crash, torn: a process dies, inside the port file or elsewhere;
\* docker, disk: a command or a write fails; stop: a stack stops.
Event == {"new", "update", "crash", "torn", "docker", "disk", "stop"}

ASSUME AccountAssumption == Owner \notin Tenant /\ Old \subseteq Tenant /\ IsFiniteSet(Tenant)
ASSUME ProcessAssumption == Service \cap Updater = {}
ASSUME BoundAssumption   ==
    /\ Limit \in Nat \ {0} /\ Cardinality(Old) <= Limit
    /\ MaxWrites \in Nat /\ Limits \subseteq [Event -> Nat]

\* The content of a port file: a port, nothing yet, or what a truncating
\* write leaves when it is cut off.
Port   == 1..Limit
NoPort == 0
Torn   == -1

\* A workspace holds the first n writes of its agent, or does not exist.
Content == 0..MaxWrites
Missing == -1

Container  == [state: {"absent", "stopped", "running"}, mount: {"volume", "dir", "gone"}]
NoManifest == [port |-> NoPort]
Manifest   == [port: Port, key: Nat]

Job == [pc: {"port", "files", "env", "manifest", "check", "inspect", "stop", "copy",
             "rename", "register", "undo", "update"},
        account: Account, port: {NoPort} \cup Port, running: BOOLEAN, source: BOOLEAN,
        staging: {Missing} \cup Content]
Idle == [pc |-> "idle"]
Down == [pc |-> "down"]

VARIABLES
    dirs,       \* tenants with a directory under the root
    port,       \* their port files
    key,        \* the latest of their gateway keys
    root,       \* whether this installation runs as root (the documented one
                \* of a developer's machine does not); never changes
    env,        \* compose.env: the port, and whether a workspace is registered
    manifest,   \* connection.json
    job,        \* of each process: what it does under its lock
    container,  \* external: the agent's container, and where /workspace is
    volume,     \* external: content of the old volume
    dir,        \* content of the host directory
    gone,       \* of a directory that was replaced while it was mounted
    writes,     \* history: the writes of the agent
    told,       \* history: connections the broker answered with
    contested,  \* history: accounts two processes moved at the same time
    budget      \* events that may still happen

files  == <<dirs, port, key, root, env, manifest>>
stack  == <<container, volume, dir, gone, writes>>
vars   == <<files, stack, job, told, contested, budget>>

Spend(kind) == budget[kind] > 0 /\ budget' = [budget EXCEPT ![kind] = @ - 1]

\* Old accounts have everything but a workspace directory.
Init ==
    /\ dirs = Old
    /\ port \in [Account -> {NoPort} \cup Port]
    /\ \A a \in Account : port[a] # NoPort <=> a \in Old
    /\ \A a, b \in Old : port[a] = port[b] => a = b
    /\ key = [a \in Account |-> IF a \in Old THEN 1 ELSE 0]
    /\ root \in BOOLEAN
    /\ env = [a \in Account |-> [port |-> port[a], registered |-> FALSE]]
    /\ manifest = [a \in Account |-> IF a \in Old THEN [port |-> port[a], key |-> 1] ELSE NoManifest]
    /\ job = [p \in Process |-> Idle]
    /\ container = [a \in Account |-> [state |-> IF a \in Old \cup {Owner} THEN "running" ELSE "absent",
                                       mount |-> "volume"]]
    /\ volume = [a \in Account |-> IF a \in Old \cup {Owner} THEN 0 ELSE Missing]
    /\ dir = [a \in Account |-> Missing]
    /\ gone = [a \in Account |-> Missing]
    /\ writes = [a \in Account |-> 0]
    /\ told = [a \in Account |-> {}]
    /\ contested = {}
    /\ budget \in Limits

----------------------------------------------------------------------------
(* prepare *)

(* Definitions whose name ends in Variant are not part of the model: each is *)
(* what a mistake in the code it stands beside would make of it, and the     *)
(* properties are checked to tell it from the original.                      *)

\* The ports other preparations hold, finished or not.
UsedVariant == {manifest[b].port : b \in dirs}
Used == {port[b] : b \in dirs}

Full(a) == a \notin dirs /\ Cardinality(dirs) >= Limit

RefusesVariant(a) == Cardinality(dirs) >= Limit \/ Torn \in Used
Refuses(a) == Full(a) \/ Torn \in Used

FreePort == CHOOSE q \in Port \ Used : \A r \in Port \ Used : q <= r

Begin(pc, a, q) == [pc |-> pc, account |-> a, port |-> q, running |-> FALSE, source |-> FALSE,
                    staging |-> Missing]

PreparedVariant(a) == a = Owner
Prepared(a) == a = Owner \/ manifest[a] # NoManifest

\* ensure takes the lock.  A refusal (capacity, a port file that is not a
\* number) changes nothing; without a free port the directory is left.
Enter(p, a) ==
    /\ job[p] = Idle
    /\ p \in Updater => Prepared(a)
    /\ CASE p \in Updater               -> Spend("update")
         [] ~Prepared(a) /\ a \notin dirs -> Spend("new")
         [] OTHER                         -> UNCHANGED budget
    /\ IF Prepared(a)
       THEN /\ job' = [job EXCEPT ![p] = Begin("check", a, NoPort)]
            /\ UNCHANGED dirs
       ELSE /\ ~Refuses(a)
            /\ dirs' = dirs \cup {a}
            /\ job' = CASE port[a] # NoPort  -> [job EXCEPT ![p] = Begin("port", a, port[a])]
                        [] Port \subseteq Used -> job
                        [] OTHER              -> [job EXCEPT ![p] = Begin("port", a, FreePort)]
    /\ UNCHANGED <<port, key, root, env, manifest, stack, told, contested>>

\* What a client waits for, and what reconcile looks for every 30 seconds: a
\* known stack that does not run.
Await(p, a)     == ~Prepared(a) /\ Enter(p, a)
Reconcile(p, a) == manifest[a] # NoManifest /\ container[a].state # "running" /\ Enter(p, a)

Step(p, from, to) == job[p].pc = from /\ job' = [job EXCEPT ![p].pc = to]
Fail(p) == job' = [job EXCEPT ![p] = Idle]

WritePort(p) ==
    /\ Step(p, "port", "files")
    /\ port' = [port EXCEPT ![job[p].account] = job[p].port]
    /\ UNCHANGED <<dirs, key, root, env, manifest, stack, told, contested, budget>>

\* The process dies between truncating and writing the port file.
TearPort(p) ==
    /\ job[p].pc = "port" /\ Spend("torn")
    /\ port' = [port EXCEPT ![job[p].account] = Torn]
    /\ job' = [job EXCEPT ![p] = Down]
    /\ UNCHANGED <<dirs, key, root, env, manifest, stack, told, contested>>

\* The files of the last attempt are read-only (mode 0444) to all but root.
Sealed(a) == key[a] # 0 /\ ~root

\* Five files, among them new keys, that nothing reads before the manifest is
\* there.
WriteFiles(p) ==
    LET a == job[p].account
    IN /\ job[p].pc = "files"
       /\ IF Sealed(a)
          THEN Fail(p) /\ UNCHANGED key
          ELSE Step(p, "files", "env") /\ key' = [key EXCEPT ![a] = @ + 1]
       /\ UNCHANGED <<dirs, port, root, env, manifest, stack, told, contested, budget>>

WriteEnv(p) ==
    /\ Step(p, "env", "manifest")
    /\ env' = [env EXCEPT ![job[p].account] = [port |-> job[p].port, registered |-> FALSE]]
    /\ UNCHANGED <<dirs, port, key, root, manifest, stack, told, contested, budget>>

WriteManifest(p) ==
    LET a == job[p].account
    IN /\ Step(p, "manifest", "check")
       /\ manifest' = [manifest EXCEPT ![a] = [port |-> job[p].port, key |-> key[a]]]
       /\ UNCHANGED <<dirs, port, key, root, env, stack, told, contested, budget>>

----------------------------------------------------------------------------
(* ensure_workspace *)

\* Between the check and the registration.
Midway(q, a) ==
    /\ job[q].pc \in {"inspect", "stop", "copy", "rename", "register", "undo"}
    /\ job[q].account = a

\* A registered workspace must be there; one that is not registered is not
\* overwritten.
CheckWorkspace(p) ==
    LET a == job[p].account
    IN /\ job[p].pc = "check"
       /\ \/ /\ env[a].registered /\ dir[a] # Missing
             /\ Step(p, "check", "update") /\ UNCHANGED contested
          \/ /\ ~env[a].registered /\ dir[a] = Missing
             /\ Step(p, "check", "inspect")
             /\ contested' = IF \E q \in Process : Midway(q, a) THEN contested \cup {a} ELSE contested
          \/ /\ env[a].registered # (dir[a] # Missing)
             /\ Fail(p) /\ UNCHANGED contested
       /\ UNCHANGED <<files, stack, told, budget>>

Inspect(p) ==
    LET a == job[p].account
    IN /\ job[p].pc = "inspect"
       /\ IF container[a].state # "absent" /\ container[a].mount # "volume"
          THEN Fail(p)
          ELSE job' = [job EXCEPT ![p].pc = "stop", ![p].running = container[a].state = "running",
                                  ![p].source = volume[a] # Missing]
       /\ UNCHANGED <<files, stack, told, contested, budget>>

StopsVariant(p) == FALSE
Stops(p) == job[p].running

\* The container is stopped before the copy, if it was seen running.
Quiesce(p) ==
    LET a == job[p].account
    IN /\ Step(p, "stop", "copy")
       /\ container' = IF Stops(p) THEN [container EXCEPT ![a].state = IF @ = "running" THEN "stopped" ELSE @]
                                   ELSE container
       /\ UNCHANGED <<files, volume, dir, gone, writes, told, contested, budget>>

Copy(p) ==
    /\ job[p].pc = "copy"
    /\ job' = [job EXCEPT ![p].pc = "rename",
                          ![p].staging = IF job[p].source THEN volume[job[p].account] ELSE 0]
    /\ UNCHANGED <<files, stack, told, contested, budget>>

\* rename replaces a directory that is empty; one that is mounted lives on
\* under no name.
Rename(p) ==
    LET a == job[p].account
    IN /\ job[p].pc = "rename"
       /\ IF dir[a] \in {Missing, 0}
          THEN /\ Step(p, "rename", "register")
               /\ dir' = [dir EXCEPT ![a] = job[p].staging]
               /\ IF container[a].mount = "dir"
                  THEN /\ container' = [container EXCEPT ![a].mount = "gone"]
                       /\ gone' = [gone EXCEPT ![a] = dir[a]]
                  ELSE UNCHANGED <<container, gone>>
          ELSE Step(p, "rename", "undo") /\ UNCHANGED <<container, dir, gone>>
       /\ UNCHANGED <<files, volume, writes, told, contested, budget>>

Register(p) ==
    /\ Step(p, "register", "update")
    /\ env' = [env EXCEPT ![job[p].account].registered = TRUE]
    /\ UNCHANGED <<dirs, port, key, root, manifest, stack, told, contested, budget>>

\* What docker may leave behind: stop may have stopped the container, and up
\* may have begun to create it again.
Leftovers(p) ==
    LET c == container[job[p].account]
    IN CASE job[p].pc = "stop" /\ job[p].running /\ c.state = "running" ->
              {c, [c EXCEPT !.state = "stopped"]}
         [] job[p].pc = "update" -> {c} \cup [state: {"absent", "stopped", "running"}, mount: {"dir"}]
         [] OTHER -> {c}

\* docker fails or takes too long; or the disk fails.
DockerFails(p) ==
    /\ job[p].pc \in {"inspect", "stop", "copy", "update"} /\ Spend("docker")
    /\ \E c \in Leftovers(p) : container' = [container EXCEPT ![job[p].account] = c]
    /\ IF job[p].pc = "copy" THEN Step(p, "copy", "undo") ELSE Fail(p)
    /\ UNCHANGED <<files, volume, dir, gone, writes, told, contested>>

DiskFails(p) ==
    /\ Step(p, "register", "undo") /\ Spend("disk")
    /\ UNCHANGED <<files, stack, told, contested>>

\* The handler of failures starts the container again.
Undo(p) ==
    LET a == job[p].account
    IN /\ job[p].pc = "undo"
       /\ container' = IF job[p].running /\ container[a].state # "absent"
                       THEN [container EXCEPT ![a].state = "running"] ELSE container
       /\ Fail(p)
       /\ UNCHANGED <<files, volume, dir, gone, writes, told, contested, budget>>

----------------------------------------------------------------------------
(* update_stack, the answer, and what happens around the broker *)

\* compose up leaves a current container running, and otherwise creates it
\* with the registered directory.
Update(p) ==
    LET a == job[p].account
    IN /\ job[p].pc = "update"
       /\ dir[a] # Missing
       /\ \/ container' = [container EXCEPT ![a] = [state |-> "running", mount |-> "dir"]]
          \/ /\ container[a].state = "running" /\ container[a].mount # "volume"
             /\ UNCHANGED container
       /\ told' = IF a = Owner THEN told ELSE [told EXCEPT ![a] = @ \cup {manifest[a]}]
       /\ Fail(p)
       /\ UNCHANGED <<files, volume, dir, gone, writes, contested, budget>>

AgentWrites(a) ==
    /\ container[a].state = "running" /\ writes[a] < MaxWrites
    /\ writes' = [writes EXCEPT ![a] = @ + 1]
    /\ CASE container[a].mount = "volume" -> volume' = [volume EXCEPT ![a] = @ + 1] /\ UNCHANGED <<dir, gone>>
         [] container[a].mount = "dir"    -> dir' = [dir EXCEPT ![a] = @ + 1] /\ UNCHANGED <<volume, gone>>
         [] container[a].mount = "gone"   -> gone' = [gone EXCEPT ![a] = @ + 1] /\ UNCHANGED <<volume, dir>>
    /\ UNCHANGED <<files, container, job, told, contested, budget>>

StackStops(a) ==
    /\ container[a].state = "running" /\ Spend("stop")
    /\ container' = [container EXCEPT ![a].state = "stopped"]
    /\ UNCHANGED <<files, volume, dir, gone, writes, job, told, contested>>

Crash(p) ==
    /\ job[p] # Down /\ Spend("crash")
    /\ job' = [job EXCEPT ![p] = Down]
    /\ UNCHANGED <<files, stack, told, contested>>

Restart(p) ==
    /\ job[p] = Down
    /\ job' = [job EXCEPT ![p] = Idle]
    /\ UNCHANGED <<files, stack, told, contested, budget>>

----------------------------------------------------------------------------
Advance(p) ==
    \/ WritePort(p) \/ WriteFiles(p) \/ WriteEnv(p) \/ WriteManifest(p)
    \/ CheckWorkspace(p) \/ Inspect(p) \/ Quiesce(p) \/ Copy(p) \/ Rename(p)
    \/ Register(p) \/ Undo(p) \/ Update(p)

Fault(p) == TearPort(p) \/ DockerFails(p) \/ DiskFails(p) \/ Crash(p)

Next ==
    \/ \E p \in Process : (\E a \in Account : Enter(p, a)) \/ Advance(p) \/ Fault(p) \/ Restart(p)
    \/ \E a \in Account : AgentWrites(a) \/ StackStops(a)

Spec == Init /\ [][Next]_vars

\* Processes are scheduled and started again.  A client goes on asking for its
\* account and reconcile for those it knows; as the lock is free from time to
\* time, each of them gets it at some point.
Fairness ==
    /\ \A p \in Process : WF_vars(Advance(p)) /\ WF_vars(Restart(p))
    /\ \A p \in Service, a \in Tenant : SF_vars(Await(p, a) \/ Reconcile(p, a))

FairSpec == Spec /\ Fairness

----------------------------------------------------------------------------
(* Refinement *)

\* The connection an account has: once it has a manifest, what the files of
\* its gateway hold.
Connection(a) == IF manifest[a] = NoManifest THEN NoManifest ELSE [port |-> env[a].port, key |-> key[a]]

Granted == INSTANCE Leases WITH lease <- [a \in Tenant |-> Connection(a)],
                                told <- [a \in Tenant |-> told[a]]

\* The broker grants an account one connection, with a port no other account
\* has, and answers with that one only: the API refuses an account whose
\* connection changes while it runs.
ImplementsLeases == Granted!LeaseSpec

----------------------------------------------------------------------------
(* Properties *)

\* The shape of the variables: files, and what Docker answers.
TypeOK ==
    /\ dirs \subseteq Tenant
    /\ port \in [Account -> {Torn, NoPort} \cup Port]
    /\ key \in [Account -> Nat]
    /\ root \in BOOLEAN
    /\ env \in [Account -> [port: {NoPort} \cup Port, registered: BOOLEAN]]
    /\ manifest \in [Account -> {NoManifest} \cup Manifest]
    /\ job \in [Process -> Job \cup {Idle, Down}]
    /\ container \in [Account -> Container]
    /\ volume \in [Account -> {Missing} \cup Content]
    /\ dir \in [Account -> {Missing} \cup Content]
    /\ gone \in [Account -> {Missing} \cup Content]
    /\ writes \in [Account -> 0..MaxWrites]
    /\ told \in [Account -> SUBSET Manifest] /\ contested \subseteq Account
    /\ budget \in [Event -> Nat]

\* No two accounts hold the same port, whatever preparations were cut off
\* ("a retry cannot collide with another account").
PortsDistinct ==
    \A a, b \in dirs : port[a] \in Port /\ port[a] = port[b] => a = b

\* The broker answers for an account with one connection only, the one in
\* the files its gateway reads.
ConnectionIsStable ==
    \A a \in Tenant :
        /\ told[a] \subseteq {manifest[a]}
        /\ manifest[a] # NoManifest =>
              manifest[a] = [port |-> env[a].port, key |-> key[a]] /\ port[a] = env[a].port

\* A stack that runs sees everything its agent ever wrote, across the move
\* from the volume to the directory, failures, restarts and update scripts,
\* unless two processes moved its workspace at the same time.  Then it may not:
\* "preserve every account's credentials, state and workspace"
\* (update-runtime.sh:2) takes a lock that the script and the broker lack.
WorkspaceKept ==
    \A a \in Account \ contested : container[a].state = "running" =>
        writes[a] = CASE container[a].mount = "volume" -> volume[a]
                      [] container[a].mount = "dir"    -> dir[a]
                      [] container[a].mount = "gone"   -> gone[a]

\* What only an operator can mend: before the manifest, a port file that was
\* torn (of any account: each of them is read) and key files a broker that is
\* not root cannot write again; after it, a directory that was moved into place
\* and not registered.
Stuck(a) ==
    \/ manifest[a] = NoManifest /\ Torn \in Used
    \/ /\ manifest[a] = NoManifest /\ Sealed(a)
       /\ \A p \in Process : job[p].pc \in {"env", "manifest"} => job[p].account # a
    \/ /\ dir[a] # Missing /\ ~env[a].registered
       /\ \A p \in Process : ~Midway(p, a)

\* An account that has its directory is running at some point after, however
\* often its preparation was cut off, unless it has come to need an operator.
PreparedComesUp ==
    \A a \in Tenant : a \in dirs ~> container[a].state = "running" \/ Stuck(a)

=============================================================================

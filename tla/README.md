# Verification of 386GPT

386GPT is a web chat in front of a Hermes agent. This directory holds TLA+
models of the parts of it in which processes, failures and stale copies meet,
the TLC configurations that check them, and proofs for TLAPS. `PROJECT.json`
lists components, runs, mutants (the mistakes each property is checked to
notice), the lines every definition translates, hazards, findings and theorems.

    tlc -config RunsConcurrency.cfg MCRuns.tla      a run
    tlapm RunsProofs.tla                            a proof

## 1. The system

| component | state | operations | hard behaviour | what makes it correct |
|---|---|---|---|---|
| durable runs (`backend/runs.go`, `runs_store.go`, `agent_http.go`) | tables `runs`, `messages`, `agent_events`, `thread_agents`; `workers`, `runMu`, the wait group; the copy each goroutine holds | submit, replay, stop, refresh of late replies, the follower (submit, retry, stream, poll, stop, save), recovery, close | lost answers and retries, crash at any point, copies held across network calls, close against new goroutines | one active run per conversation, one submission per acceptance, settled stays settled, tables agree, active runs are followed, a stop takes effect |
| conversation store (`store.go`) | SQLite, one connection | create, list, rename, delete with cascade | deletion under running handlers | nothing refers to a deleted conversation |
| Hermes channel adapter (`deploy/hermes-gateway/386gpt-channel/adapter.py`) | table `deliveries`; locals of requests across `await` | submit, status, approval, update, command, hooks of the runner, replies, restart | one loop, stale copies after an await, credit to the newest delivery | a key is executed once, an accepted delivery is settled, replies persist |
| account environments (`accounts.go`, `frontend/src/AccountGate.tsx`) | tables of accounts, map of servers; a page that waits | sign-in, provisioning, retry, close; ask, open, sign in again | provisioning outside the lock, the one legacy claim, lost answers | one server per identity, a stale result is discarded, a page that waits gets in |
| Google sign-in and access (`oauth.go`, `access.go`) | login states, sessions, key cache | start, callback, rotate, revoke | replayed states, sockets older than a revocation | a login state is used once, a revoked session ends its sockets |
| websocket hub (`websocket.go`) | set of clients, a bounded queue each | register, broadcast, leave | full queues, close of a channel against a send | a slow client is dropped, the others go on |
| tenant broker and workspace migration (`deploy/isolation`) | files: ports, environments, workspaces | prepare, start, migrate | a crash between two files | no port twice, no write out of sight unless two processes moved one workspace at once |
| GitHub sign-in of a workspace (`github_auth.py`, `backend/github.go`, `frontend/src/GitHubSettings.tsx`) | the file of credentials, git's helper, a lock, the device task; what a dialog shows | device code, token, disconnect, status; open, press, poll | cancellation during the commit, answers after the person has gone on | a disconnect is not undone by what it overtook, a sign-in that ends well is the one in place, a dialog comes to show the gateway's status |
| web client (`frontend/src`) | draft, pending submission, list of messages, the run it polls | send, retry, poll, load, socket events, change and deletion of conversations, Back | answers and events in any order, and after the person has gone on | a retried message runs once unless another displaced it, the view belongs to one conversation and leaves a deleted one, a complete reply stays and is shown, the composer is freed |
| the rest | none of its own | proxies, scripts, configuration (listed one by one in `PROJECT.json`) | | |

How they interact. The browser calls the HTTP routes; a submission reserves a
run row and starts a goroutine, which submits it to the channel adapter under
the request id as idempotency key, polls it, and stores what it learns. The
adapter stores a delivery and hands the message to the Hermes runner, which
calls the adapter back through hooks. The Hub broadcasts changes to sockets.
Each account has its own store and server, which the account manager creates.

## 2. Modules

| module | what it is |
|---|---|
| `Gateway` | the contract between backend and channel: the record under an idempotency key and what may become of it. `Runs` extends it, `Channel` implements it |
| `Runs` | durable runs, the store they use, the handlers that touch them, the process; the gateway by its contract |
| `RunLedger` | what the backend promises about runs: the abstract specification `Runs` implements |
| `RunsInvariant`, `RunsProofs` | the inductive invariant of `Runs` and its proof; the theorems about `Runs` |
| `Channel` | the channel adapter; the Hermes runner as an external party |
| `Receipts` | what the adapter promises its client: the abstract specification `Channel` implements |
| `ChannelProofs` | the inductive invariant of `Channel`, its proof, the theorems |
| `AccountSlots` | the account manager: slots, provisioning goroutines, the table of accounts; the provisioner as an external party |
| `AccountGate` | the page that waits for its account; extends `AccountSlots`, composing page and manager |
| `AccountProofs` | the inductive invariant of `AccountSlots`, its proof, the theorems, and that they hold of the composition with the pages |
| `GitHubAuth` | GitHub sign-in in the gateway of a workspace; the commands `gh` and `git` as external parties |
| `GitHubSettings` | the dialog of the web client; extends `GitHubAuth`, composing dialogs and gateway |
| `GitHubProofs` | the inductive invariant of `GitHubAuth`, its proof, the theorems, and that they hold of the composition |
| `Hub` | the sockets of a conversation: handler, writer, bounded channel, the hub's set |
| `LoginSessions` | sign-ins and sessions; extends `Hub`, whose sockets end with their session |
| `Logins` | what signing in promises: the abstract specification `LoginSessions` implements |
| `SessionsProofs` | the inductive invariants of `Hub` and `LoginSessions`, their proofs, the theorems |
| `Broker` | the tenant broker, the migration of workspaces and the update script; Docker and the agent as external parties |
| `Leases` | what the broker promises an account: the abstract specification `Broker` implements |
| `BrokerProofs` | two inductive invariants of `Broker`, of the files of accounts and of the stacks, both beside any number of update scripts; their proofs, the theorems |
| `WebClient` | the conversation view of the browser; the backend as `Runs` shows it |
| `ClientProofs` | the inductive invariants of `WebClient`, their proofs, the theorems |
| `MCRuns`, `MCChannel`, `MCAccountGate`, `MCGitHubSettings`, `MCLoginSessions`, `MCBroker`, `MCWebClient` | instances for TLC |

A definition whose name ends in `Variant` is not part of a model: it is what a
mistake in the code would make of the definition beside it.

### Runs

| in the model | in the code |
|---|---|
| `threads`, `session`, `runs`, `nextRow`, `asked`, `replies`, `stopKeys`, `stoppedKeys` | tables `threads`, `thread_agents`, `runs` with the JSON snapshot and its rowid, `messages`, `agent_events` |
| `workers`, `runMu`, `phase`, `configured`, `recovering` | `Server.workers`, the holders of `runMu`, the life of the process, the configured runtimes, the list of `recoverRuns` |
| `handler[h]` | the locals of one HTTP handler between two store calls |
| `follower[f]` | one goroutine of `followRun` with its copy of the run |
| `hermes`, `chatSession`, `posts` | the gateway: its record under each key, its session, submissions still under way |
| `stranded`, `retired`, `budget` | history: active runs that a failing read or save left without a follower, ids used again after their conversation was deleted, faults still allowed |

The store has one connection (`SetMaxOpenConns(1)`), so a statement or a
transaction is one action. Every place where other code can run between two
store calls splits an action: `BeginSubmit`, `ReadSession`, `ReserveRun`,
`WatchLock`, `WatchStart` are one `submit`; `FollowLoad`, `SendPost`,
`PostAnswered` or `PostFailed` or `PostDetached`, the polling actions, `SaveStatus` and
`FollowExit` are one `followRun`. `Publish` is the save, the broadcast left out.
A `saveRun` that fails is logged by the code and the follower goes on, and so
does the model. A read that fails makes the follower leave (`LoadFails`,
`runs.go:209`), and a failing `store.runs` at a start recovers no run while the
server goes up (the second half of `Boot`, `runs.go:178`): both put the active
runs they leave behind into `stranded`.

The gateway acts as the module `Gateway` says, which `Runs` extends: a known
key is answered from its record, a new one gets a record, any submission may be
refused; an active delivery goes on or is settled, replies come before and after that, a
restart interrupts what is active, the record may be lost, and a request of
another client may write an old copy back over it, active again or failed
(`Overwrite`). The actions `Gw...` of `Runs` are those of `Gateway` with the
faults counted. `Runs` adds what only it needs of the gateway: the session of a
conversation (`chatSession`) and submissions still in the network (`posts`).

`Channel` implements the same module (`ChannelImplementsGateway`), so what
`Runs` relies on is what the adapter's code does. The two are not explored
together: the contract stands between them.

### Channel

| in the model | in the code |
|---|---|
| `deliveries`, `nextRow` | table `deliveries`: the snapshot and the rowid `_chat_run` orders by |
| `request[h]` | the locals of `submit_message` and `control` across their awaits |
| `turn`, `pending`, `approval`, `nextApproval` | the runner: the turn of a conversation, `_pending_messages`, the approval a turn waits for |
| `messages` of a delivery, `sent` | the durable replies; each reply has an id of its own |
| `handed`, `revived`, `budget` | history: hand-overs per key, keys a stale copy made active again, events still allowed |

The adapter runs on one asyncio loop, so what lies between two awaits is one
action. `submit_message` awaits `handle_message` (`Submit`, then `Admit` or
`Refuse`); `control` awaits the request body (`ReadControl`, then `Approve`,
`Steer`, `HandCommand` or `Abandon`) and then `handle_message` (`HandUpdate`).
The runner may start a turn, keep a message pending while one runs, ask for an
approval, give up waiting for it, and end a turn with one of the three
outcomes. `/stop` and other commands go through `HandCommand`; what the runner
does with a command is its own business, so it does not end the turn by itself: the
turn may end at any time anyway.

`Record(k)` is a delivery as the backend meets it, under the names of
`Gateway`: the number of replies stands for the version of the output, the
conversation for the submission, and a request to stop leaves no mark.
`MessageAssumption`, a finite set of message ids, is the bound `MaxOutput` of
that module.

### AccountSlots

| in the model | in the code |
|---|---|
| `accounts` | table `accounts`: no row, a row with a store of its own, the row with the store from before accounts |
| `slots` | `m.slots`: the published server (by its connection), `starting`, `err`, the pause, `refresh` and `checked` |
| `goroutine`, `servers` | the goroutines of `m.wg` with their locals; how many servers of an account are open |
| `proven`, `stale` | history: whether an environment was asked for, and published, since the last sign-in |

`m.mu` makes `Request`, `SignIn`, `Publish` and `CloseCancel` one action each.
Provisioning runs outside the lock (`Provisioned`, `ProvisionFailed`) and may
be overtaken by anything. The slot keeps a revision of sign-ins, as the code
does, and the published check counts only for the revision it began with.

### AccountGate

`gate[a]` is the page of account `a`: it asks, has an answer on its way, offers
the sign-in link, or shows the application. `Ask` is one round of `check`, and
is the manager's `Request` joined with the page's step; `SignInAgain` is the
manager's `SignIn`. Every other action of `AccountSlots` happens beside the
page. Accounts without a page still get requests, as `AccountSlots` has them.

### GitHubAuth and GitHubSettings

| in the model | in the code |
|---|---|
| `stored` | the sign-in whose token `hosts.yml` holds; what git is told afterwards is a step without state of its own |
| `lock`, `task`, `error` | the fields of `GitHubAuth` |
| `job[r]` | a handler between its awaits: waiting for the lock, for the task it cancelled, for a command |
| `begun`, `barred` | sign-ins by number; history: those begun when a disconnect was last done |
| `shown`, `failed`, `waiting`, `poll` | `status`, `error`, `busy` and the poll under way of a dialog |

Each await is a step. `os.replace` puts the credentials in place before `git`
is configured, so `DeviceStep` and `TokenStep` store in one step and set up
in the next, and a cancellation, a failure or a restart may come between.
`TakeLock` cancels the device task and `Join` waits for its end; the lock does
not cover the task. Waiters of the lock are served in any order. A request
of a dialog may be lost while its handler goes on, and the answers of polls
and of actions are applied in the order they arrive. A request that fails sets
the dialog's error, which only the next action or closing the dialog clears, as the code
does: a good poll leaves it up. The proxy
`backend/github.go` forwards an action and keeps nothing.

### LoginSessions and Hub

| in the model | in the code |
|---|---|
| `flows`, `late`, `sessions`, `expired` | tables `oauth_states`, `login_sessions`, and which rows have timed out |
| `stateCookie`, `sessionCookie` | the cookies of each browser |
| `request` | a request under way: what it was sent with, the step of its handler, the answer that has not arrived |
| `begun`, `consent`, `origin` | who began a login, the account chosen at Google, the login a session came from |
| `socket`, `clients`, `holder` | handler, writer and channel of a socket; the hub's set; the session the socket was opened with |

A handler is one action per statement (`HandleLogin`, `Begin`, `HandleCallback`,
`Exchange`, `Rotate`, `Insert`), a statement whose error the code ignores fails
without ending the request, so that two requests with the same state, and an answer that arrives
after a new sign-in, happen in the model. State, verifier, nonce and binding
cookie are random values and go by the number of the login. The hub's lock
makes `Register`, `Broadcast` and the removal of a client single steps.

### Broker

| in the model | in the code |
|---|---|
| `dirs`, `port`, `key`, `env`, `manifest` | the directory of an account and its files; `Torn` is a port file that was truncated and not written |
| `root` | whether the broker runs as root; one that does not, the documented one of a developer's machine, cannot write the key files of an earlier attempt again (`Sealed`) |
| `job` | what a process does under its lock: the step of `prepare`, `ensure_workspace` or `update_stack` |
| `container`, `volume`, `dir`, `gone` | the agent's container and what it sees at `/workspace`: the old volume, the host directory, or a directory that has lost its name |
| `writes`, `told`, `contested` | history: how often the agent wrote; the connections the broker answered with; accounts two processes moved at the same time |

Each file that another step reads, each command of Docker and the rename are
steps, and a process may die between any two; the five files of keys and
settings, which nothing reads before the manifest is there, are one
(`WriteFiles`). `prepare` keeps its order: directory, port,
keys, environment, manifest by rename. The broker serialises its own requests;
`update-runtime.sh` is another process and does not share its lock.

### WebClient

| in the model | in the code |
|---|---|
| `activeId`, `draft`, `sending`, `messages`, `pending`, `run` | state and refs of `App.tsx`, `agent.run` of `useAgent.ts` |
| `call[e]` | a `sendMessage` between its awaits; `current` is false once the person has navigated |
| `poll`, `loading`, `wire` | the one refresh, the one load that are not cancelled, and the events the current socket has yet to deliver |
| `threads`, `runs` | the backend: an id is reserved once, a conversation has one active run; a conversation does not exist yet, is kept, is deleted, or is deleted and the view was told so |
| `moved`, `back` | history of the open conversation: an answer moved the view to it from another; the person went back to it when they had been told it is deleted |
| `late`, `displaced` | history: conversations deleted with the answer to an accepted message still on its way; messages whose pending submission another replaced or cleared |
| `scope` | the bounds of one behaviour, chosen at the beginning and never changed |

A handler up to its next await, with the render and effects it causes, is one
action. Changing `activeId` in any way cancels the poll and the load and
replaces the socket (`Switch`); `activateConversation` also clears the view and
the pending submission (`Activate`), and is what `NewChat`, `SelectThread` and
`Back` do and what `Deleted`, the answer to a deletion, does to the
view that still shows the conversation. `Delete` is the backend's half: it
refuses a conversation with an active run. Lists are functions from request ids to what is shown of
the reply; a reply's text is a version number, longer means later.

## 3. Runs of TLC

Deadlock is not checked in any run: a system in which every run is settled,
every request is answered and every bound is used up is rightly quiet.

| run | distinct states | instance | shows |
|---|---|---|---|
| `RunsConcurrency` | 1 088 000 | two requests, handlers and followers, one conversation, two versions of a reply, no fault | uniqueness, agreement of the tables, one follower per run, final outcomes, with replays, stops, late replies and a deletion racing |
| `RunsFaults` | 1 107 000 | one request id and conversation, two versions of the output; a close, a crash, a read or a save that fails, a late submission, a lost record, an old copy of a record written back, each at most once and in any order; runtimes that disappear | active runs are followed again unless a failing read or save stranded them, close is quiet, no second submission, no outcome the gateway did not reach unless its records were lost or overwritten, refinement of `RunLedger` |
| `RunsLiveness` | 292 000 | one request, live stream, three gateway statuses, one crash, one late submission, one gateway restart, fair | a stop ends its run, an outcome reaches the store |
| `Channel` | 121 000 | two keys, two requests, a reply, an approval, an update and a command, one crash, one refusal, fair | handed once, the hooks find their delivery, none is left behind, refinement of `Receipts`, every accepted message is settled |
| `ChannelReplies` | violation | one key, one update | first finding |
| `Accounts` | 292 000 | two identities of the owner, one with a page open, three goroutines, one sign-in, one moved gateway, one crash, fair | one known server, one owner of the old store, readiness is fresh, close is complete, a page that waits gets in |
| `GitHub` | 214 000 | one dialog, two requests, two sign-ins, every command may fail, restarts, fair | a disconnect is not undone, a sign-in that ends well is in place, actions end, the status line of the dialog comes to show what the gateway says |
| `Sessions` | 2 025 000 | two browsers, accounts, requests, logins and sessions, one outstanding login at a time | refinement of `Logins`: a session is earned by one login of its browser and ends for good; a live cookie is cleared only when due |
| `Sockets` | 134 000 | two sockets, channels of two, one failing statement, fair | no send on a closed channel; sockets end with their session |
| `Broker` | 613 000 | two accounts to prepare, or the owner's workspace to move with the update script beside the broker, as root or not; one fault of each kind (crash, crash inside the port file, Docker, disk, stack), fair | ports apart, a lease for each account (refinement of `Leases`), no write out of sight unless two processes moved the workspace at once, accounts come up or need an operator |
| `Client` | 354 000 | one event under way; two messages or deletions with two ids, in an old and a new conversation, or two runs with the reply of one, or one run whose reply has two versions (`Scopes`); fair | a retry is the same run unless another message displaced it, one conversation in view, a deleted one is left, complete replies stay and appear, the composer is freed |
| `ClientRetry` | violation | two messages in one conversation, three ids | second finding |

Why the bounds are enough. Two of a kind are the smallest instance in which
uniqueness, separation and exclusion can fail, and no action of a model looks at more
than two: two runs of a conversation, two identities of the owner, two requests
with one login state, two accounts on one set of ports. Handlers, followers, goroutines
and requests are reused, so long sequences of calls happen too. One fault of each kind is
enough to put it at every point of a behaviour, and `RunsFaults`, `Broker` and
`Accounts` have them together, so that their combinations happen. Queues and counters (channels of
one or two, one outstanding login, two ports) are small so that their limit is reached. In
`Client` each behaviour draws one of three sets of bounds (`scope`), since the
messages that overtake each other, the two runs of a conversation and the
versions of a reply are each needed but not together; with two ids, a message
retried under a new one has two runs, and `ClientRetry` has the third id by
which a displaced message runs twice. `Broker` is split the same way (`Limits`):
accounts are prepared, or a workspace is moved. `GitHub` has two
sign-ins, so that one can be overtaken by the other and both by a disconnect;
requests are reused without limit. Model values that
are not told apart by name are symmetric; liveness runs do not use the symmetry.

What the instances do not reach: conversations with many settled runs, a second
crash of the same process, a request id that is used again in another conversation after its
own was deleted (the safety proofs cover all three), a live stream under faults in the safety
runs of `Runs` (`RepliesMatchRuns` is proved for it, `RunsLiveness` has it), a session that is lost to a
failing statement in `Sessions` (`MaxFailure` is 0 there, 1 in `Sockets`), a
rotated session and a restart of the gateway beside the other faults (`RunsLiveness` has
both, with a crash and a late submission; an interrupted record is to the backend like
one settled or overwritten as failed, which `RunsFaults` has), more
accounts than ports in `Broker` (`PortsStayDistinct` is proved for every number of both).

What the properties leave out, because the code does it:

* `ActiveRunIsFollowed`: runs that a failing read or save of the store stranded,
  and ids used again after their conversation was deleted.
* `WorkspaceKept`: accounts whose workspace two processes moved at the same time
  (see the end of the findings).
* `PreparedComesUp`: accounts that need an operator (`Stuck`). Before the
  manifest: a torn port file of any account, and read-only key files that a
  broker which is not root cannot write again. After it: a workspace that was
  moved and not registered.
* `RetryIsSame`: messages whose pending submission was displaced (second finding).
* `DeletedIsLeft`: conversations the person went back to, and those deleted while
  an accepted message to them was unanswered: that answer opens them again,
  whatever has happened since (`App.tsx:400-402`).
* `OneConversation`: when an answer has moved the view, the messages of the
  conversation it was moved from stay in the list.
* `ClearsAreDue`: a 401 for a request sent with an older cookie takes the newer
  cookie away (`oauth.go:254`), and so does a check that failed.
* `PanelSettles`: the error of the dialog, which stays above the status, and hides
  the error of the status, until the next action.
* `ActiveIsNewest`, `AcceptedSettles`: deliveries that a stale copy made active again.

`TypeOK` documents the shape of
the variables of each module and is a theorem of each; no run lists it.

### Fairness

* `RunsLiveness`: goroutines and handlers are scheduled and their calls have
  time limits, so local steps are weakly fair. A gateway that is asked again
  and again answers at some point (strong fairness, as the follower alternates
  between asking and failing), and it carries out a stop. The service manager
  starts a process that is down. Clients owe nothing, and a run nobody stops
  may take for ever: `OutcomeRecorded` begins with an outcome of the
  gateway and `StopSettles` with a stop.
* `Channel`: the loop runs a task that is ready, the runner ends a turn and
  goes on with a pending message, an approval nobody answers expires, the
  gateway is started again. `AcceptedSettles` exempts deliveries that a stale
  copy made active again.
* `Accounts`: a page that waits asks every two seconds (`AccountGate.tsx:31`)
  and not every answer that it is ready is lost, a pause ends, a provisioner that is asked again and again succeeds, the
  process is started again.
* `Sockets`: the goroutines of a socket run, and its checker looks at the
  session every second. `SocketsClose` exempts a handler that is blocked:
  when broadcasts fill the channel before the handler's first event and the
  writer ends, nobody takes from the channel any more (`websocket.go:132`).
* `Broker`: what has begun is scheduled, and a process that died is started
  again; clients go on asking for their account and `reconcile` comes back every
  30 seconds, and each gets the lock at some point. Nobody has to start the
  update script.
* `GitHub`: the loop runs every coroutine, the lock serves its waiters (strong
  fairness, since others may take it first), every `gh` command has a timeout and a
  device sign-in ends after fifteen minutes at the latest. The two `git config`
  of a commit have no timeout (`github_auth.py:76`) and are assumed to end: if one
  hung, the lock would be held for good. An answer reaches a
  dialog that still waits, and the dialog polls every five seconds with not
  every poll failing. `PanelSettles` speaks of a gateway where nothing is
  going on, and of the status line only; whether credentials are refused by GitHub is
  free at each look.
* `Client`: a request is answered or fails; the interval polls every two
  seconds and a backend that is asked again and again answers; the socket delivers
  what it has, but any event may have been missed. The person owes nothing.
  `ComposerUnlocks` exempts a conversation that was deleted behind the view:
  polls of it fail, so nothing frees a composer that was locked.

### Findings

* `ChannelReplies`: `control` reads the delivery, awaits the request body and,
  for an update in plain text, saves what it had read. A reply stored meanwhile
  is lost, against `README.md:55` of the repository: "Replies and edits are
  persisted by the channel". The same write can make a settled delivery active again.
* `ClientRetry`: the client keeps one pending submission, and an accepted
  answer clears it whatever it holds (`App.tsx:400`). Polls that show the
  previous run settled unlock the composer while a submission is under way
  (`App.tsx:429`), so a second message can take its place; if then the first
  is accepted and the answer to the second is lost, the retry has a new id and the message runs
  twice. `agent-ui.test.mjs:100` asserts that a retry sends the same submission.

A third disagreement is listed as a hazard (`workspace.py:26`), without a run of its own: the
broker's lock is in its process, and `update-runtime.sh` migrates the same
accounts from another. Against `update-runtime.sh:2` ("preserve every account's
credentials, state and workspace") the two can lose what an agent wrote. When
one of two migrations fails, its handler starts the stack again while the other
goes on, and what the agent writes then is not in the directory that is
registered. Or the second rename (`workspace.py:66`) replaces the empty
directory the first has just mounted, and the agent writes to a directory
without a name. The run `Broker` has the script beside the broker;
`WorkspaceKept` leaves out the accounts both moved at the same time
(`contested`), and without that exemption TLC finds it violated.

## 4. Proofs

Every safety property of the passing runs is a theorem, and so is `TypeOK` of
every module that has one. They hold for every value of the constants, under
the assumptions each module names: bounds are natural numbers, the statuses of
the gateway are those the code distinguishes, the owner's identities are
identities, values that stand for nothing are distinct from the others. Sets
of requests, handlers, followers, browsers, sockets, accounts of `AccountSlots`
and goroutines may be infinite; `WebClient` and `Broker` count conversations and ports, so theirs are
finite, and so are the messages of `Channel`. One hypothesis is stated where it
is used: the theorems of `BrokerProofs` assume `OneService`, that one broker
serves requests; any number of update scripts may run beside it.
`OneConnection` and `EverySessionIsEarned` are theorems whose properties no run
lists, because the refinements of `Leases` and `Logins` say more.

**Runs.** The safety properties are not inductive: a follower's copy decides
what the next save writes. `RunsInvariant` adds, in layers that rest on
one another,

1. `TypeInv`: the types, and that a follower at work holds a run;
2. `Structure`: which goroutine or handler may be where in which phase of the
   process, who holds `runMu`, and that the map of workers is exact
   (`SingleFollower`, `CloseQuiesces`);
3. `Rows`: a follower past loading owns an active row, its copy belongs to that
   row and is not terminal before its save, and it has no acceptance to lose while it
   submits; a handler about to store a stop holds a run of an existing
   conversation. With `Structure` this is what makes `OneActivePerThread`,
   `ReplyMatchesRun` and `NoOrphans` inductive, and gives `TerminalIsFinal`,
   `NotResubmitted` and the steps of `RunsImplementLedger`;
4. `Care`: an active row is left behind only by a close or by one of the
   exceptions `ActiveRunIsFollowed` names, the failing reads among them.

`Inv` is their conjunction. `Verdicts` ties a completed or cancelled copy to the
record of the gateway while no record has been lost or overwritten
(`RecordsKept`, for `VerdictsAreTheGateways`). `RunsKeepTheContract` says that
nothing in `Runs`, the faults included, asks of the gateway more than `Gateway` allows. Each layer has a lemma per
action or group of actions, and rests only on the layers before it.

**Channel.** `IInv` adds to the properties that rowids are below `nextRow`,
that a copy belongs to the record it was read from and an update's copy is
active, and that a key has one submission under way, which has not been handed
over. Two abstractions of a step carry the argument: `RowsKept` (all actions but
`Submit` keep keys, conversations and rowids) and `NoneRevived` (only a request
that writes its copy makes a settled delivery active, and then records it).
`ChannelImplementsReceipts` maps `Submit` to `Accept`, `ReadControl` to `Take`,
what writes a copy to `WriteCopy`, the last hook of a turn and the restart to
`Settle`, and every other action to `Drop`, which lets go of copies or stutters.

`ChannelImplementsGateway` maps the other way of looking at the same table:
`Submit` to `Accept`, the hooks of a turn and a status request to `Progress` or
`Settle`, `Send` to `AddReply`, the restart to `Interrupt`, and what writes a
copy (`Refuse`, `Approve`, `Steer`) to `Overwrite`. It needs `Told` on top of
`IInv`: rowids are distinct, so that a hook or a reply reaches one record, and what records
and copies hold has been sent, so that a new reply is a new version.

**AccountSlots.** `IInv` joins `TypeOK`, `ServersAccounted`, `StoresApart` and
`CloseLeavesNothing` with three parts. `Jobs`: an account has at most one
goroutine, and only while its slot is `starting`, and a goroutine that found a
server still has it. `Checks`: a slot whose check is current was published by a
goroutine that asked after the last sign-in, which is what `ReadyIsFresh` needs.
`Phases`: what may exist in which phase of the process. The proof has one lemma
per action. `PagesObey` shows that what a page of `AccountGate` does is a
request, a sign-in or nothing to the manager, so that the theorems hold behind
any number of pages (`AccountsBehindTheGate`).

**GitHubAuth.** The lock does not protect the credentials, because the device
task runs without it. `Alone` does: a handler past the lock has seen the task
end. `Holding` says who has the lock, `Numbers` that whatever may still store
credentials began after the last disconnect, and `Installed` that a sign-in
between its commit and git's set-up is the one in place, be it by token or by device code. `DialogsObey` shows
that a step of `GitHubSettings` is a step of `AuthSpec` or leaves the gateway
alone, so that both properties carry over to the composition.

**LoginSessions and Hub.** `ChannelsOpen`: a channel is closed together with the
end of its handler and its removal from the hub; `NoSendOnClosed` follows. A
session is earned because a login leaves the table, then the request, then
the exchange, so that it is held once (`Once`), and because the browser that
began it is known wherever its number is, in a cookie, a request or an answer
(`Bound`, `Carries`). `ClearsAreDue` has an invariant of its own on top of the
first: a request that will clear the cookie holds a reason (`Due`), and the reason
lasts, since sessions are numbered as they are created and a dead one stays
dead (`Older`), whenever the answer comes. `SessionsImplementLogins` maps
`Begin` to the action of that name (`HandleLogin` only removes rows that have timed out), the return from Google to `Choose`, `Insert` to
`Earn`, and `Rotate`, `HandleLogout` and `Age` to `End`; it adds that live
sessions are among those created (`Numbered`) and that a code is brought only
for a login somebody has chosen an account for (`Codes`).

**WebClient.** What is under way for the view is about the open conversation
(`Placed`): opening another cancels the poll and the load and drops the socket,
and only the answer to a submission survives, which `moved` accounts for in the
list of messages. `Left` ties the answer of a creation to a kept conversation,
and an accepted answer for a conversation the view was told is deleted to
`late`, which with `back` is what `DeletedIsLeft` needs. `RetryRunsOnce` needs a second
invariant, about messages whose pending submission has not been displaced: what
was typed has one place, the draft or a call (`Typed`), the pending submission
is to the open conversation and belongs to the message under way
(`PendingIsItsOwn`), and a message that runs already is sent again with the id
of its run only (`RunIsKnown`). `CompleteStays` is a lemma about each of
`Upsert` and `Merge`. `NewChatStaysFree` is the part of `ComposerUnlocks` that
safety can say: nothing polls the new chat, and there a locked composer has the
call under way whose answer or failure frees it, whatever the person did meanwhile.

**Broker.** There are two inductive invariants. `FInv` is about files, with any
number of update scripts: only the broker prepares an account, so what it has
seen stays true while it works (`Preparing`). It gives `PortsDistinct`,
`ConnectionIsStable` and the refinement of `Leases`, where `WriteManifest` is
`Grant` and the answer to a prepared account is `Tell`. `IInv` adds the stacks,
beside any number of update scripts too: `Moving` says what a stack is like at
each step of a migration and `Kept` where the writes of an agent are, both of
the accounts that are not contested, and `Apart` that two processes between the
check of a workspace and its registration make it contested. `FirstPort` shows that the
port `prepare` chooses is free, from the induction theorem of finite sets in
its first-order form.

Model-checked only: the liveness properties (`StopSettles`, `OutcomeRecorded`,
`AcceptedSettles`, `GateOpens`, `SocketsClose`, `PreparedComesUp`,
`ActionEnds`, `PanelSettles`, `ReplyIsShown`, `ComposerUnlocks`), since
fairness and ENABLED are out of the prover's reach, and the two findings,
which are counterexamples.

## 5. Not modelled

* In `Runs`: steering and approvals, which pass through to the gateway and
  change no table; the transcript events and the import of old activity;
  broadcasts; conversation titles and renames (the automatic title
  may overwrite a rename: see the hazard at `runs.go:139`). Times are
  abstracted: a timeout is an action that may happen whenever its wait is on.
* In `Channel`: texts, redaction, the home channel preset,
  session ids, capabilities, and the list of pending updates, which is only
  displayed.
* In `AccountSlots`: a failing insert of a new identity, which ends the request
  without effect, and the checks of the provisioner's answer.
* In `LoginSessions` and `Hub`: the service account of the smoke test, the
  Origin header, claims of the identity token other than its nonce; commands on a
  socket, which call `submit`.
* In `Broker`: the HTTP handler, checks of names and labels, leftover staging
  directories; the four services of a stack are one container.
* In `GitHubAuth` and `GitHubSettings`: the state `unavailable` of an image
  without `gh`, the device code and its address, the format of a token, texts.
* In `WebClient`: the activity list and its cursor, the first load of the list
  of conversations, titles, skills, the runtime's status, settings, caret and
  layout. An update to a run (`controlRun`) is one step with its answer, so
  that text typed in between is not seen to be cleared with the draft. The
  typing animation is left out: every assistant message of the backend has an
  id that bypasses it (`App.tsx:170`).
* The components marked `not_modelled` in `PROJECT.json`.

## 6. Plan

1. The consequences of a revived delivery for a run, end to end: which of
   `Overwrite`'s cases the backend's own controls can reach, and what they
   would cost a user.
2. The activity list: the cursor of the client against `agent_events`.
3. Titles and renames, as an extension of `Runs`.

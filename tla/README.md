# owa-bridge: TLA+ models, checks and proofs

owa-bridge gives local programs (a command line, an MCP host) access to one
person's Outlook Web mailbox and calendar. A single *session owner* process
holds the signed-in browsers; adapters reach it over local IPC; every operation
passes a policy, dangerous ones a preview and a single-use approval, all of them
an audit file; then they are executed against Outlook Web.

This directory holds the TLA+ modules of that system, the TLC configurations
that check them on small instances, and the theorems TLAPS proves about them for
every value of the constants.

## Inventory

| Component (source) | State | Operations | What is hard | What makes it correct |
| --- | --- | --- | --- | --- |
| approval store (`internal/approval`) | map token -> (operation, caller, deadline), mutex | Issue, Consume, ConsumeFor | clock and token are read before the mutex is taken; racing commits; deadline boundary; capacity | an approval is redeemed at most once, by its caller, for its operation, in time, and nothing else removes it early |
| policy, operations (`internal/policy`, `internal/domain`) | none (configuration) | Evaluate | effect class, mode and switches decide together with what each service does with the verdict | nothing runs against the table |
| guard, services (`internal/application`) | none of its own | fourteen operations, ten with a commit | audit failures between the steps; approval consumed but not executed | audited before it is sent; one execution per approval |
| audit recorder (`internal/audit`) | open file, mutex | Record, Close | write error, failed sync, cancelled context | an event that was reported as recorded is in the file |
| session backend (`cmd/owa/session_backend.go`) | accounts with a session, terminal logins, preview index, closed flag, WaitGroup | Login, TerminalLogin, one method per operation and per commit, Close | the mutex is held during a sign-in; Close against requests in flight; a commit names only a token | one browser per profile; the right session; nothing runs after Close; Close ends |
| Outlook Web adapter (`internal/owa`) | none between calls | one method per operation; `Client.Call` | lost, late and garbled answers; retries; methods of several calls | a write takes effect at most once; failure means nothing happened |
| daemon server, client, lifecycle (`internal/daemonapi`, `cmd/owa/command_daemon.go`, `daemon_lifecycle.go`, `runtime.go`) | 32 slots, stop channel, singleton listener | dispatch, Status, Shutdown; open, replace, wait | replacement races; Serve failing; busy slots | one owner at a time; a replacement ends with a live owner |
| local IPC (`internal/localipc`) | socket or pipe, lock file, credential file | Listen, IssueCredential, Close | read-compare-delete of a shared file | a live owner's credential stays |
| session manager, observer (`internal/session`, `internal/browser`) | credential snapshot, half-joined events | Observe, Wait, Apply | two event streams in either order, bounded maps | complete headers of requests to Outlook Web become a session, the identity provider's do not |
| terminal login (`cmd/owa/terminal_login.go`, `internal/browser/terminal.go`) | page state | step until done | abandoned logins | the account becomes usable again |
| update check, self-update (`internal/updatecheck`) | cache and lock files, executable, staging file and rollback copies | Check, Install | crash between renames; two updates at once; stale locks | there always is a working executable or its copy; answers are recent |
| MCP server, command line (`internal/mcpserver`, `cmd/owa/command_*.go`) | the client of one process, the calls it has under way | fourteen commands, fourteen tools, ten commit tools | calls that are lost, owners that change between two calls, callers that give up while their call runs on | what is reported is true; what runs was reviewed; everything ends |
| configuration, paths | none; one file, read twice by every process | Fingerprint, Load, Save | an edit between the two reads, or between two owners | a process works by the rules its digest vouches for |
| release tools, site, plugins | none | - | - | - |

The components interact by calls: an adapter calls the daemon client, it the
server over IPC, `dispatch` a method of the session backend, which calls a
service, which calls the guard (policy, audit, approvals) and then the Outlook
Web client with the credentials the browser showed. They share the backend's
mutex, the approval store and the audit file.

## Modules

| Module | Models | Composes |
| --- | --- | --- |
| `SingleUseApproval` | abstract: what an approval promises | |
| `SessionOwnership` | abstract: who owns the sessions, and whose credential can be read | |
| `ApprovalStore` | `internal/approval/store.go` | implements `SingleUseApproval` |
| `OperationClasses` | effect classes, the services' treatment of a verdict | |
| `Operations` | the policy table | EXTENDS `OperationClasses` |
| `Surfaces` | the commands and the MCP tools, and what each takes for an answer | EXTENDS `OperationClasses` |
| `SessionOwner` | session backend + guard + services + audit file | EXTENDS `ApprovalStore`, `Operations` |
| `RemoteExecution` | the Outlook Web adapter, its client and the outcome of an execution | EXTENDS `Operations` |
| `DaemonLifecycle` | owners of one configuration, local IPC, the clients that find, start, replace and stop them | implements `SessionOwnership` |
| `Adapters` | commands and MCP sessions, the daemon client, the server's slots, over owners that change | EXTENDS `Surfaces`, `SessionOwnership`; one instance of `Operations` per configuration |
| `UpdateCheck` | the cached release check with its lock file | |
| `SelfUpdate` | the installation of a release, with minio/selfupdate as it is called | EXTENDS `UpdateCheck` (releases) |
| `UpdateCommand` | what a process does about updates | EXTENDS `SelfUpdate`, `UpdateCheck` |
| `SessionCapture` | the observer of Chrome's network events and the session manager | |
| `TerminalLogin` | the sign-in of an account: command, owner's handler, headless page; visible login | EXTENDS `SessionCapture` |
| `ApprovalStoreProofs`, `SessionOwnerProofs`, `DaemonLifecycleProofs`, `RemoteExecutionProofs`, `AdaptersProofs`, `UpdateCommandProofs`, `TerminalLoginProofs` | theorems | each EXTENDS its module |
| `SessionOwnerSafetyProofs` | theorems | EXTENDS `SessionOwnerProofs` |
| `MCApprovalStore`, `MCSessionOwner`, `MCRemoteExecution`, `MCDaemonLifecycle`, `MCUpdateCommand`, `MCTerminalLogin`, `MCAdapters` | small instances | |

### ApprovalStore

`pending` is the map of the store. `Issue` is two actions because the code does
it in two: `Draw` fixes the token and the time before the mutex, `Issue` or
`IssueRefused` prunes, checks and inserts under it; any number of other steps
may come in between (`drawn` holds the calls that wait). `Consume`,
`ConsumeExpired` and the returns that change nothing are `consume` under the
mutex. The clock is monotonic, moves on its own and is bounded by `MaxTime`.
`granted`, `redeemed` and `serial` are history variables: a token may repeat, so
`serial` numbers the approvals that were stored under it. Tokens are model
values: their encoding and length are not modelled.

`SingleUseApproval` knows neither tokens nor mutex nor capacity: an approval is
live, then spent once by its caller in time, or lapsed after its deadline.
`ImplementsPromise` maps the store onto it.

### OperationClasses, Operations, Surfaces

The fourteen operation classes with their effect and what their service does
with a verdict: `direct` (runs on allow), `either` (runs on allow, hands out a
preview), `approved` (refuses to run on allow). `Evaluate` is `Rules.Evaluate`.
The classes are a module of their own because `Adapters` takes `Operations` once
for each configuration. `Surfaces` lists what the two adapters offer: a command
has one class and accepts a result, a preview or either; a tool prepares an
operation, and ten tools come with one that commits it.

### SessionOwner

A request is one call of an adapter: `pc` says where its handler is, `request`
holds its parameters and locals. A step is one critical section, one write of
the audit file or one side of the remote call:

    idle -> session -> [launch -> login] -> prepare -> execute -> remote -> done
                                                   \-> draw -> issue -> remember -> done
    idle -> lookup -> consume -> committed -> execute -> remote -> forget -> done

* entry (`EnterRefused`, `EnterLogin`, `EnterOperation`, `EnterCommit`): closed
  flag and WaitGroup, in one critical section of the backend's mutex;
* `SessionFound`, `SessionBusy`, `LoginStart/Launched/Done/Failed`:
  `accountServices`, which holds the mutex until the sign-in ends - `holder` says
  who has it and `MuFree` is a conjunct of every other critical section. `launch`
  is the part without a deadline (`browser.go:81-86`), `login` the wait with
  `LoginTimeout`;
* `Decide`, `DrawToken`, `IssuePreview`, `IssueFails`: `Guard.Prepare` with the
  store's own actions; `RememberPreview`: the backend's preview index;
* `PreviewKnown/Unknown`, `Redeem`, `RedeemLate`, `RedeemRefused`,
  `RecordCommit`: a Commit method and `Guard.CommitFor`;
* `Execute`, `Complete`, `ForgetPreview`: the execute methods; the outcome of
  the remote call is any that `RemoteExecution` derives;
* `TerminalStart` to `TerminalDropped`: a call of `TerminalLogin`, which keeps the
  mutex from its first to its last statement: it takes it, launches a browser or
  waits on the page (`holder.step`), and gives it back with the result. How long
  it waits is nobody's promise: `TerminalAct` and `TerminalSnapshot` have no
  deadline but the caller's context;
* `CloseBegin`, `CloseEnd`: the two critical sections of `Close` around the
  WaitGroup's `Wait`.

`Record` has the recorder's three ways: written and synced, written but
reported as an error, not written. `trail`, `sent`, `expired` and `launcher`
record what became durable, what was sent, what the service rejected and on
whose context a browser lives. A crash of the owner needs no action: the
invariants over `trail` and `sent` hold in every state, so at every point where
the process can end, and everything else it holds is in memory.

### RemoteExecution

A method is a plan of calls. The client sends, waits, retries reads, classifies;
the network may lose a request, the service may perform it at any time (also
after the client gave up) and answer in six ways, or not at all. `blanket` marks
the calls whose failure the method itself turns into `ErrWriteOutcomeUnknown`.
`outcome` is what the service layer writes into the executed event. The service
is trusted in one point: an explicit success, refusal or 401/403/440 is true.

### DaemonLifecycle

A process is one `owa daemon serve`; its `phase` follows `Run` from the lock to
its defers:

    off -> started -> locked -> rotating -> issued -> serving
        -> closing -> draining -> closed -> check -> remove -> end -> exited

`lock` is the flock together with the listening socket: `Listen` makes both or
neither, `Listener.Close` drops both, and the kernel drops the lock of a process
that is killed (its stale socket is removed by the next `Listen`, under the
lock). `file` is the credential file, written in two steps (`RemoveOldCredential`,
`IssueCredential`) and given up in two (`CheckCredential`, `RemoveCredential`). A
credential is random, so the model names it after the process that issued it.
`IssueAbandoned` is an error after the new credential is in its place
(`credential.go:130`): it stays there, and `Run` ends. `backend.Close` has two steps
before its end: `closing` waits for the backend's mutex, which `held` says a browser
keeps (`OpenBrowser`, `ReleaseMutex`), and only `CloseBegin` keeps further calls out
and cancels. `ServeFails` is the way out of `Run` that skips the orderly close;
`failed` remembers who took it. `Crash` may come at any step. A process is started
by a client (`StartDaemon`) or by hand (`ServeByHand`).

A client is one call of `openDaemon` or of `owa daemon stop`, as a loop of
`Load` (the credential is read) and an answer (`OwnerSeen`) or none
(`OwnerUnseen`); the two are separate steps because another owner may take over
between them, which is also why `ShutdownOwner` authorises with the credential
it inspected. `mode` is the function that asks: the probe of `openDaemon`,
`waitForDaemonExit`, `waitForDaemon`, or the stop command. `OwnerUnseen` and
`ShutdownLost` are always possible: they stand for a busy server, a deadline and
a lost answer as well as for an owner that is not there. The executable a client
starts may be of any build: an update may have replaced it since. Chrome is
taken to end with the process that launched it.

`SessionOwnership` is what the rest of the system sees of all this: one owner or
none, the credential that can be read, and the processes that have not owned yet.
A process takes over when nobody owns, publishes its credential, and loses the
ownership for good; what can be read is what the owner published, or nothing,
or what is left of an owner that is gone. `Promise` maps the lock to the owner and
the file to the credential; `ImplementsOwnership` says that the detailed module
keeps to it.

### Adapters

An adapter is a process, a command or an MCP server; a *job* is one command or one
call of a tool. `job` holds the locals of its handler and of `Client.call`:

    idle -> dial -> waiting -> answered -> done
              ^------ ShowReview -----/

and `call` is the same call as the server sees it, which goes on when the job has
given up: arriving, running, returning. `setup` says what every process was
started with: the protocol of its build, the configuration its digest is of, and
the one it works by. The three are independent, because a process computes the
digest and loads the rules in two reads of the file, and the file may be edited
between them and between two processes.

* `OpenDaemon` is the end of `openDaemon`: this owner has my protocol and my
  digest. How the process got there is `DaemonLifecycle`;
* `RunCommand`, `CallTool`: a command names its operation and whether `--approve`
  was given; a tool call prepares, or commits a token that was disclosed;
* `LoadCredential` and `Dial` are two steps of a call, between which the owner may
  change; `Dial` waits for a connection of the process's pool;
* `TurnAway`, `Admit`, `Reject`: credential, slot, envelope; then the answer of
  the session backend in one step: `RunAtOnce`, `HandOutPreview`, `RunApproved`
  or `Fail`. `SessionOwner` is what happens in that step;
* `Return` writes the answer to whoever still waits and gives the slot back;
* `GiveUp` and `Broken` end a job, `Exit` a process that lost the ownership, with
  its calls, slots and approvals; `Ownership` is any step of `SessionOwnership`.

An approval is named by the job that asked for it and the owner that holds it.
`runs` is the history of executions, and the measure of what is reported.

### UpdateCheck, SelfUpdate, UpdateCommand

`check` holds the locals of one `Checker.Check` per process:

    load -> lock -> recheck -> publish -> fetch -> store -> release -> answer
              \-> inspect -> takeover -> reopen -/

A step is one file operation or the network request. The lock is a file that
exists or not; its removal names a path, so `RemoveLock` may take another's
lock, and `lost` remembers whose. Each process reads the clock once.
`base` remembers which release was the latest when a tick began.

`install` holds the locals of one `Installer.Install`:

    release -> download -> provenance -> checksum -> candidate
      -> inspect -> staging -> open -> write -> unlink -> aside -> in -> done
                                                                \-> rollback

The steps up to `candidate` work in a private directory; what was downloaded is
the project's or not, manifest and archive each. From `open` on it is `Apply` of
minio/selfupdate 0.6, which is not part of the repository: truncate the staging
file, write it, remove the rollback copy's path, rename the executable to it,
rename the staging file to the executable, or undo the first rename. Paths name
files (`exe`, `staging`, `backup`), so that a process whose open staging file is
renamed goes on writing what is now the executable. A process may die, or an
operation fail, at every step.

Nothing keeps two installations apart: the paths are inspected
(`selfupdate.go:218`) and used later. `overlap` becomes true when a second
installation passes its inspection while another is between inspection and end,
and the four properties about files are stated for behaviours without it. They
need it: without the exception TLC finds a second update that removes the first
one's rollback copy, also at the moment when it is the only whole program at
either path. `docs/install.md:238` and
ADR 0007 state the promise without exception.

`UpdateCommand` composes them as `cmd/owa/command_update.go` does: a notice and
`owa update check` look with the cache, `owa update` installs a direct
executable and otherwise looks without it.

### SessionCapture, TerminalLogin

Chrome reports a request in two streams, with the URL (`RequestWillBeSent`) and
with all headers (`ExtraInfo`), each in order and neither in step with the other.
A redirect is another *hop* under the same request ID. `traffic` says what Chrome
sent; `announced` and `detailed` how far the two streams have been handled; the
observer's maps are `eligible` and `early`, the latter with its cap. chromedp
delivers events one after the other, so a handler is one step. A snapshot is named
by the hop whose authorization it holds. `dropped` remembers the full headers that
the cap threw away and those that came after their request had ended, which nobody
joins with anything any more; `NothingMissed`, a part of `CaptureFollowsRequests`,
must not count either. (The latter
wait in `early` all the same, until the cap clears them, or others of the same
request take their place.) `NoForeignRequest`, the other part, is about
requests and not about their hops: that a redirected request is captured from the
right hop is `IdentityProviderIgnored`, which is false (see Findings).

`TerminalLogin` composes that browser with three actors. The *command* is a
process and a caller of its own; its phases are those of its loop:

    off -> asking -> menu -> asking -> keys -> asking -> ... -> leaving -> ended

The *owner* holds its mutex for a whole call (`serving`), in which it acts, looks
at the session and takes a view (`step`: act, poll, view); `interaction` is its
terminal login with deadline, caller and cached view. The *page* changes at any
moment: other controls, or the same ones as new nodes. `marker` is the attribute
the snapshot script puts on the nodes it numbers, and what the owner acts on.
`BreakOff` and `GiveUp` are the ways out of the command, with and without its
deferred cancel. A visible login (`VisibleLogin` and what follows) waits for the
same capture.

`KeysReachChosenControl` relates what the person chose from a view that was
printed some calls ago (`chosen`) to the node the browser finds by its number
now. It would break if a view were taken without being shown.

Not modelled here: a page that moves the focus between chromedp's `Focus` and its
key event, disabled controls (the command refuses them itself), and the text and
limits of a view.

## Runs

| Run | Checks | Instance |
| --- | --- | --- |
| `approval_store` | `StoreTypeOK`, `RedeemedAsGranted`, `ImplementsPromise` | 2 tokens, 2 callers, 2 operations, 2 threads, capacity 1, TTL 2, times 0..2 |
| `owner` | type and eight safety invariants | 3 requests, 2 accounts, a send, a body read that is previewed and a move that is not, 2 tokens, capacity 1, TTL 1 |
| `owner_live` | `EveryRequestAnswered`, `CloseCompletes`, `KeepsStoreContract` | 3 requests, 1 account, fairness, no symmetry |
| `owner_expiry` | violates `ExpiryLeavesReady` | 2 requests |
| `owner_browser` | violates `KeepsBrowser` | 2 requests |
| `remote_execution` | type, `WriteTakesEffectAtMostOnce`, `OutcomeIsTrue`, `ExecutionEnds` | every method, 3 attempts |
| `daemon` | type and three safety invariants, `ClosingReleases`, `EveryOpenReturns`, `ImplementsOwnership` | 2 processes, which a client or a person starts, 1 client, 2 builds, 2 confirmations, fairness, no symmetry |
| `daemon_credential` | violates `OwnerReachable` | 2 processes, 1 client |
| `updates` | five safety invariants, `FailureKeepsExecutable` | 3 processes, 3 releases; checks: times 0..2, locks stale after a tick, cache good for 2 |
| `adapters` | type, `ReportIsTrue`, `ReviewedBeforeRun`, `BoundedConcurrency`, `EveryCommandEnds` | 2 processes, a command and an MCP server with 2 calls, of which 2 begin, 1 slot, 1 connection, fairness |
| `sign_in` | `SignInTypeOK`, `CaptureFollowsRequests`, `KeysReachChosenControl` | 2 commands, a field and a button, 2 browsers, 2 requests of 2 hops, 1 early header |
| `sign_in_redirect` | violates `IdentityProviderIgnored` | the same |

Why the bounds are enough to be interesting. A race for an approval needs one
token and two requests that commit it; the third request prepares it or meets
Close. Two classes of operation give a commit through the wrong tool; the commit by the
wrong person is the subject of `approval_store`, and `PolicyIsEnforced` covers it
in the owner. Two accounts on different operations give a
commit that could run on the wrong session. A lifetime of one tick lets a
deadline pass between any two steps of a handler. Capacity one makes the second
Issue meet a full store, for which it needs a second token. In `approval_store` two threads may draw the same token before either is
stored, so that collisions and re-used tokens occur although `MaxSerial` is 1.
`LoginTimeout` is 0 or more ticks: with 0 the deadline of a terminal login may
pass at the next tick.

Deadlock is not checked: each instance has finitely many requests and a clock
that stops, so a state in which everything has been answered is where it ends.

For owners, two processes are enough for a successor to overtake each step of its
predecessor, and the predecessor each step of its successor. An owner that somebody
starts by hand, or that is interrupted, is the rival of the client: it wins the
race for a replacement, or ends while it is inspected. Processes and builds are
interchangeable, but TLC's symmetry does not go with liveness, so `MCDaemonLifecycle`
names them in the order in which they come (`InitInOrder`, `StartsInOrder`); it also
starts by hand only builds other than the client's, and only after an owner has
let go. The theorems about `DaemonLifecycle` have none of these bounds. The code
counts two confirmations, and so does the instance.

For updates, three processes give a chain of two installations, one that began
before both, and every overlap. Installations and checks use different files and
take no notice of each other, so the constraint `Apart` follows the former
without checks and clock and the latter in a managed installation, at most two
at a time (a third may have died with the lock) and over two releases.

For the sign-in, two hops are a redirect in either direction, and with one slot for
early headers the second request clears those of the first (the code has 2048).
Two browsers are a terminal login followed by another or by a visible one. Traffic
and page do not meet except in the question whether there is a session, so the
constraint `Narrow` follows all traffic of a visible login, and a terminal login
with one authorised request.

For adapters, two jobs are a preview and its commit, two calls that want one slot or
one connection, or a command and a tool that want each other's approval. With one
slot a call that was abandoned keeps the next one out and with one
connection a second call waits for the first (the code has 32 of each). A command may give
up, and begin again in another owner, between any two steps. The two deployments of
the instance are an owner that was starting while the file was edited, followed by
one that read the edited file; and the usual owner followed by one whose build has
another protocol.

Symmetry is used in runs that check safety only, over sets whose members the
properties do not tell apart (`ImplementsPromise` is a safety
property about steps, which maps permuted states to equally permuted ones). The runs with liveness
properties do without.

Read-only mode and the other rules of the policy table have no run: `PolicyIsEnforced`
proves the table for every mode and switch, and `owner` breaks when it is
mutated.

### Fairness

`FairOwnerSpec` gives a handler strong fairness, except while it launches a browser,
and weak fairness to `CloseEnd`. The code justifies it: the wait for a session ends by
`Browser.LoginTimeout`, a remote call by the HTTP client's timeout, and Go's mutex is
handed to who has waited for a millisecond, so that a handler which finds it free
again and again gets it. Nothing is assumed of a browser: its launch and its
navigation (`runtime.go:267`), and the actions and views of a terminal login
(`terminal.go:125`), wait with the mutex held and without a deadline, for a control
that is no longer on the page until a person interrupts. So the liveness properties
of the owner have that as their condition, and say the rest: `EveryRequestAnswered`
holds in behaviours in which again and again no browser keeps the mutex
(`BrowserHasMutex`), whatever races for it; `CloseCompletes` needs less, since no
terminal login can take the mutex after Close had it once. The first `mu.Lock`
of Close is before that, and its wait is in `ClosingReleases`.

No
fairness is assumed of arrivals, of the clock, of terminal logins or of somebody
calling Close. `RemoteExecution` assumes only that the client goes on. `DaemonLifecycle`'s
`FairSpec` is strongly fair to a process that can go on (to take the mutex, for
one) and to the end of calls once Close has begun and no browser keeps the mutex,
and weakly to the clients and their deadlines; nobody has to call, to be
interrupted, to fail or to be killed, and no browser has to give the mutex back:
that it does is the condition of `ClosingReleases`. Without it the owner may keep its
lock for good, which is why the time of a shutdown is not bounded, though
`docs/threat-model.md:43` asks for it. `EveryOpenReturns` needs no such condition,
because the clients have deadlines.
`Adapters` assumes a single weak fairness: while a job or the server outside of a
handler can go on, some one does, and a client notices a broken connection; each
job takes finitely many steps, so it is enough. Handlers need not return: that they
do is the condition of `EveryCommandEnds`, for each job again and again. Nobody has
to begin, to give up or to end.

## Theorems

Proved by TLAPS, for every set of tokens, callers, operations, requests and
accounts, processes, clients, builds, adapters, jobs, releases, commands and
controls, every lifetime, cap, number of slots and of attempts, and every policy
configuration, from the assumptions named below. Every invariant and every safety
property about steps or refinement that a passing run checks is among them.

| Module | Theorems | Assumptions |
| --- | --- | --- |
| `ApprovalStoreProofs` | `StoreTyping`, `RedemptionIsAuthorised`, `ApprovalsAreSingleUse`, `CapacityIsRespected`, `ApprovalsAreKept`, `StoreImplementsPromise` | `StoreAssumption` |
| `SessionOwnerProofs` | `OwnerTyping`, `OwnerKeepsStoreContract`, `OwnerRedeemsAsGranted`, `PolicyIsEnforced`, `ApprovalsRunOnce`, `NothingSentUnaudited` | `StoreAssumption`, `PolicyAssumption`, `OwnerAssumption` |
| `SessionOwnerSafetyProofs` | `ProfilesAreNotShared`, `CloseLeavesNobody`, `RunsOnItsAccount`, `GoodApprovalsAreReachable`, `SuccessIsOnRecord` | the same |
| `RemoteExecutionProofs` | `ExecutionTyping`, `WritesAreNotRepeated`, `OutcomesAreTrue` | `ExecutionAssumption` |
| `DaemonLifecycleProofs` | `LifecycleTyping`, `BrowsersAreUnderLock`, `OverlapNeedsFailure`, `CredentialIsNeverForeign`, `ShutdownIsTargeted`, `OpenedOwnersAreCompatible`, `LifecycleImplementsOwnership` | `LifecycleAssumption` |
| `AdaptersProofs` | `AdaptersTyping`, `ReportsAreTrue`, `RunsAreReviewed`, `SlotsAreBounded` | `AdapterAssumption` |
| `UpdateCommandProofs` | `UpdateTyping`, `ChecksAreAlone`, `AnswersStayRecent`, `SomethingToRun`, `PreviousIsRetained`, `UpdatesAreNotUndone`, `FailuresKeepExecutable` | `CheckAssumption`, `OriginalAssumption` |
| `TerminalLoginProofs` | `SignInTyping`, `CapturesFollowRequests`, `KeysAreNotMisdirected` | `CaptureAssumption`, `TerminalAssumption` |

The assumptions give constants their types. Those of the form `None \notin ...`
say that the one value that stands for "nothing" is none of the values it is told
apart from: Go's `nil`, absent map entries and empty strings are never tokens,
records or results. `RemoteExecution` assumes at most five attempts, which
`NewClient` enforces (`client.go:105`), and the methods it lists; `TerminalLogin` that a page has
finitely many controls. No set of processes, requests or jobs is assumed finite.

`WithinCapacity`, `NoReplay`, `NeverBurned` and `OpenedIsCompatible` are proved
and have no run: what they forbid is forbidden by `ImplementsPromise` and by the
typing of the store, or follows from one guard.

The argument for the store. None of its properties is inductive. `StoreInv`
adds that serial numbers never fall behind what was granted under a token (so a
token that is drawn again names a new approval), that what is stored is granted
under the current serial number, and that a call that waits for the mutex drew
its time in the past, so that what it prunes has expired by now. With it the
refinement is a step-by-step simulation: `Draw` is a stutter, `Issue` is
`GrantApproval`, pruning is `DropLapsed`, `Consume` is `Spend`, `Tick` is
`Advance`.

The argument for the owner. `TypeInv` says which locals are set at which step.
`GuardInv` carries four facts along: a request that holds a grant redeemed it
for exactly what it will run; a request at or past `execute` has been cleared by
the policy or holds a grant, and has its allowing event in the audit file; the
grants of requests are among the redeemed ones; and no two requests hold the
same grant. The last one needs the store's `NoReplay` in a step of the owner,
which is why `OwnerKeepsStoreContract` (every behaviour of the owner is one of
the store) is proved first.

The other properties of the owner need a second invariant on top of that,
`SafetyInv`. `LifeInv`: who launches or awaits a browser has the mutex, the WaitGroup counts
exactly the handlers between entry and return, and none is left after Close; with
it `OneBrowserPerProfile` is inductive. `TokenInv`: a token names one approval for
good (the owner draws fresh ones; repetitions are the store's subject). `PlaceInv`
has what a handler knows at each step. From the session to the end it has its
operation's account, which has a session; that a commit has it too, although it
was told a token only, is `IndexInv`: the index of previews names the account of
whatever is stored under the token, until it is redeemed. That in turn holds because
a step that forgets an entry is one whose token is no longer stored
(`PlaceOfToken`), or whose deadline has passed.

The argument for an execution. `CountInv` counts: for each call of the plan, what
took effect and what is still on its way were sent, and a call that writes is sent
once; a retry adds to what was sent only when the call reads. `TruthInv` is the
client's knowledge: calls it has left behind took effect, an explicit answer is
true and came after the last request of its call had left the network, and a
failure is reported only at the first call, or where the method calls it unknown.
`Fine` says what the proof needs of a plan, and is proved of every method.

The argument for the adapters. `ProgressInv` ties the history of executions to the
place of a call: nothing has run before the server is through with it, what it
returns tells which, and a job that reports something definite has no call left
that could still run. `SlotInv` equates a slot counter with the cardinality of the
set of calls that run in that owner, which is therefore finite whatever `Job` is.
`ReviewInv` follows an approval: a token that is about to be committed was shown,
whoever asked for it has begun and keeps its class, and each execution was allowed
by the rules of its owner or comes from such a token. `OpenedInv` says what
`openDaemon` has vouched for, once and for all.

The argument for updates. Of the checks: `LockInv` says that whoever works under
the lock either owns the file or was counted among those who lost it, `RecentInv`
that the cached release is as of the time the cache bears, or later. Of the
installations: `Orderly` holds until two of them overlap. It says for every step
between which paths hold which whole program (`KeepsCurrent`), what has been
verified and whose the staging file is (`Verified`, `OwnFile`), and, of two
installations, that the one that is under way started from at least the release
the other has reported (`StandsAgainst`); that is what keeps an update from being
undone by an installation which read its current release before.

The argument for the sign-in. Of the capture: the two streams report hops that were
sent, in order, at most one hop apart (`HopsInv`); a request is eligible exactly
while one of its announced hops went to the configured origin and it has not ended
(`EligibleInv`); and the full headers of a hop that is not announced yet wait in
`early`, unless they were let go or a session exists (`WaitingInv`). The step where
this could fail is a second header that takes the place of the first one in
`early`: by `HopsInv` that cannot happen to a hop that may still be joined. Of the
relay: a marker on the page is a number of the view that was shown last
(`MarkerInv`), a call that is served leads the interaction (`ServingInv`), and what
its person sees and has chosen is that view (`InStep`). So the element with the
marker is the chosen one, or there is none.

The argument for the daemons. `LockInv` ties the lock to the place in `Run`: a
process between `Listen` and its close has the lock, and one that has calls or
browsers serves, closes, or has seen `Serve` fail. So a lock that is taken means
that nobody else is in those places, which gives `BrowsersUnderLock` and keeps
`FileInv` (nobody but the holder writes the credential file; anybody may empty
it). `ShutdownInv` says what a client knows when it asks for a shutdown: the
credential it sends is the one of the owner it saw, and that owner's build is not
its own. Builds do not change once a process is started (`SettledInv`). The refinement
of `SessionOwnership` goes one step at a time: `TakeLock` is its take-over,
the two writes of the credential file its publication, every way to lose the lock
its end of ownership; that a process that takes the lock has not owned before, and
that nobody but the owner writes the file, are `LockInv` and `FileInv` again.

Only model-checked: liveness under fairness (`EveryRequestAnswered`,
`CloseCompletes`, `ExecutionEnds`, `ClosingReleases`, `EveryOpenReturns`,
`EveryCommandEnds`), which is beyond this prover.

Two of the invariants were found wrong, or not provable as they stood, on the way.
`NothingMissed` held in its run because the instance has one early header; with two,
full headers that arrive when their request has ended take each other's place, and
the property blamed the observer for it. `dropped` now has them, at any cap.
`ServingInv` needed that only a call that may have changed the page is answered with
a fresh view: without it, the numbers of an open relay would change under it.

## Findings

* `owner_expiry`: a session the service rejects is never given up
  (`internal/owa/client.go:163`), though `docs/architecture.md:105` says that
  expiry leads back to `needs_login`.
* `owner_browser`: a browser that a call starts lazily lives on that call's
  context and ends with it (`cmd/owa/runtime.go:264`), though
  `session_backend.go:43` keeps it for the lifetime of the owner. Terminal
  logins use the owner's context.
* `daemon_credential`: an owner that ends may remove its successor's credential
  (`credential.go:52`): the file is compared, then removed, after the lock is gone.
* `sign_in_redirect`: the hops of a redirected request share their ID, by which alone
  the observer joins headers and URL (`observer.go:48`). So the authorization sent to
  the identity provider becomes the session when the request event of the hop to
  Outlook Web is the next one handled, though `docs/authentication.md:74` says that
  "authorization from those origins is ignored". `NoForeignRequest` is what holds:
  nothing is captured from a request none of whose hops went to Outlook Web, and a
  request that was not redirected is captured from its one hop.

Other disagreements are exceptions in a property or a theorem instead of runs of their own:

* sending a message with attachments reports a plain failure when the last call is
  refused, though the draft exists (`internal/owa/mail_send.go:21`). `OutcomeIsTrue`
  excepts it;
* configurations are compared by `openDaemon` only (`runtime.go:170`), though
  `docs/configuration.md:70` says "before every new connection": a later call of an
  MCP server may run under the edited policy of an owner that another process
  started. `ReviewedBeforeRun` demands the adapter's own policy of the owner it
  opened only;
* an owner takes the digest of the file in one read (`command_daemon.go:69`) and its
  policy in another (`session_backend.go:69`), though `docs/configuration.md:69`
  speaks of the digest "of the exact secret-free config it loaded"; an adapter
  does the same. `ReviewedBeforeRun` excepts processes that started during an edit
  (`Torn`);
* when `Serve` returns an error, the lock is released before the browsers are
  closed (`command_daemon.go:101`), against the comment five lines below.
  `OverlapNeedsFailure` proves that this is the only way two owners overlap;
* overlapping updates (see `SelfUpdate` above): `ExecutableOrBackup`,
  `PreviousRetained`, `NeverDowngrades` and `FailureKeepsExecutable` say nothing of them;
* two processes may ask for releases at once when one has lost its lock, taken for
  stale or removed by another holder's release (`checker.go:158`). `OneCheckAtATime`
  excepts them (`lost`); `AnswersAreRecent` does not;
* full headers that the observer's cap clears, or that come after the end of their
  request, are lost (`dropped`): the session is then captured from a later request;
* an owner may wait for its mutex for ever before it begins to close, because a
  browser keeps it (`session_backend.go:1024`, `terminal.go:125`), though
  `docs/threat-model.md:43` has the session owner "bound ... shutdown time". It is the
  condition of `ClosingReleases`;
* a terminal login whose command died, or got an error (its zero result makes the
  deferred cancel of `terminal_login.go:36` do nothing), stays in the owner. Another
  caller is refused before anybody looks at the deadline
  (`session_backend.go:222`), so that the account has no terminal login until the
  owner ends. No document promises otherwise.

Two things the models show that nobody promises otherwise: an operation that ran is
reported as an error when its result exceeds the size of a response
(`server.go`, `writeEnvelope`), and a caller is known by the number of its process
(`runtime.go:285`), so that a later process with the same number may commit what
it was shown.

## Not modelled

* What changes no state: input validation, normalisation of payloads, the text of
  reviews, encodings, output formatting, MCP schemas, flag parsing, the commands
  that only print or write a configuration file (`config`, `mcp config`, `mcp setup`,
  `doctor`, completions).
* Cryptography and the operating system: tokens and credentials are model
  values, peer checks and file permissions are taken to work.
* What the plan below still lists, and the release tools,
  the site and the plugins, which are not part of the running system.

## Plan

1. Approvals in `Adapters` against `SingleUseApproval`: the promise of the store as
   its callers see it, across owners that change, by a refinement.
2. What `SessionOwner` and `Adapters` let a service answer, against what
   `RemoteExecution` derives (`Outcomes`), as lemmas about `OperationClasses`.
3. The theorems about overlap and about a single browser per profile, put together:
   the profiles of successive owners, from `DaemonLifecycle` and `SessionOwner`.
4. The part of the updates that the exception `overlap` hides: what still holds of
   the executable when two installations do overlap.

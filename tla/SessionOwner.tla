---------------------------- MODULE SessionOwner ----------------------------
(***************************************************************************)
(* The session owner: the one process that holds the browsers, the         *)
(* approvals and the audit file.  cmd/owa/session_backend.go composed with *)
(* the guard and the services of internal/application and with the         *)
(* approval store.                                                         *)
(*                                                                         *)
(* Every call of an adapter is a request with a program counter.  A step   *)
(* is what happens under one lock, one write of the audit file or one      *)
(* remote call; between two steps any other request, a terminal login, the *)
(* clock or Close may run.  "holder" is who keeps the backend's mutex      *)
(* while a browser works: accountServices does so as it authenticates, and *)
(* TerminalLogin from its first to its last statement, so every other      *)
(* critical section of the backend waits for them (MuFree).                *)
(*                                                                         *)
(* The remote call is two steps, its start and its return with one of the  *)
(* outcomes that RemoteExecution derives.  Inputs are valid, accounts are  *)
(* configured; what validation refuses changes no state.                   *)
(***************************************************************************)
EXTENDS ApprovalStore, Operations

CONSTANTS
  Request,       \* calls of the adapters; Thread of the store is Request
  Account,       \* configured accounts
  AccountOf,     \* [Operation -> Account]
  LoginTimeout   \* lifetime of a terminal login, in clock ticks

Preview == [account: Account, expiresAt: Nat]

\* A call of TerminalLogin that has the mutex: it launches its browser, works
\* on the page, or is about to drop its interaction.
TerminalCall == [account: Account, caller: Caller,
                 step: {"launch", "page", "drop"}]

ASSUME OwnerAssumption ==
  /\ Thread = Request
  /\ Kind \in [Operation -> Catalogue]
  /\ AccountOf \in [Operation -> Account]
  /\ LoginTimeout \in Nat
  /\ None \notin Grant \cup Preview \cup TerminalCall
  /\ Request \cap TerminalCall = {}
  /\ None \notin Operation \cup Catalogue \cup Token \cup Account \cup Request
  /\ None \notin {"preview", "success", "error"}

VARIABLES
  pc,        \* [Request -> step of its handler]
  request,   \* [Request -> the handler's parameters and locals]
  active,    \* requests counted by the WaitGroup
  accounts,  \* accounts with a logged-in browser session
  launcher,  \* [Account -> request whose context its browser lives on, or
             \*   None: the owner's own context, or no browser]
  holder,    \* who holds the mutex for more than a step: a request that
             \*   authenticates, a terminal login that waits for its browser,
             \*   or None
  terminal,  \* [Account -> pending terminal login or None]
  previews,  \* [Token -> [account, expiresAt] or None]
  trail,     \* audit file: durable events
  sent,      \* history: requests that reached the remote service
  expired,   \* history: accounts whose session the service rejected
  closing    \* "open", "draining" or "closed"

ownerVars == <<pc, request, active, accounts, launcher, holder, terminal, previews,
               trail, sent, expired, closing>>
vars == <<storeVars, ownerVars>>

Idle == [op |-> None, caller |-> None, tool |-> None, token |-> None,
         expiresAt |-> 0, session |-> None, grant |-> None, answer |-> None]

Steps == {"idle", "session", "launch", "login", "prepare", "draw", "issue", "remember",
          "lookup", "consume", "committed", "execute", "remote", "forget",
          "done"}

Local == [op: Operation \cup {None}, caller: Caller \cup {None},
          tool: Catalogue \cup {None}, token: Token \cup {None},
          expiresAt: Nat, session: Account \cup {None},
          grant: Grant \cup {None},
          answer: {None, "preview", "success", "error"}]

Terminal == [caller: Caller, deadline: Nat]
Event == [request: Request, phase: {"prepared", "committed", "executed"},
          outcome: {"allow", "preview", "deny", "success", "failure",
                    "unknown"},
          op: Operation, caller: Caller]

MuFree == holder = None

OwnerInit ==
  /\ StoreInit
  /\ pc = [r \in Request |-> "idle"]
  /\ request = [r \in Request |-> Idle]
  /\ active = {}
  /\ accounts = {}
  /\ launcher = [a \in Account |-> None]
  /\ holder = None
  /\ terminal = [a \in Account |-> None]
  /\ previews = [t \in Token |-> None]
  /\ trail = {}
  /\ sent = {}
  /\ expired = {}
  /\ closing = "open"

----------------------------------------------------------------------------
(* Steps of a handler.                                                     *)

At(r, step) == pc[r] = step

\* The handler goes on with the locals "now".
Go(r, step, now) ==
  /\ pc' = [pc EXCEPT ![r] = step]
  /\ request' = [request EXCEPT ![r] = now]
  /\ UNCHANGED active

\* Mutant of Return: the deferred active.Done() is forgotten.
ReturnCounted(r, answer) ==
  /\ pc' = [pc EXCEPT ![r] = "done"]
  /\ request' = [request EXCEPT ![r].answer = answer]
  /\ active' = active

\* The handler returns and its deferred active.Done() runs.
Return(r, answer) ==
  /\ pc' = [pc EXCEPT ![r] = "done"]
  /\ request' = [request EXCEPT ![r].answer = answer]
  /\ active' = active \ {r}

\* The handler returns an error before it has sent anything.
Fail(r) ==
  /\ pc' = [pc EXCEPT ![r] = "done"]
  /\ request' = [request EXCEPT ![r] = [Idle EXCEPT !.answer = "error"]]
  /\ active' = active \ {r}

\* Mutant of Record: a failed write or Sync is not reported.
RecordLossy(r, phase, outcome, ok) ==
  trail' = trail

\* FileRecorder.Record: the event is written and synced; or it was written
\* and Sync failed; or nothing was written (context cancelled, write error,
\* file closed).  "ok" is what the caller sees.
Record(r, phase, outcome, ok) ==
  LET event == [request |-> r, phase |-> phase, outcome |-> outcome,
                op |-> request[r].op, caller |-> request[r].caller]
  IN \/ /\ closing # "closed"
        /\ trail' = trail \cup {event}
     \/ /\ ~ok
        /\ trail' = trail

\* The first critical section of every method: refuse when closed, or count
\* the request in the WaitGroup.
EnterRefused(r) ==
  /\ At(r, "idle") /\ MuFree
  /\ closing # "open"
  /\ Fail(r)
  /\ UNCHANGED <<storeVars, accounts, launcher, holder, terminal, previews,
                 trail, sent, expired, closing>>

\* Mutant of Enter: active.Add(1) is missing.
EnterUncounted(r, step, locals) ==
  /\ At(r, "idle") /\ MuFree
  /\ closing = "open"
  /\ pc' = [pc EXCEPT ![r] = step]
  /\ request' = [request EXCEPT ![r] = locals]
  /\ UNCHANGED active
  /\ UNCHANGED <<storeVars, accounts, launcher, holder, terminal, previews,
                 trail, sent, expired, closing>>

Enter(r, step, locals) ==
  /\ At(r, "idle") /\ MuFree
  /\ closing = "open"
  /\ pc' = [pc EXCEPT ![r] = step]
  /\ request' = [request EXCEPT ![r] = locals]
  /\ active' = active \cup {r}
  /\ UNCHANGED <<storeVars, accounts, launcher, holder, terminal, previews,
                 trail, sent, expired, closing>>

\* Login, the reads and the writes start with accountServices; Login has no
\* operation and ignores its caller.
EnterLogin(r, a) ==
  Enter(r, "session", [Idle EXCEPT !.session = a])

EnterOperation(r, op, c) ==
  Enter(r, "session",
        [Idle EXCEPT !.op = op, !.caller = c, !.session = AccountOf[op]])

\* The Commit methods start with accountForPreview.
EnterCommit(r, tool, t, c) ==
  Enter(r, "lookup", [Idle EXCEPT !.caller = c, !.tool = tool, !.token = t])

\* What follows accountServices.
WithSession(r) ==
  IF request[r].op = None THEN Return(r, "success")
  ELSE Go(r, "prepare", request[r])

\* accountServices, under the mutex: the session exists; or a terminal login
\* of the account is in progress; or the browser is started, with the mutex
\* held until authenticate returns.
SessionFound(r) ==
  /\ At(r, "session") /\ MuFree
  /\ request[r].session \in accounts
  /\ WithSession(r)
  /\ UNCHANGED <<storeVars, accounts, launcher, holder, terminal, previews,
                 trail, sent, expired, closing>>

SessionBusy(r) ==
  /\ At(r, "session") /\ MuFree
  /\ request[r].session \notin accounts
  /\ terminal[request[r].session] # None
  /\ Fail(r)
  /\ UNCHANGED <<storeVars, accounts, launcher, holder, terminal, previews,
                 trail, sent, expired, closing>>

\* Mutant of LoginStart: terminalAccounts is not consulted.
LoginStartUnchecked(r) ==
  /\ At(r, "session") /\ MuFree
  /\ request[r].session \notin accounts
  /\ holder' = r
  /\ Go(r, "launch", request[r])
  /\ UNCHANGED <<storeVars, accounts, launcher, terminal, previews, trail,
                 sent, expired, closing>>

LoginStart(r) ==
  /\ At(r, "session") /\ MuFree
  /\ request[r].session \notin accounts
  /\ terminal[request[r].session] = None
  /\ holder' = r
  /\ Go(r, "launch", request[r])
  /\ UNCHANGED <<storeVars, accounts, launcher, terminal, previews, trail,
                 sent, expired, closing>>

\* authenticate has launched the browser and navigated, for which it sets no
\* deadline; WaitForSession has LoginTimeout.
LoginLaunched(r) ==
  /\ At(r, "launch")
  /\ Go(r, "login", request[r])
  /\ UNCHANGED <<storeVars, accounts, launcher, holder, terminal, previews,
                 trail, sent, expired, closing>>

\* authenticate passes the context of the call to the browser it launches.
LoginDone(r) ==
  /\ At(r, "login")
  /\ holder' = None
  /\ accounts' = accounts \cup {request[r].session}
  /\ launcher' = [launcher EXCEPT ![request[r].session] = r]
  /\ WithSession(r)
  /\ UNCHANGED <<storeVars, terminal, previews, trail, sent, expired, closing>>

\* Mutant of LoginFailed: the mutex is not released on the error path.
LoginFailedLocked(r) ==
  /\ pc[r] \in {"launch", "login"}
  /\ Fail(r)
  /\ UNCHANGED <<storeVars, accounts, launcher, holder, terminal, previews,
                 trail, sent, expired, closing>>

\* The launch, the navigation or the sign-in failed, or was cancelled by the
\* caller.
LoginFailed(r) ==
  /\ pc[r] \in {"launch", "login"}
  /\ holder' = None
  /\ Fail(r)
  /\ UNCHANGED <<storeVars, accounts, launcher, terminal, previews, trail,
                 sent, expired, closing>>

----------------------------------------------------------------------------
(* Guard.Prepare and what the service does with its verdict.               *)

Verdict(r) == Evaluate(Kind[request[r].op].effect)

Decide(r) ==
  /\ At(r, "prepare")
  /\ \E ok \in BOOLEAN :
       /\ Record(r, "prepared", Verdict(r), ok)
       /\ IF ~ok THEN Fail(r)
          ELSE IF RunsOn(Kind[request[r].op], Verdict(r))
          THEN Go(r, "execute", request[r])
          ELSE IF Verdict(r) = "preview" THEN Go(r, "draw", request[r])
          ELSE Fail(r)
       /\ UNCHANGED <<storeVars, accounts, launcher, holder, terminal, previews,
                      sent, expired, closing>>

\* The 32 random bytes of a token do not repeat: what a collision does is
\* ApprovalStore's subject.
FreshToken(t) ==
  serial[t] = 0 /\ \A th \in Thread : drawn[th] # None => drawn[th].token # t

DrawToken(r) ==
  /\ At(r, "draw")
  /\ \E t \in Token :
       FreshToken(t) /\ Draw(r, t, request[r].op, request[r].caller)
  /\ Go(r, "issue", request[r])
  /\ UNCHANGED <<accounts, launcher, holder, terminal, previews, trail, sent,
                 expired, closing>>

\* The random source fails: Issue returns before it takes the mutex.
DrawFails(r) ==
  /\ At(r, "draw")
  /\ Fail(r)
  /\ UNCHANGED <<storeVars, accounts, launcher, holder, terminal, previews,
                 trail, sent, expired, closing>>

IssuePreview(r) ==
  /\ At(r, "issue")
  /\ Issue(r)
  /\ IF Offers(Kind[request[r].op])
     THEN Go(r, "remember",
             [request[r] EXCEPT !.token = drawn[r].token,
                                !.expiresAt = drawn[r].now + TTL])
     ELSE Fail(r)
  /\ UNCHANGED <<accounts, launcher, holder, terminal, previews, trail, sent,
                 expired, closing>>

IssueFails(r) ==
  /\ At(r, "issue")
  /\ IssueRefused(r)
  /\ Fail(r)
  /\ UNCHANGED <<accounts, launcher, holder, terminal, previews, trail, sent,
                 expired, closing>>

\* rememberPreview: drop what has expired, remember which session the token
\* belongs to; then the preview is answered.
RememberPreview(r) ==
  LET kept(t) == previews[t] # None /\ clock < previews[t].expiresAt
      entry == [account |-> request[r].session,
                expiresAt |-> request[r].expiresAt]
  IN /\ At(r, "remember") /\ MuFree
     /\ previews' = [t \in Token |-> IF t = request[r].token THEN entry
                                     ELSE IF kept(t) THEN previews[t] ELSE None]
     /\ Return(r, "preview")
     /\ UNCHANGED <<storeVars, accounts, launcher, holder, terminal, trail,
                    sent, expired, closing>>

----------------------------------------------------------------------------
(* The Commit methods.                                                     *)

\* Mutant of PreviewKnown: any logged-in session serves the commit.
PreviewKnownAnySession(r) ==
  \E a \in accounts :
    /\ At(r, "lookup") /\ MuFree
    /\ previews[request[r].token] # None
    /\ clock < previews[request[r].token].expiresAt
    /\ Go(r, "consume", [request[r] EXCEPT !.session = a])
    /\ UNCHANGED <<storeVars, accounts, launcher, holder, terminal, previews,
                   trail, sent, expired, closing>>

\* accountForPreview: the token is known, in time, and its account has a
\* session.
PreviewKnown(r) ==
  LET entry == previews[request[r].token]
  IN /\ At(r, "lookup") /\ MuFree
     /\ entry # None
     /\ clock < entry.expiresAt
     /\ entry.account \in accounts
     /\ Go(r, "consume", [request[r] EXCEPT !.session = entry.account])
     /\ UNCHANGED <<storeVars, accounts, launcher, holder, terminal, previews,
                    trail, sent, expired, closing>>

PreviewUnknown(r) ==
  LET t == request[r].token
      late == previews[t] # None /\ ~(clock < previews[t].expiresAt)
  IN /\ At(r, "lookup") /\ MuFree
     /\ \/ previews[t] = None
        \/ late
        \/ previews[t] # None /\ previews[t].account \notin accounts
     /\ previews' = IF late THEN [previews EXCEPT ![t] = None] ELSE previews
     /\ Fail(r)
     /\ UNCHANGED <<storeVars, accounts, launcher, holder, terminal, trail,
                    sent, expired, closing>>

\* Guard.CommitFor, its three ways through Store.ConsumeFor.
Redeem(r) ==
  LET t == request[r].token
  IN /\ At(r, "consume")
     /\ Consume(t, request[r].caller, request[r].tool)
     /\ Go(r, "committed", [request[r] EXCEPT !.op = pending[t].operation,
                                              !.grant = GrantOf(t)])
     /\ UNCHANGED <<accounts, launcher, holder, terminal, previews, trail, sent,
                    expired, closing>>

\* Mutant of RedeemLate: the approval is burned whether it is late or not.
RedeemLateOrNot(r) ==
  /\ At(r, "consume")
  /\ Owns(request[r].token, request[r].caller)
  /\ pending' = [pending EXCEPT ![request[r].token] = None]
  /\ Fail(r)
  /\ UNCHANGED <<clock, drawn, serial, granted, redeemed>>
  /\ UNCHANGED <<accounts, launcher, holder, terminal, previews, trail, sent,
                 expired, closing>>

RedeemLate(r) ==
  /\ At(r, "consume")
  /\ ConsumeExpired(request[r].token, request[r].caller)
  /\ Fail(r)
  /\ UNCHANGED <<accounts, launcher, holder, terminal, previews, trail, sent,
                 expired, closing>>

\* Mutant of RedeemRefused: a failed commit forgets the preview.
RedeemRefusedForgets(r) ==
  LET t == request[r].token
  IN /\ At(r, "consume")
     /\ ~(Owns(t, request[r].caller) /\ Matches(t, request[r].tool))
     /\ previews' = [previews EXCEPT ![t] = None]
     /\ Fail(r)
     /\ UNCHANGED <<storeVars, accounts, launcher, holder, terminal, trail, sent,
                    expired, closing>>

RedeemRefused(r) ==
  LET t == request[r].token
  IN /\ At(r, "consume")
     /\ \/ ~Owns(t, request[r].caller)
        \/ /\ Owns(t, request[r].caller)
           /\ clock < pending[t].expiresAt
           /\ ~Matches(t, request[r].tool)
     /\ Fail(r)
     /\ UNCHANGED <<storeVars, accounts, launcher, holder, terminal, previews,
                    trail, sent, expired, closing>>

\* Mutant of RecordCommit: the error of Record is ignored.
RecordCommitUnchecked(r) ==
  /\ At(r, "committed")
  /\ \E ok \in BOOLEAN : Record(r, "committed", "allow", ok)
  /\ Go(r, "execute", request[r])
  /\ UNCHANGED <<storeVars, accounts, launcher, holder, terminal, previews,
                 sent, expired, closing>>

\* Guard.CommitFor records the commit; without the record nothing runs,
\* although the approval is gone.
RecordCommit(r) ==
  /\ At(r, "committed")
  /\ \E ok \in BOOLEAN :
       /\ Record(r, "committed", "allow", ok)
       /\ IF ok THEN Go(r, "execute", request[r]) ELSE Fail(r)
       /\ UNCHANGED <<storeVars, accounts, launcher, holder, terminal, previews,
                      sent, expired, closing>>

----------------------------------------------------------------------------
(* Execution.                                                              *)

Execute(r) ==
  /\ At(r, "execute")
  /\ sent' = sent \cup {r}
  /\ Go(r, "remote", request[r])
  /\ UNCHANGED <<storeVars, accounts, launcher, holder, terminal, previews,
                 trail, expired, closing>>

\* The remote call returns and the executed event is recorded, with a context
\* that cannot be cancelled.  A commit that succeeded forgets its preview.
\* A rejected session (ErrSessionExpired) is a failure like any other.
Complete(r) ==
  /\ At(r, "remote")
  /\ \E outcome \in Outcomes(Kind[request[r].op]), ok, rejected \in BOOLEAN :
       /\ rejected => outcome = "failure"
       /\ Record(r, "executed", outcome, ok)
       /\ IF outcome # "success" \/ ~ok THEN Return(r, "error")
          ELSE IF request[r].tool = None THEN Return(r, "success")
          ELSE Go(r, "forget", request[r])
       /\ expired' = IF rejected THEN expired \cup {request[r].session}
                     ELSE expired
       /\ UNCHANGED <<storeVars, accounts, launcher, holder, terminal, previews,
                      sent, closing>>

ForgetPreview(r) ==
  /\ At(r, "forget") /\ MuFree
  /\ previews' = [previews EXCEPT ![request[r].token] = None]
  /\ Return(r, "success")
  /\ UNCHANGED <<storeVars, accounts, launcher, holder, terminal, trail, sent,
                 expired, closing>>

----------------------------------------------------------------------------
(* TerminalLogin holds the mutex from its first to its last statement, for *)
(* the time its browser needs: a step that takes the mutex, and one for    *)
(* every wait that ends.  It launches the browser with the owner's context *)
(* (launcher stays None), and waits on the page with no deadline but its   *)
(* caller's context.  The WaitGroup counts the call until it has given the *)
(* mutex back, which Close takes first.  A call for an account that has a  *)
(* session, or by another caller, returns at once.                         *)

Takes(a, c, step) ==
  /\ MuFree
  /\ closing = "open"
  /\ a \notin accounts
  /\ holder' = [account |-> a, caller |-> c, step |-> step]
  /\ UNCHANGED <<accounts, terminal>>

Holds(a, c, step) == holder = [account |-> a, caller |-> c, step |-> step]

TerminalStart(a, c) ==
  /\ terminal[a] = None
  /\ Takes(a, c, "launch")

\* The interaction of this caller goes on, unless its deadline has passed.
TerminalResume(a, c) ==
  /\ terminal[a] # None /\ terminal[a].caller = c
  /\ Takes(a, c, IF clock <= terminal[a].deadline THEN "page" ELSE "drop")

TerminalLaunched(a, c) ==
  /\ Holds(a, c, "launch")
  /\ terminal' = [terminal EXCEPT
       ![a] = [caller |-> c, deadline |-> clock + LoginTimeout]]
  /\ holder' = [holder EXCEPT !.step = "page"]
  /\ UNCHANGED accounts

TerminalLaunchFails(a, c) ==
  /\ Holds(a, c, "launch")
  /\ holder' = None
  /\ UNCHANGED <<accounts, terminal>>

\* The page was read, or the browser refused the action, or the caller is gone:
\* the interaction stays.
TerminalPending(a, c) ==
  /\ Holds(a, c, "page")
  /\ holder' = None
  /\ UNCHANGED <<accounts, terminal>>

\* The browser has a session and becomes that of the account.
TerminalFinished(a, c) ==
  /\ Holds(a, c, "page")
  /\ holder' = None
  /\ terminal' = [terminal EXCEPT ![a] = None]
  /\ accounts' = accounts \cup {a}

\* The deadline passed, the caller cancelled, or no session could be built.
TerminalDropped(a, c) ==
  /\ Holds(a, c, "drop") \/ Holds(a, c, "page")
  /\ holder' = None
  /\ terminal' = [terminal EXCEPT ![a] = None]
  /\ UNCHANGED accounts

TerminalLogin(a, c) ==
  /\ \/ TerminalStart(a, c)    \/ TerminalResume(a, c)
     \/ TerminalLaunched(a, c) \/ TerminalLaunchFails(a, c)
     \/ TerminalPending(a, c)  \/ TerminalFinished(a, c)
     \/ TerminalDropped(a, c)
  /\ UNCHANGED <<storeVars, pc, request, active, launcher, previews, trail,
                 sent, expired, closing>>

----------------------------------------------------------------------------
(* Close.                                                                  *)

\* closed is set under the mutex; from then on no request enters.
CloseBegin ==
  /\ closing = "open" /\ MuFree
  /\ closing' = "draining"
  /\ UNCHANGED <<storeVars, pc, request, active, accounts, launcher, holder,
                 terminal, previews, trail, sent, expired>>

\* active.Wait() has returned: browsers and audit file are closed.
CloseEnd ==
  /\ closing = "draining" /\ MuFree
  /\ active = {}
  /\ closing' = "closed"
  /\ UNCHANGED <<storeVars, pc, request, active, accounts, launcher, holder,
                 terminal, previews, trail, sent, expired>>

OwnerTick == Tick /\ UNCHANGED ownerVars

----------------------------------------------------------------------------

Arrive(r) ==
  \/ EnterRefused(r)
  \/ \E a \in Account : EnterLogin(r, a)
  \/ \E c \in Caller, op \in Operation : EnterOperation(r, op, c)
  \/ \E c \in Caller, t \in Token, tool \in Kinds \cap Committable :
       EnterCommit(r, tool, t, c)

Handle(r) ==
  \/ SessionFound(r)   \/ SessionBusy(r)
  \/ LoginStart(r)     \/ LoginLaunched(r)
  \/ LoginDone(r)      \/ LoginFailed(r)
  \/ Decide(r)         \/ DrawToken(r)      \/ DrawFails(r)
  \/ IssuePreview(r)   \/ IssueFails(r)     \/ RememberPreview(r)
  \/ PreviewKnown(r)   \/ PreviewUnknown(r)
  \/ Redeem(r)         \/ RedeemLate(r)     \/ RedeemRefused(r)
  \/ RecordCommit(r)   \/ Execute(r)        \/ Complete(r)
  \/ ForgetPreview(r)

OwnerNext ==
  \/ \E r \in Request : Arrive(r)
  \/ \E r \in Request : Handle(r)
  \/ \E a \in Account, c \in Caller : TerminalLogin(a, c)
  \/ CloseBegin
  \/ CloseEnd
  \/ OwnerTick

OwnerSpec == OwnerInit /\ [][OwnerNext]_vars

\* A handler that runs goes on: remote calls and WaitForSession have timeouts,
\* and whoever waits for the mutex gets it if it comes free again and again
\* (sync.Mutex hands it over to who waited for a millisecond).  Nothing says
\* that a browser is ever launched or that a page ever answers a terminal
\* login.  Close waits, it does not give up.  Nobody has to call, and the clock
\* may stop.
OwnerFairness ==
  /\ \A r \in Request : SF_vars(~At(r, "launch") /\ Handle(r))
  /\ WF_vars(CloseEnd)

FairOwnerSpec == OwnerSpec /\ OwnerFairness

----------------------------------------------------------------------------

\* The state of the session owner has its type.
OwnerTypeOK ==
  /\ StoreTypeOK
  /\ pc \in [Request -> Steps]
  /\ request \in [Request -> Local]
  /\ active \subseteq Request
  /\ accounts \subseteq Account
  /\ launcher \in [Account -> Request \cup {None}]
  /\ holder \in Request \cup TerminalCall \cup {None}
  /\ terminal \in [Account -> Terminal \cup {None}]
  /\ previews \in [Token -> Preview \cup {None}]
  /\ trail \subseteq Event
  /\ sent \subseteq Request
  /\ expired \subseteq Account
  /\ closing \in {"open", "draining", "closed"}

\* The profile directory of an account is used by one browser: its session's,
\* its terminal login's or the one a login is starting, never two of them
\* (accountServices, TerminalLogin; "A replacement daemon must never overlap
\* ownership of the same protected browser profile", command_daemon.go:106).
OneBrowserPerProfile ==
  /\ \A a \in accounts : terminal[a] = None
  /\ holder \in Request =>
       /\ request[holder].session \notin accounts
       /\ terminal[request[holder].session] = None
  /\ holder \in TerminalCall =>
       /\ holder.account \notin accounts
       /\ holder.step = "launch" => terminal[holder.account] = None

\* Once Close has closed the browsers and the audit file no handler is between
\* its entry and its return: Close waited for all of them and nobody slipped
\* in (session_backend.go, Close and the entry of every method).
QuietAfterClose ==
  closing = "closed" =>
    /\ \A r \in Request : pc[r] \in {"idle", "done"}
    /\ holder = None

\* The request redeemed an approval for exactly what it runs: this operation,
\* granted to this caller, through the tool of this operation class, and in
\* time.
Approved(r) ==
  \E x \in redeemed :
    /\ x.grant = request[r].grant
    /\ x.by = request[r].caller /\ x.grant.caller = request[r].caller
    /\ x.grant.operation = request[r].op
    /\ x.as = request[r].tool /\ request[r].tool = Kind[request[r].op]
    /\ x.at < x.grant.expiresAt

\* Nothing reaches the mailbox service against the policy table
\* (docs/architecture.md:128): external and destructive writes run only with
\* an approval of the exact operation, sensitive reads and reversible writes
\* too when the configuration asks for it, and no write runs in read-only mode.
PolicyEnforced ==
  \A r \in sent :
    LET effect == Kind[request[r].op].effect
    IN /\ Mode = "read_only" => effect \in Reads
       /\ \/ effect \in {"external_write", "destructive_write"}
          \/ effect = "sensitive_read" /\ PreviewSensitiveReads
          \/ effect = "reversible_write" /\ PreviewReversibleWrites
          => Approved(r)

\* One approval, at most one execution, however many commits of its token race
\* with each other (docs/adr/0004-preview-commit.md).
OneExecutionPerApproval ==
  \A r1, r2 \in sent :
    request[r1].grant # None /\ request[r1].grant = request[r2].grant => r1 = r2

\* Nothing is sent that the audit file does not already show as allowed: as
\* prepared when it runs at once, as committed when it was approved
\* (guard.go, Prepare and CommitFor return the error of Record).
AuditedBeforeSent ==
  \A r \in sent :
    \E e \in trail :
      /\ e.request = r /\ e.outcome = "allow"
      /\ e.op = request[r].op /\ e.caller = request[r].caller
      /\ e.phase = IF request[r].grant = None THEN "prepared" ELSE "committed"

\* What runs, runs on the session of the account it was prepared for, although
\* a commit names only a token and the index of previews picks the session.
RightSession ==
  \A r \in sent :
    /\ request[r].session = AccountOf[request[r].op]
    /\ request[r].session \in accounts

\* An approval the store would still redeem can be reached: from the moment the
\* preview was answered until its deadline the index of previews leads to its
\* account, whatever failed commits and other previews do in between.
ApprovalReachable ==
  \A r \in Request :
    LET t == request[r].token
    IN /\ request[r].answer = "preview"
       /\ pending[t] # None
       /\ clock < pending[t].expiresAt
       => previews[t] = [account |-> AccountOf[pending[t].operation],
                         expiresAt |-> pending[t].expiresAt]

\* A caller who is told that an operation succeeded can find its execution in
\* the audit file (the execute methods join the error of Record to the result).
SuccessIsAudited ==
  \A r \in Request :
    request[r].answer = "success" /\ request[r].op # None =>
      /\ r \in sent
      /\ \E e \in trail : /\ e.request = r /\ e.phase = "executed"
                        /\ e.outcome = "success" /\ e.op = request[r].op

\* The owner uses the approval store the way the store expects to be used:
\* every behaviour of the owner is one of the store.
KeepsStoreContract == StoreSpec

\* The mutex is kept by a wait that only a browser, or a caller who gives up,
\* ends: the launch of a login, or any step of a terminal login.
BrowserHasMutex ==
  holder \in TerminalCall \/ \E r \in Request : At(r, "launch")

\* A handler that was let in returns, whatever races with it for the mutex and
\* also while the owner closes - provided that no browser keeps the mutex for
\* good.  (The code gives no more: terminal.go:125 and browser.go:86 wait without
\* a deadline, under session_backend.go:138 and :964.)
EveryRequestAnswered ==
  []<>~BrowserHasMutex =>
    \A r \in Request : r \in active ~> r \notin active

\* Once Close has the mutex no terminal login can keep it waiting: Close
\* terminates, provided that a login under way gets its browser launched or
\* gives up.
CloseCompletes ==
  (\A r \in Request : []<>~At(r, "launch")) =>
    (closing = "draining" ~> closing = "closed")

\* The browser of an account lives on the context it was launched with: that of
\* a call ends when its handler returns (net/http cancels it), the owner's when
\* Close begins.
BrowserRuns(a) ==
  IF launcher[a] = None THEN closing = "open" ELSE pc[launcher[a]] # "done"

\* The owner "lazily opens one dedicated browser per configured account and
\* keeps it for the lifetime of its owning server" (session_backend.go:43): an
\* account with a session has a running browser until Close.
KeepsBrowser ==
  closing = "open" => \A a \in accounts : BrowserRuns(a)

\* "Expiry causes an explicit transition back to `needs_login`"
\* (docs/architecture.md:105): an account whose session the service rejected is
\* no longer one with a session.
ExpiryLeavesReady == accounts \cap expired = {}
=============================================================================

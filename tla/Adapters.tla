------------------------------ MODULE Adapters ------------------------------
(***************************************************************************)
(* Commands and MCP sessions, the daemon client, and the server of the     *)
(* session owners that come and go under them: cmd/owa/command_mail.go,    *)
(* command_calendar.go, command_mcp.go, internal/mcpserver, and            *)
(* internal/daemonapi from the call to the slot it takes.                  *)
(*                                                                         *)
(* Who owns the sessions is SessionOwnership, which DaemonLifecycle        *)
(* implements.  What an owner does with a call is what SessionOwner does   *)
(* in many steps: it runs the operation, previews it, redeems an approval, *)
(* or fails; only what the caller can tell apart is left.                  *)
(*                                                                         *)
(* An adapter is a process: one command, or one MCP server.  A job is one  *)
(* command or one call of a tool; the calls of an MCP server overlap.  A   *)
(* job makes one call, or two after each other, so a call is named by its  *)
(* job.  A call goes on in the owner when its job has given up.            *)
(***************************************************************************)
EXTENDS Surfaces, SessionOwnership, Naturals, Sequences, FiniteSets

CONSTANTS
  Adapter,      \* processes: commands and MCP servers
  Job,          \* commands and calls of tools
  AdapterOf,    \* [Job -> Adapter]
  Surface,      \* [Adapter -> {"cli", "mcp"}], domain.Caller
  Rules,        \* configurations: [mode, sensitive, reversible]
  Setups,       \* who may have been started with what
  Used,         \* [Job -> operation classes it may be about]
  Slots,        \* maxConcurrentCalls of a server
  Connections,  \* MaxConnsPerHost of a client
  JobBound      \* bound: how many jobs may begin

\* An approval is known by who asked for it and where it is held; its token is
\* as good as its name.
Approval == [by: Job, owner: Process]

\* What a job tells its user, and what a call answers it.
Results == {"success", "failed", "preview", "refused", "lost"}
Answers == {"result", "failed", "preview", "refused"}

ASSUME AdapterAssumption ==
  /\ AdapterOf \in [Job -> Adapter]
  /\ Surface \in [Adapter -> {"cli", "mcp"}]
  /\ Rules \subseteq [mode : {"read_only", "guarded"},
                     sensitive : BOOLEAN, reversible : BOOLEAN]
  /\ Setups \subseteq
       [Process \cup Adapter -> [protocol : Nat, digest : Rules, rules : Rules]]
  /\ Used \in [Job -> SUBSET Catalogue]
  /\ Slots \in Nat \ {0} /\ Connections \in Nat \ {0}
  /\ JobBound \in Nat
  /\ None \notin Process \cup Adapter \cup Job \cup Approval \cup Results

VARIABLES
  setup,      \* [Process \cup Adapter -> what it was started with: the protocol
              \*  of its build, the configuration it took the digest of, and the
              \*  one it works by, which it reads in a second look at the file]
  opened,     \* [Adapter -> the owner its openDaemon validated, or None]
  job,        \* [Job -> its locals]
  call,       \* [Job -> its call, as the server sees it]
  slots,      \* [Process -> slots its server has given away]
  approvals,  \* approvals in the memory of owners
  shown,      \* approvals whose review a person or a host has been given
  runs        \* history: [Job -> executions of its operation, in order]

vars == <<ownershipVars, setup, opened, job, call, slots, approvals, shown, runs>>

IdleJob == [at |-> "idle", class |-> None, accepts |-> None, approve |-> FALSE,
            method |-> None, token |-> None, cred |-> None, answer |-> None,
            result |-> None]
NoCall == [stage |-> "none", to |-> None, authorized |-> FALSE, method |-> None,
           token |-> None, answer |-> None]

Init ==
  /\ OwnershipInit
  /\ setup \in Setups
  /\ opened = [a \in Adapter |-> None]
  /\ job = [j \in Job |-> IdleJob]
  /\ call = [j \in Job |-> NoCall]
  /\ slots = [p \in Process |-> 0]
  /\ approvals = {} /\ shown = {}
  /\ runs = [j \in Job |-> <<>>]

----------------------------------------------------------------------------
(* The adapters.                                                           *)

At(j, at) == job[j].at = at
Caller(j) == AdapterOf[j]
IsCommand(j) == Surface[Caller(j)] = "cli"

\* A job that has ended keeps what it was about, and forgets its locals.
End(j, result) ==
  job' = [job EXCEPT ![j] =
    [IdleJob EXCEPT !.at = "done", !.class = job[j].class,
                    !.approve = job[j].approve, !.result = result]]

\* openDaemon, to whose guarantee DaemonLifecycle is devoted: the owner has the
\* build and the digest of the adapter, and had a slot for the question.
OpenDaemon(a) ==
  /\ opened[a] = None
  /\ owner # None /\ credential = owner
  /\ setup[owner].protocol = setup[a].protocol
  /\ setup[owner].digest = setup[a].digest
  /\ slots[owner] < Slots
  /\ opened' = [opened EXCEPT ![a] = owner]
  /\ UNCHANGED <<ownershipVars, setup, job, call, slots, approvals, shown, runs>>

\* Client.call: the credential is read anew for every call.
LoadCredential(j, locals) ==
  IF credential = None
  THEN End(j, "refused")
  ELSE job' = [job EXCEPT ![j] = [locals EXCEPT !.at = "dial", !.cred = credential]]

Begin(j, locals) ==
  /\ At(j, "idle") /\ Cardinality({i \in Job : ~At(i, "idle")}) < JobBound
  /\ opened[Caller(j)] # None
  /\ LoadCredential(j, locals)
  /\ UNCHANGED <<ownershipVars, setup, opened, call, slots, approvals, shown, runs>>

RunCommand(j) ==
  /\ IsCommand(j)
  /\ \E command \in Commands, approve \in BOOLEAN :
       /\ command.class \in Used[j]
       /\ approve => command.accepts # "result"
       /\ Begin(j, [IdleJob EXCEPT !.class = command.class, !.approve = approve,
                      !.accepts = command.accepts, !.method = "prepare"])

\* The tokens an agent may have: what a tool answered or a command printed.
Disclosed == {t \in shown : ~job[t.by].approve}

CallTool(j) ==
  /\ ~IsCommand(j)
  /\ \E tool \in Tools :
       /\ tool.class \in Used[j]
       /\ \E token \in IF tool.call = "commit" THEN Disclosed ELSE {None} :
            Begin(j, [IdleJob EXCEPT !.class = tool.class, !.accepts = "any",
                        !.method = tool.call, !.token = token])

\* Mutant of Connected: the body of an answer is never closed.
ConnectedForever(a) == {j \in Job : Caller(j) = a /\ job[j].at \notin {"idle", "dial"}}

Connected(a) == {j \in Job : Caller(j) = a /\ At(j, "waiting")}

\* http.Client.Do up to the request on its connection.
Dial(j) ==
  /\ At(j, "dial")
  /\ Cardinality(Connected(Caller(j))) < Connections
  /\ IF owner = None THEN End(j, "refused") /\ UNCHANGED call
     ELSE /\ call' = [call EXCEPT ![j] =
               [NoCall EXCEPT !.stage = "arriving", !.to = owner,
                              !.authorized = (job[j].cred = owner),
                              !.method = job[j].method, !.token = job[j].token]]
          /\ job' = [job EXCEPT ![j].at = "waiting", ![j].cred = None]
  /\ UNCHANGED <<ownershipVars, setup, opened, slots, approvals, shown, runs>>

\* Mutant of GiveUp: a call that was lost is made again.
GiveUpAndRetry(j) ==
  /\ job[j].at \in {"dial", "waiting", "answered"}
  /\ call[j].stage = "none"
  /\ LoadCredential(j, job[j])
  /\ UNCHANGED <<ownershipVars, setup, opened, call, slots, approvals, shown, runs>>

\* Mutant of GiveUp: the server gives the slot back when its caller goes away.
GiveUpWithSlot(j) ==
  /\ job[j].at \in {"dial", "waiting", "answered"}
  /\ End(j, "lost")
  /\ slots' = IF call[j].stage \in {"running", "returning"}
              THEN [slots EXCEPT ![call[j].to] = @ - 1] ELSE slots
  /\ UNCHANGED <<ownershipVars, setup, opened, call, approvals, shown, runs>>

\* A signal, a host that cancels, a broken connection, output that cannot be
\* written: the job ends with an error, and what it asked for goes on.
GiveUp(j) ==
  /\ job[j].at \in {"dial", "waiting", "answered"}
  /\ End(j, "lost")
  /\ UNCHANGED <<ownershipVars, setup, opened, call, slots, approvals, shown, runs>>

\* The command stops for a review.
Reviews(j) == /\ IsCommand(j) /\ job[j].approve
              /\ job[j].answer = "preview" /\ job[j].method = "prepare"

Commit(j) == LoadCredential(j, [job[j] EXCEPT !.method = "commit", !.answer = None])

\* Mutant of ShowReview: the review is not written before the commit.
ShowReviewLater(j) ==
  /\ At(j, "answered") /\ Reviews(j)
  /\ Commit(j)
  /\ UNCHANGED <<ownershipVars, setup, opened, call, slots, approvals, shown, runs>>

\* With --approve: the review is written, then its token is committed.
ShowReview(j) ==
  /\ At(j, "answered") /\ Reviews(j)
  /\ shown' = shown \cup {job[j].token}
  /\ Commit(j)
  /\ UNCHANGED <<ownershipVars, setup, opened, call, slots, approvals, runs>>

Reported(j) ==
  LET answer == job[j].answer
  IN CASE answer \in {"failed", "refused"} -> answer
       [] answer = "preview" ->
            IF job[j].accepts = "result" THEN "failed" ELSE "preview"
       [] answer = "result" ->
            IF job[j].method = "prepare" /\ job[j].accepts = "preview"
            THEN "failed" ELSE "success"

\* The command prints and ends, the tool returns.
Report(j) ==
  /\ At(j, "answered") /\ ~Reviews(j)
  /\ shown' = shown \cup (IF job[j].answer = "preview" THEN {job[j].token} ELSE {})
  /\ End(j, Reported(j))
  /\ UNCHANGED <<ownershipVars, setup, opened, call, slots, approvals, runs>>

----------------------------------------------------------------------------
(* The server of an owner.                                                 *)

Stage(j, stage) == call[j].stage = stage
Running(p) == {j \in Job : call[j].to = p /\ call[j].stage \in {"running", "returning"}}

\* The answer reaches a job that still waits.
Answered(j, answer, token) ==
  job' = IF At(j, "waiting")
         THEN [job EXCEPT ![j].at = "answered", ![j].answer = answer,
                          ![j].token = IF answer = "preview" THEN token ELSE @]
         ELSE job

\* authorized and a free slot: what a call must pass before it is read.
Welcome(j) == call[j].authorized /\ slots[call[j].to] < Slots

TurnAway(j) ==
  /\ Stage(j, "arriving")
  /\ ~Welcome(j)
  /\ Answered(j, "refused", None)
  /\ call' = [call EXCEPT ![j] = NoCall]
  /\ UNCHANGED <<ownershipVars, setup, opened, slots, approvals, shown, runs>>

Admit(j) ==
  /\ Stage(j, "arriving")
  /\ Welcome(j)
  /\ call' = [call EXCEPT ![j].stage = "running"]
  /\ slots' = [slots EXCEPT ![call[j].to] = @ + 1]
  /\ UNCHANGED <<ownershipVars, setup, opened, job, approvals, shown, runs>>

\* The owner has an answer for the call.
Dispatched(j, answer, token) ==
  call' = [call EXCEPT ![j].stage = "returning", ![j].answer = answer,
                       ![j].token = token]

SameProtocol(j) == setup[call[j].to].protocol = setup[Caller(j)].protocol

\* envelope.validate: the call is of another protocol and not dispatched.
Reject(j) ==
  /\ Stage(j, "running") /\ ~SameProtocol(j)
  /\ Dispatched(j, "refused", None)
  /\ UNCHANGED <<ownershipVars, setup, opened, job, slots, approvals, shown, runs>>

\* dispatch, for one method.
Handling(j, method) ==
  Stage(j, "running") /\ SameProtocol(j) /\ call[j].method = method

\* The operation runs: the mailbox service is asked for it.  The answer is an
\* error when the service fails, when it leaves the outcome open, and when the
\* result is larger than a response may be.
Perform(j, token) ==
  /\ \E answer \in {"result", "failed"} : Dispatched(j, answer, None)
  /\ runs' = [runs EXCEPT ![j] = Append(@, [at |-> call[j].to, token |-> token])]

Policy(s) == INSTANCE Operations WITH
  Mode <- s.mode, PreviewSensitiveReads <- s.sensitive,
  PreviewReversibleWrites <- s.reversible

Verdict(j) == Policy(setup[call[j].to].rules)!Evaluate(job[j].class.effect)

RunAtOnce(j) ==
  /\ Handling(j, "prepare")
  /\ RunsOn(job[j].class, Verdict(j))
  /\ Perform(j, None)
  /\ UNCHANGED <<ownershipVars, setup, opened, job, slots, approvals, shown>>

HandOutPreview(j) ==
  /\ Handling(j, "prepare")
  /\ Verdict(j) = "preview" /\ Offers(job[j].class)
  /\ LET token == [by |-> j, owner |-> call[j].to]
     IN /\ Dispatched(j, "preview", token)
        /\ approvals' = approvals \cup {token}
  /\ UNCHANGED <<ownershipVars, setup, opened, job, slots, shown, runs>>

\* Mutant of Redeemable: the preview of another caller may be committed.
RedeemableByAnybody(j) ==
  LET token == call[j].token
  IN /\ token \in approvals /\ token.owner = call[j].to
     /\ job[token.by].class = job[j].class

\* The approval is in the memory of this owner, for this caller and this tool.
Redeemable(j) ==
  LET token == call[j].token
  IN /\ token \in approvals /\ token.owner = call[j].to
     /\ Caller(token.by) = Caller(j)
     /\ job[token.by].class = job[j].class

RunApproved(j) ==
  /\ Handling(j, "commit") /\ Redeemable(j)
  /\ Perform(j, call[j].token)
  /\ approvals' = approvals \ {call[j].token}
  /\ UNCHANGED <<ownershipVars, setup, opened, job, slots, shown>>

\* An error before anything ran: denied, no session, owner closing, audit file,
\* store full, or a token that redeems nothing.
Fail(j) ==
  /\ Stage(j, "running") /\ SameProtocol(j)
  /\ Dispatched(j, "failed", None)
  /\ UNCHANGED <<ownershipVars, setup, opened, job, slots, approvals, shown, runs>>

\* Mutant of Return: nobody waits for the answer, and the slot is forgotten.
ReturnToWaiting(j) ==
  /\ Stage(j, "returning")
  /\ Answered(j, call[j].answer, call[j].token)
  /\ call' = [call EXCEPT ![j] = NoCall]
  /\ slots' = IF At(j, "waiting") THEN [slots EXCEPT ![call[j].to] = @ - 1] ELSE slots
  /\ UNCHANGED <<ownershipVars, setup, opened, approvals, shown, runs>>

\* The answer is written and the slot is given back.
Return(j) ==
  /\ Stage(j, "returning")
  /\ Answered(j, call[j].answer, call[j].token)
  /\ call' = [call EXCEPT ![j] = NoCall]
  /\ slots' = [slots EXCEPT ![call[j].to] = @ - 1]
  /\ UNCHANGED <<ownershipVars, setup, opened, approvals, shown, runs>>

Handle(j) ==
  \/ Reject(j) \/ RunAtOnce(j) \/ HandOutPreview(j) \/ RunApproved(j) \/ Fail(j)
  \/ Return(j)

\* An approval times out.
Lapse ==
  /\ \E token \in approvals : approvals' = approvals \ {token}
  /\ UNCHANGED <<ownershipVars, setup, opened, job, call, slots, shown, runs>>

\* A process that no longer owns the sessions ends, and with it its calls, its
\* slots and its approvals.
Exit(p) ==
  /\ p \notin fresh /\ p # owner
  /\ call' = [j \in Job |-> IF call[j].to = p THEN NoCall ELSE call[j]]
  /\ slots' = [slots EXCEPT ![p] = 0]
  /\ approvals' = {token \in approvals : token.owner # p}
  /\ UNCHANGED <<ownershipVars, setup, opened, job, shown, runs>>

----------------------------------------------------------------------------

Ownership ==
  /\ OwnershipNext
  /\ UNCHANGED <<setup, opened, job, call, slots, approvals, shown, runs>>

\* The connection of a call broke: the job that waits for its answer ends.
Broken(j) == At(j, "waiting") /\ Stage(j, "none") /\ GiveUp(j)

JobStep(j) == Dial(j) \/ ShowReview(j) \/ Report(j) \/ Broken(j)
ServerStep(j) == TurnAway(j) \/ Admit(j) \/ Handle(j)

Next ==
  \/ \E j \in Job :
       RunCommand(j) \/ CallTool(j) \/ JobStep(j) \/ GiveUp(j) \/ ServerStep(j)
  \/ \E a \in Adapter : OpenDaemon(a)
  \/ \E p \in Process : Exit(p)
  \/ Lapse \/ Ownership

Spec == Init /\ [][Next]_vars

\* While a job that was begun, or the server outside a handler, can go on, one of
\* them does, and a client notices that its connection is gone.  No handler has
\* to return: it may wait for a browser that keeps the owner's mutex
\* (SessionOwner's EveryRequestAnswered).  Nobody has to begin or to give up, and
\* no owner to end.
Fairness ==
  WF_vars(\E j \in Job :
            JobStep(j) \/ TurnAway(j) \/ Admit(j) \/ Reject(j) \/ Return(j))

FairSpec == Spec /\ Fairness

----------------------------------------------------------------------------
(* What callers may rely on.                                               *)

AdaptersTypeOK ==
  /\ owner \in Process \cup {None} /\ credential \in Process \cup {None}
  /\ fresh \subseteq Process
  /\ setup \in Setups
  /\ opened \in [Adapter -> Process \cup {None}]
  /\ \A j \in Job :
       /\ job[j].at \in {"idle", "dial", "waiting", "answered", "done"}
       /\ job[j].class \in Used[j] \cup {None}
       /\ job[j].token \in Approval \cup {None}
       /\ job[j].cred \in Process \cup {None}
       /\ job[j].answer \in Answers \cup {None}
       /\ job[j].result \in Results \cup {None}
       /\ call[j].stage \in {"none", "arriving", "running", "returning"}
       /\ call[j].stage # "none" => call[j].to \in Process
       /\ call[j].stage = "returning" => call[j].answer \in Answers
  /\ slots \in [Process -> Nat]
  /\ approvals \subseteq Approval /\ shown \subseteq Approval
  /\ \A j \in Job : runs[j] \in Seq([at : Process, token : Approval \cup {None}])

\* What a command or a tool tells its user is true of the mailbox: success
\* means that the operation ran, a preview ("nothing was sent") and a refusal
\* mean that it did not, and whatever it tells, the operation ran at most once
\* - although calls are lost, owners are replaced while calls are in them, and
\* a call outlives its caller ("the network request was attempted once",
\* command_mail.go:711; "no automatic retry of application methods",
\* docs/architecture.md:67).
ReportIsTrue ==
  \A j \in Job :
    /\ Len(runs[j]) <= 1
    /\ job[j].result = "success" => runs[j] # <<>>
    /\ job[j].result \in {"preview", "refused"} => runs[j] = <<>>

\* The file changed between the two looks.
Torn(who) == setup[who].digest # setup[who].rules

\* An operation that ran from an approval was shown to the person or the host
\* of its caller before, was prepared by the same process for the same tool,
\* and ran in the owner that previewed it.  One that ran at once is allowed to
\* by the policy of the owner it ran in - and by the policy its adapter was
\* started with ("clients also reject a stale config digest", architecture.md:68),
\* with two exceptions.  Only openDaemon compares digests, not "every new
\* connection" (docs/configuration.md:70), so a later owner may have other rules,
\* although never another protocol; and a process that was starting while the
\* file was edited may work by other rules than its digest vouches for
\* (command_daemon.go:69 and session_backend.go:69, runtime.go:151 and :158, each
\* read the file).
ReviewedBeforeRun ==
  \A j \in Job : \A i \in 1..Len(runs[j]) :
    LET r == runs[j][i]
        allowedBy(who) ==
          RunsOn(job[j].class, Policy(setup[who].rules)!Evaluate(job[j].class.effect))
    IN /\ setup[r.at].protocol = setup[Caller(j)].protocol
       /\ IF r.token = None
          THEN /\ allowedBy(r.at)
               /\ r.at = opened[Caller(j)] /\ ~Torn(r.at) /\ ~Torn(Caller(j)) =>
                    allowedBy(Caller(j))
          ELSE /\ r.token \in shown
               /\ Caller(r.token.by) = Caller(j)
               /\ job[r.token.by].class = job[j].class
               /\ r.at = r.token.owner

\* A server has given away a slot for every call it works on, those included
\* whose callers have gone, and for no other, and never more than it has
\* (server.go:122).
BoundedConcurrency ==
  \A p \in Process :
    /\ slots[p] = Cardinality(Running(p))
    /\ slots[p] <= Slots

\* Provided that handlers return, every command and every call of a tool ends,
\* whatever becomes of the owner it talks to, and every slot is given back, those
\* of abandoned calls included: the connections that the calls of a process share
\* do not run out, no answer is awaited of an owner that is gone, and a server
\* that turned callers away comes to have free slots.  (As each job begins once,
\* again and again none is under way and no slot is taken.  Behind a handler that
\* waits for a browser for good, session_backend.go:138, calls wait until their
\* callers give up, and keep their slots.)
EveryCommandEnds ==
  (\A j \in Job : []<>~Stage(j, "running")) =>
    /\ []<>(\A j \in Job : At(j, "idle") \/ At(j, "done"))
    /\ []<>(\A p \in Process : slots[p] = 0)
=============================================================================

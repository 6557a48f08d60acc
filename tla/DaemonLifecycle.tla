--------------------------- MODULE DaemonLifecycle ---------------------------
(***************************************************************************)
(* The session owners of one configuration and the clients that find,      *)
(* start, replace and stop them: "owa daemon serve" and "stop"             *)
(* (cmd/owa/command_daemon.go), openDaemon (runtime.go), replaceDaemon     *)
(* (daemon_lifecycle.go), the singleton listener and the credential file   *)
(* (internal/localipc) and the calls about the owner (internal/daemonapi). *)
(*                                                                         *)
(* A process is one "daemon serve".  The kernel's lock and the listening   *)
(* socket come and go together, under the lock; the credential file does   *)
(* not: it is a file that every process may rotate or remove.  A           *)
(* credential is random, so it is named after the process that issued it.  *)
(* A client can be answered "busy", wait too long or lose an answer at any *)
(* time.  The configuration does not change; a protocol mismatch is a      *)
(* version mismatch.                                                       *)
(***************************************************************************)
EXTENDS Naturals, FiniteSets

CONSTANTS
  Process,        \* the processes that may be started
  Client,         \* processes that call openDaemon or stop the owner
  Version,        \* builds
  Confirmations,  \* daemonUnavailableConfirmations
  None

ASSUME LifecycleAssumption ==
  /\ Confirmations \in Nat \ {0}
  /\ None \notin Process \cup Client \cup Version

VARIABLES
  phase,     \* [Process -> where its Run is]
  version,   \* [Process -> its build, None before it is started]
  lock,      \* the process that holds the flock and the socket, or None
  file,      \* whose credential the credential file holds, or None
  browsers,  \* processes with a browser on the profiles
  busy,      \* processes with calls in flight
  held,      \* processes whose backend's mutex one of these calls keeps while
             \*   it waits for a browser
  stopping,  \* processes whose server was asked to shut down
  failed,    \* processes whose Serve has returned an error
  build,     \* [Client -> its build]
  client,    \* [Client -> its locals]
  stops      \* history: shutdown requests that were obeyed

procVars == <<phase, version, lock, file, browsers, busy, held, failed>>
vars == <<procVars, stopping, build, client, stops>>

Phases == {"off", "started", "locked", "rotating", "abandoned", "issued",
           "serving", "closing", "draining", "closed", "check", "remove", "end",
           "exited"}

\* The HTTP server runs: it answers, also while the backend closes.
Answering(p) == phase[p] \in {"serving", "closing", "draining", "closed"}

Idle == [at |-> "idle", mode |-> None, cred |-> None, seen |-> None,
          missing |-> 0, owner |-> None]

Init ==
  /\ lock \in Process \cup {None}
  /\ \E v \in Version :
       version = [p \in Process |-> IF p = lock THEN v ELSE None]
  /\ phase = [p \in Process |-> IF p = lock THEN "serving" ELSE "off"]
  /\ file = lock
  /\ browsers = {} /\ busy = {} /\ held = {}
  /\ stopping = {} /\ failed = {} /\ stops = {}
  /\ build \in [Client -> Version]
  /\ client = [c \in Client |-> Idle]

----------------------------------------------------------------------------
(* daemonServeCommand.Run.                                                 *)

Step(p, from, to) == phase[p] = from /\ phase' = [phase EXCEPT ![p] = to]

\* Mutant of TakeLock: the lock of a running owner does not stop the start.
TakeLockUnchecked(p) ==
  /\ Step(p, "started", "locked")
  /\ lock' = p
  /\ UNCHANGED <<version, file, browsers, busy, held, failed, stopping>>

\* Listen: flock without waiting, the stale socket removed, a new one bound.
TakeLock(p) ==
  /\ Step(p, "started", "locked")
  /\ lock = None
  /\ lock' = p
  /\ UNCHANGED <<version, file, browsers, busy, held, failed, stopping>>

LockTaken(p) ==
  /\ Step(p, "started", "exited")
  /\ lock # None
  /\ UNCHANGED <<version, lock, file, browsers, busy, held, failed, stopping>>

\* IssueCredential: the old file is removed, then the new one is renamed to
\* its path.
RemoveOldCredential(p) ==
  /\ Step(p, "locked", "rotating")
  /\ file' = None
  /\ UNCHANGED <<version, lock, browsers, busy, held, failed, stopping>>

IssueCredential(p) ==
  /\ Step(p, "rotating", "issued")
  /\ file' = p
  /\ UNCHANGED <<version, lock, browsers, busy, held, failed, stopping>>

\* The new credential is in place, but its mode or its access control cannot be
\* set: an error, and the file stays.
IssueAbandoned(p) ==
  /\ Step(p, "rotating", "abandoned")
  /\ file' = p
  /\ UNCHANGED <<version, lock, browsers, busy, held, failed, stopping>>

\* An error before Run has a credential: the defers that are registered close a
\* backend without calls and the listener.
StartFails(p) ==
  /\ phase[p] \in {"locked", "rotating", "abandoned"}
  /\ phase' = [phase EXCEPT ![p] = "exited"]
  /\ lock' = None
  /\ UNCHANGED <<version, file, browsers, busy, held, failed, stopping>>

Serve(p) ==
  /\ Step(p, "issued", "serving")
  /\ UNCHANGED <<version, lock, file, browsers, busy, held, failed, stopping>>

\* NewServer or the first message fails: the defers run under the lock.
ServeRefused(p) ==
  /\ Step(p, "issued", "check")
  /\ UNCHANGED <<version, lock, file, browsers, busy, held, failed, stopping>>

\* Calls of the adapters, let in until Close has the mutex; after a failure of
\* Serve they still come on the connections that are open.
BeginCall(p) ==
  /\ phase[p] \in {"serving", "closing"} \/ p \in failed
  /\ busy' = busy \cup {p}
  /\ UNCHANGED <<phase, version, lock, file, browsers, held, failed, stopping>>

\* accountServices or TerminalLogin keeps the mutex while it launches a browser,
\* or waits for one it has.
OpenBrowser(p) ==
  /\ p \in busy
  /\ browsers' = browsers \cup {p}
  /\ held' = held \cup {p}
  /\ UNCHANGED <<phase, version, lock, file, busy, failed, stopping>>

ReleaseMutex(p) ==
  /\ held' = held \ {p}
  /\ UNCHANGED <<phase, version, lock, file, browsers, busy, failed, stopping>>

\* The calls in flight have returned.
EndCall(p) ==
  /\ p \in busy \ held
  /\ busy' = busy \ {p}
  /\ UNCHANGED <<phase, version, lock, file, browsers, held, failed, stopping>>

\* The signal context or the server's Done: backend.Close is called, which first
\* needs the mutex.
Obey(p) ==
  /\ p \in stopping
  /\ Step(p, "serving", "closing")
  /\ UNCHANGED <<version, lock, file, browsers, busy, held, failed, stopping>>

Interrupt(p) ==
  /\ Step(p, "serving", "closing")
  /\ UNCHANGED <<version, lock, file, browsers, busy, held, failed, stopping>>

\* Close has the mutex: it cancels the owner's context, and no call is let in
\* any more.
CloseBegin(p) ==
  /\ Step(p, "closing", "draining")
  /\ p \notin held
  /\ UNCHANGED <<version, lock, file, browsers, busy, held, failed, stopping>>

\* Mutants of CloseBackend: the browsers are left to the end of the process; the
\* backend waits for its browsers and does not close them.
CloseBackendWithoutBrowsers(p) ==
  /\ Step(p, "draining", "closed")
  /\ p \notin busy
  /\ UNCHANGED <<version, lock, file, browsers, busy, held, failed, stopping>>

CloseBackendUnlessBrowser(p) ==
  /\ Step(p, "draining", "closed")
  /\ p \notin busy /\ p \notin browsers
  /\ UNCHANGED <<version, lock, file, browsers, busy, held, failed, stopping>>

\* backend.Close returns: its calls have ended, its browsers are closed.
CloseBackend(p) ==
  /\ Step(p, "draining", "closed")
  /\ p \notin busy
  /\ browsers' = browsers \ {p}
  /\ UNCHANGED <<version, lock, file, busy, held, failed, stopping>>

\* server.Shutdown closes the listener, which releases socket and lock.
Shutdown(p) ==
  /\ Step(p, "closed", "check")
  /\ lock' = None
  /\ UNCHANGED <<version, file, browsers, busy, held, failed, stopping>>

\* http.Serve returns an error: its own defer has closed the listener before
\* any defer of Run closes the backend.
ServeFails(p) ==
  /\ Step(p, "serving", "check")
  /\ lock' = None
  /\ failed' = failed \cup {p}
  /\ UNCHANGED <<version, file, browsers, busy, held, stopping>>

\* Credential.Close: read and compare, then remove.
CheckCredential(p) ==
  /\ phase[p] = "check"
  /\ phase' = [phase EXCEPT ![p] = IF file = p THEN "remove" ELSE "end"]
  /\ UNCHANGED <<version, lock, file, browsers, busy, held, failed, stopping>>

RemoveCredential(p) ==
  /\ Step(p, "remove", "end")
  /\ file' = None
  /\ UNCHANGED <<version, lock, browsers, busy, held, failed, stopping>>

\* The remaining defers: backend.Close, which waits for the calls, and
\* listener.Close; both do nothing the second time.
End(p) ==
  /\ Step(p, "end", "exited")
  /\ p \notin busy
  /\ browsers' = browsers \ {p}
  /\ lock' = IF lock = p THEN None ELSE lock
  /\ failed' = failed \ {p}
  /\ stopping' = stopping \ {p}
  /\ UNCHANGED <<version, file, busy, held>>

\* The process is killed: the kernel drops its lock, its browsers end with it,
\* the files stay.
Crash(p) ==
  /\ phase[p] \notin {"off", "exited"}
  /\ phase' = [phase EXCEPT ![p] = "exited"]
  /\ lock' = IF lock = p THEN None ELSE lock
  /\ browsers' = browsers \ {p}
  /\ busy' = busy \ {p}
  /\ held' = held \ {p}
  /\ failed' = failed \ {p}
  /\ stopping' = stopping \ {p}
  /\ UNCHANGED <<version, file>>

Run(p) ==
  \/ TakeLock(p)     \/ LockTaken(p)
  \/ RemoveOldCredential(p) \/ IssueCredential(p)
  \/ IssueAbandoned(p) \/ StartFails(p)
  \/ Serve(p)        \/ ServeRefused(p)
  \/ Obey(p)         \/ CloseBegin(p)
  \/ CloseBackend(p) \/ Shutdown(p)
  \/ CheckCredential(p) \/ RemoveCredential(p) \/ End(p)

Calls(p) ==
  BeginCall(p) \/ OpenBrowser(p) \/ ReleaseMutex(p) \/ EndCall(p)
Accident(p) == Interrupt(p) \/ ServeFails(p) \/ Crash(p)

Start(p, v) ==
  /\ Step(p, "off", "started")
  /\ version' = [version EXCEPT ![p] = v]
  /\ UNCHANGED <<lock, file, browsers, busy, held, failed, stopping>>

\* A person runs "owa daemon serve", of any build.
ServeByHand(p) == \E v \in Version : Start(p, v)

----------------------------------------------------------------------------
(* The clients.                                                            *)

At(c, at) == client[c].at = at
Go(c, locals) == client' = [client EXCEPT ![c] = locals]
Mode(c) == client[c].mode

\* openDaemon, or "owa daemon stop"; each client calls once.
Open(c) ==
  /\ At(c, "idle")
  /\ \E m \in {"probe", "stop"} : Go(c, [Idle EXCEPT !.at = "load", !.mode = m])
  /\ UNCHANGED <<procVars, stopping, build, stops>>

Finish(c, p) == Go(c, [Idle EXCEPT !.at = "done", !.owner = p])

\* InspectOwner: the credential is read first; then the process that listens is
\* asked.
Load(c) ==
  /\ At(c, "load")
  /\ Go(c, [client[c] EXCEPT !.at = "ask", !.cred = file])
  /\ UNCHANGED <<procVars, stopping, build, stops>>

\* Mutant of Authorized: the server compares nothing.
AuthorizedAnybody(c) == lock # None /\ Answering(lock)

\* The request reaches a server that accepts its credential.
Authorized(c) == lock # None /\ Answering(lock) /\ client[c].cred = lock

\* Mutant of Validated: validateDaemonStatus is not called.
ValidatedAlways(c, p) == p

\* validateDaemonStatus: an owner of another build is an error.
Validated(c, p) == IF version[p] = build[c] THEN p ELSE None

OwnerSeen(c) ==
  LET now == client[c]
  IN /\ At(c, "ask")
     /\ Authorized(c)
     /\ CASE Mode(c) = "probe" /\ version[lock] = build[c] -> Finish(c, lock)
          [] \/ Mode(c) = "stop"
             \/ Mode(c) = "probe" /\ version[lock] # build[c] ->
               Go(c, [now EXCEPT !.at = "shutdown", !.seen = lock])
          [] Mode(c) = "exit" /\ lock = now.seen ->
               Go(c, [now EXCEPT !.at = "load", !.cred = None, !.missing = 0])
          [] Mode(c) = "ready" \/ (Mode(c) = "exit" /\ lock # now.seen) ->
               Finish(c, Validated(c, lock))
     /\ UNCHANGED <<procVars, stopping, build, stops>>

\* Mutant of OwnerUnseen: the confirmations are counted and never enough.
OwnerUnseenPatient(c) ==
  LET now == client[c]
  IN /\ At(c, "ask")
     /\ CASE Mode(c) = "stop" -> Finish(c, None)
          [] Mode(c) = "probe" ->
               Go(c, [Idle EXCEPT !.at = "start", !.mode = "ready"])
          [] Mode(c) = "exit" ->
               Go(c, [now EXCEPT !.at = "load", !.cred = None, !.missing = @ + 1])
          [] Mode(c) = "ready" -> Go(c, [now EXCEPT !.at = "load", !.cred = None])
     /\ UNCHANGED <<procVars, stopping, build, stops>>

\* No answer, or none that says who owns: nobody listens, no credential, a
\* foreign one, all slots taken, too late.
OwnerUnseen(c) ==
  LET now == client[c]
      absent == now.missing + 1 >= Confirmations
  IN /\ At(c, "ask")
     /\ CASE Mode(c) = "stop" -> Finish(c, None)
          [] Mode(c) = "probe" \/ (Mode(c) = "exit" /\ absent) ->
               Go(c, [Idle EXCEPT !.at = "start", !.mode = "ready"])
          [] Mode(c) = "exit" /\ ~absent ->
               Go(c, [now EXCEPT !.at = "load", !.cred = None, !.missing = @ + 1])
          [] Mode(c) = "ready" -> Go(c, [now EXCEPT !.at = "load", !.cred = None])
     /\ UNCHANGED <<procVars, stopping, build, stops>>

\* ShutdownOwner with the credential of the owner that was seen.  The answer
\* may be lost; replaceDaemon goes on in any case.
AfterShutdown(c) ==
  IF Mode(c) = "stop" THEN Finish(c, None)
  ELSE Go(c, [client[c] EXCEPT !.at = "load", !.mode = "exit", !.cred = None,
                               !.missing = 0])

ShutdownOwner(c) ==
  /\ At(c, "shutdown")
  /\ Authorized(c)
  /\ stopping' = stopping \cup {lock}
  /\ stops' = stops \cup {[by |-> c, seen |-> client[c].seen, hit |-> lock,
                           why |-> Mode(c)]}
  /\ AfterShutdown(c)
  /\ UNCHANGED <<procVars, build>>

ShutdownLost(c) ==
  /\ At(c, "shutdown")
  /\ AfterShutdown(c)
  /\ UNCHANGED <<procVars, stopping, build, stops>>

\* startDaemon runs the executable at the client's path, which an update may
\* have replaced since the client began; it may fail.
StartDaemon(c) ==
  /\ At(c, "start")
  /\ \E p \in Process, v \in Version : Start(p, v)
  /\ Go(c, [client[c] EXCEPT !.at = "load"])
  /\ UNCHANGED <<build, stops>>

StartDaemonFails(c) ==
  /\ At(c, "start")
  /\ Finish(c, None)
  /\ UNCHANGED <<procVars, stopping, build, stops>>

\* Mutant of WaitTimesOut: waitForDaemonExit waits as long as the old owner
\* answers.
WaitTimesOutIfReady(c) ==
  /\ client[c].at \in {"load", "ask"}
  /\ Mode(c) = "ready"
  /\ Finish(c, None)
  /\ UNCHANGED <<procVars, stopping, build, stops>>

\* The deadline of waitForDaemonExit or of waitForDaemon.
WaitTimesOut(c) ==
  /\ client[c].at \in {"load", "ask"}
  /\ Mode(c) \in {"exit", "ready"}
  /\ Finish(c, None)
  /\ UNCHANGED <<procVars, stopping, build, stops>>

Proceed(c) ==
  \/ Load(c) \/ OwnerSeen(c) \/ OwnerUnseen(c)
  \/ ShutdownOwner(c) \/ ShutdownLost(c)
  \/ StartDaemon(c) \/ StartDaemonFails(c)

----------------------------------------------------------------------------

ProcessStep(p) ==
  /\ Run(p) \/ Calls(p) \/ Accident(p) \/ ServeByHand(p)
  /\ UNCHANGED <<build, client, stops>>

Next ==
  \/ \E p \in Process : ProcessStep(p)
  \/ \E c \in Client : Open(c) \/ Proceed(c) \/ WaitTimesOut(c)

Spec == Init /\ [][Next]_vars

\* A process and a client that can go on do, a Close that waits for the mutex
\* also when it comes free only now and then (sync.Mutex); calls end after Close
\* has begun, unless a browser keeps the mutex (SessionOwner's
\* EveryRequestAnswered), which it may do for good; a wait of a client ends by
\* its deadline.  Nobody has to call, and no accident has to happen.
Fairness ==
  /\ \A p \in Process :
       /\ SF_vars(Run(p) /\ UNCHANGED <<build, client, stops>>)
       /\ SF_vars(EndCall(p) /\ phase[p] = "draining"
                  /\ UNCHANGED <<build, client, stops>>)
  /\ \A c \in Client : WF_vars(Proceed(c)) /\ WF_vars(WaitTimesOut(c))

FairSpec == Spec /\ Fairness

----------------------------------------------------------------------------

Locals == [at: {"idle", "done", "load", "ask", "shutdown", "start"},
           mode: {None, "probe", "stop", "exit", "ready"},
           cred: Process \cup {None}, seen: Process \cup {None},
           missing: 0..Confirmations, owner: Process \cup {None}]

\* The state of the owners and the clients has its type.
LifecycleTypeOK ==
  /\ phase \in [Process -> Phases]
  /\ version \in [Process -> Version \cup {None}]
  /\ lock \in Process \cup {None}
  /\ file \in Process \cup {None}
  /\ browsers \subseteq Process
  /\ busy \subseteq Process
  /\ held \subseteq Process
  /\ stopping \subseteq Process
  /\ failed \subseteq Process
  /\ build \in [Client -> Version]
  /\ client \in [Client -> Locals]
  /\ stops \subseteq [by: Client, seen: Process, hit: Process,
                      why: {"probe", "stop"}]

\* A process that has browsers on the profiles holds the singleton lock, unless
\* its Serve failed: on the way of a signal or a shutdown request the browsers
\* are closed first (command_daemon.go, Run).
BrowsersUnderLock ==
  \A p \in browsers : lock = p \/ p \in failed

\* "A replacement daemon must never overlap ownership of the same protected
\* browser profile" (command_daemon.go:107).
NeverOverlap ==
  \A p, q \in browsers : p = q

\* While an owner answers, the credential file never holds another one's
\* credential: rotation happens under the lock only (credential.go).
NoForeignCredential ==
  \A p \in Process : Answering(p) => file \in {p, None}

\* "so a late shutdown cannot delete a successor daemon's credential"
\* (credential.go:51): an owner that answers can be reached.
OwnerReachable ==
  \A p \in Process : Answering(p) => file = p

\* A shutdown request stops exactly the owner its client has inspected
\* ("Credential rotation prevents a delayed caller from stopping a replacement
\* owner", client_lifecycle.go:116), and a client that replaces stops no owner
\* of its own build.
StopsWhatItSaw ==
  \A s \in stops :
    /\ s.hit = s.seen
    /\ s.why = "probe" => version[s.hit] # build[s.by]

\* openDaemon returns a client only for an owner of its own build, whichever
\* way and against whomever it got there.
OpenedIsCompatible ==
  \A c \in Client :
    client[c].owner # None => version[client[c].owner] = build[c]

\* A process that has not reached Listen, or not yet been started.
Fresh == {p \in Process : phase[p] \in {"off", "started"}}

Promise == INSTANCE SessionOwnership WITH
  owner <- lock, credential <- file, fresh <- Fresh

\* The owners implement SessionOwnership, with the clients that start, replace
\* and stop them, with failures of Serve and crashes: ownership passes only from
\* a process that let go to one that never had it, and nobody but the owner
\* publishes a credential ("rotates the endpoint credential after its listener is
\* held", credential.go:31).
ImplementsOwnership == Promise!OwnershipSpec

\* An owner that obeyed or was interrupted releases the lock for its successor,
\* also with calls in flight - provided that no browser keeps its mutex for
\* good.  (The code gives no more: Close takes the mutex before it cancels
\* anything, session_backend.go:1024.)
ClosingReleases ==
  \A p \in Process :
    []<>(p \notin held) => (phase[p] = "closing" ~> lock # p)

\* openDaemon and stop return, also when the old owner does not stop and the new
\* one does not come up.
EveryOpenReturns ==
  \A c \in Client : At(c, "load") ~> At(c, "done")
=============================================================================

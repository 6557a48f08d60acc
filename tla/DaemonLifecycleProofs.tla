------------------------ MODULE DaemonLifecycleProofs ------------------------
(***************************************************************************)
(* Theorems about DaemonLifecycle, for any processes, clients, builds and  *)
(* number of confirmations.                                                *)
(***************************************************************************)
EXTENDS DaemonLifecycle, TLAPS

\* The phases in which Run holds the listener.
Holding == {"locked", "rotating", "abandoned", "issued", "serving", "closing",
            "draining", "closed"}

\* The phases of Run's last defers.
Leaving == {"check", "remove", "end"}

\* Run's control flow fixes who has the lock, and what a process without it can
\* still have: only one whose Serve failed has calls and browsers left.
LockInv ==
  /\ \A p \in Process : phase[p] \in Holding => lock = p
  /\ \A p \in Process : lock = p => phase[p] \in Holding \cup Leaving
  /\ failed \subseteq {p \in Process : phase[p] \in Leaving}
  /\ \A p \in busy \cup browsers :
       phase[p] \in {"serving", "closing", "draining"} \/ p \in failed

\* What the credential file can hold once the holder of the lock has emptied it.
FileInv ==
  /\ \A p \in Process : phase[p] = "rotating" => file = None
  /\ \A p \in Process :
       phase[p] \in {"issued", "serving", "closing", "draining", "closed"} =>
         file \in {p, None}

Started(p) == p \in Process /\ phase[p] # "off"

\* The functions that ask about the owner.
Modes == {"probe", "stop", "exit", "ready"}

\* A client that has begun and not finished is in one of the four loops.
ModeInv ==
  \A c \in Client :
    ~(At(c, "idle") \/ At(c, "done")) =>
      Mode(c) \in Modes

\* A client about to ask for a shutdown holds the credential of the owner it has
\* seen, and replaces no owner of its own build.
ShutdownInv ==
  \A c \in Client : At(c, "shutdown") =>
    /\ Started(client[c].seen)
    /\ client[c].cred = client[c].seen
    /\ Mode(c) \in {"probe", "stop"}
    /\ Mode(c) = "probe" => version[client[c].seen] # build[c]

\* What was stopped or opened had been started, so that its build is settled.
SettledInv ==
  /\ \A s \in stops : Started(s.hit)
  /\ \A c \in Client : client[c].owner # None => Started(client[c].owner)

ClientInv ==
  ModeInv /\ ShutdownInv /\ SettledInv /\ StopsWhatItSaw /\ OpenedIsCompatible

LifecycleInv == LifecycleTypeOK /\ LockInv /\ FileInv /\ ClientInv

\* Step is an abbreviation of phase[p] = from /\ phase' = ...
USE DEF Step

----------------------------------------------------------------------------

\* A process that runs no owner has no lock, no calls and no browsers.
LEMMA InitInvariant ==
  Init => LifecycleInv
<1> SUFFICES ASSUME Init PROVE LifecycleInv
  OBVIOUS
<1> USE LifecycleAssumption DEF LifecycleAssumption, Init
<1>1. LifecycleTypeOK
  BY DEF LifecycleTypeOK, Phases, Locals, Idle
<1>2. LockInv /\ FileInv
  BY DEF LockInv, FileInv, Holding, Leaving
<1>3. ClientInv
  BY DEF ClientInv, ModeInv, ShutdownInv, SettledInv, StopsWhatItSaw,
         OpenedIsCompatible, Idle, At
<1> QED
  BY <1>1, <1>2, <1>3 DEF LifecycleInv

\* One step of Run, of a call or of an accident, with the locks and the files.
LEMMA ProcessKeepsTypes ==
  ASSUME LifecycleInv, NEW p \in Process, ProcessStep(p)
  PROVE  LifecycleTypeOK'
<1> USE DEF LifecycleInv, LifecycleTypeOK, Phases
<1>1. CASE Run(p)
  BY <1>1 DEF ProcessStep, Run, TakeLock, LockTaken, RemoveOldCredential,
       IssueCredential, IssueAbandoned, StartFails, Serve, ServeRefused, Obey,
       CloseBegin, CloseBackend, Shutdown, CheckCredential, RemoveCredential, End
<1>2. CASE Calls(p)
  BY <1>2 DEF ProcessStep, Calls, BeginCall, OpenBrowser, ReleaseMutex, EndCall
<1>3. CASE Accident(p)
  BY <1>3 DEF ProcessStep, Accident, Interrupt, ServeFails, Crash
<1>4. CASE ServeByHand(p)
  BY <1>4 DEF ProcessStep, ServeByHand, Start
<1> QED
  BY <1>1, <1>2, <1>3, <1>4 DEF ProcessStep

\* The same step keeps the discipline of the lock.
LEMMA ProcessKeepsLock ==
  ASSUME LifecycleInv, NEW p \in Process, ProcessStep(p)
  PROVE  LockInv'
<1> USE LifecycleAssumption
    DEF LifecycleAssumption, LifecycleInv, LifecycleTypeOK, LockInv, Holding,
        Leaving
<1>1. CASE TakeLock(p) \/ LockTaken(p) \/ StartFails(p) \/ ServeRefused(p)
  BY <1>1 DEF TakeLock, LockTaken, StartFails, ServeRefused
<1>2. CASE RemoveOldCredential(p) \/ IssueCredential(p) \/ IssueAbandoned(p)
           \/ Serve(p)
  BY <1>2 DEF RemoveOldCredential, IssueCredential, IssueAbandoned, Serve
<1>3. CASE \/ Obey(p) \/ Interrupt(p) \/ CloseBegin(p) \/ CloseBackend(p)
           \/ Shutdown(p)
  BY <1>3 DEF Obey, Interrupt, CloseBegin, CloseBackend, Shutdown
<1>4. CASE CheckCredential(p) \/ RemoveCredential(p)
  BY <1>4 DEF CheckCredential, RemoveCredential
<1>5. CASE End(p)
  BY <1>5 DEF End
<1>6. CASE Calls(p)
  BY <1>6 DEF Calls, BeginCall, OpenBrowser, ReleaseMutex, EndCall
<1>7. CASE ServeFails(p)
  BY <1>7 DEF ServeFails
<1>8. CASE Crash(p)
  BY <1>8 DEF Crash
<1>9. CASE ServeByHand(p)
  BY <1>9 DEF ServeByHand, Start
<1> QED
  BY <1>1, <1>2, <1>3, <1>4, <1>5, <1>6, <1>7, <1>8, <1>9
     DEF ProcessStep, Run, Accident

\* The same step writes the credential file under the lock, or empties it.
LEMMA ProcessKeepsFile ==
  ASSUME LifecycleInv, NEW p \in Process, ProcessStep(p)
  PROVE  FileInv'
<1> USE LifecycleAssumption
    DEF LifecycleAssumption, LifecycleInv, LifecycleTypeOK, LockInv, FileInv,
        Holding
<1>1. CASE Run(p)
  BY <1>1 DEF Run, TakeLock, LockTaken, RemoveOldCredential,
       IssueCredential, IssueAbandoned, StartFails, Serve, ServeRefused, Obey,
       CloseBegin, CloseBackend, Shutdown, CheckCredential, RemoveCredential, End
<1>2. CASE Calls(p)
  BY <1>2 DEF Calls, BeginCall, OpenBrowser, ReleaseMutex, EndCall
<1>3. CASE Accident(p)
  BY <1>3 DEF Accident, Interrupt, ServeFails, Crash
<1>4. CASE ServeByHand(p)
  BY <1>4 DEF ServeByHand, Start
<1> QED
  BY <1>1, <1>2, <1>3, <1>4 DEF ProcessStep

\* No step of a process takes it back to where it has not been started, and none
\* changes a build.
LEMMA ProcessKeepsClients ==
  ASSUME LifecycleInv, NEW p \in Process, ProcessStep(p)
  PROVE  ClientInv'
<1> USE DEF LifecycleInv, LifecycleTypeOK
<1>1. UNCHANGED <<build, client, stops>>
  BY DEF ProcessStep
<1>2. \A q \in Process : Started(q) => Started(q)' /\ version'[q] = version[q]
  <2> USE DEF Started
  <2>1. CASE Run(p)
    BY <2>1 DEF Run, TakeLock, LockTaken, RemoveOldCredential, IssueCredential,
         IssueAbandoned, StartFails, Serve, ServeRefused, Obey, CloseBegin,
         CloseBackend, Shutdown, CheckCredential, RemoveCredential, End
  <2>2. CASE Calls(p)
    BY <2>2 DEF Calls, BeginCall, OpenBrowser, ReleaseMutex, EndCall
  <2>3. CASE Accident(p)
    BY <2>3 DEF Accident, Interrupt, ServeFails, Crash
  <2>4. CASE ServeByHand(p)
    BY <2>4 DEF ServeByHand, Start
  <2> QED
    BY <2>1, <2>2, <2>3, <2>4 DEF ProcessStep
<1>3. /\ \A s \in stops : Started(s.hit)
      /\ \A c \in Client : client[c].owner # None => Started(client[c].owner)
      /\ \A c \in Client : At(c, "shutdown") => Started(client[c].seen)
  BY DEF ClientInv, SettledInv, ShutdownInv
<1>4. ModeInv' /\ ShutdownInv'
  BY <1>1, <1>2, <1>3 DEF ClientInv, ModeInv, ShutdownInv, At, Mode, Started
<1>5. SettledInv' /\ StopsWhatItSaw' /\ OpenedIsCompatible'
  BY <1>1, <1>2, <1>3
  DEF ClientInv, SettledInv, StopsWhatItSaw, OpenedIsCompatible, Started
<1> QED
  BY <1>4, <1>5 DEF ClientInv

----------------------------------------------------------------------------
\* What a client's new locals have to satisfy.
LocalsOK(c, locals) ==
  /\ locals \in Locals
  /\ locals.owner # None =>
       /\ Started(locals.owner)
       /\ version[locals.owner] = build[c]
  /\ locals.at \notin {"idle", "done"} => locals.mode \in Modes
  /\ locals.at = "shutdown" =>
       /\ Started(locals.seen)
       /\ locals.cred = locals.seen
       /\ locals.mode \in {"probe", "stop"}
       /\ locals.mode = "probe" => version[locals.seen] # build[c]

\* A step of one client that may have stopped an owner it has seen.
LEMMA ClientStops ==
  ASSUME LifecycleInv, NEW c \in Client, NEW locals, LocalsOK(c, locals),
         Go(c, locals), UNCHANGED <<procVars, build>>,
         stopping' \subseteq Process,
         \A s \in stops' : s \in stops \/
           /\ s \in [by: Client, seen: Process, hit: Process,
                     why: {"probe", "stop"}]
           /\ s.hit = s.seen
           /\ s.why = "probe" => version[s.hit] # build[s.by]
           /\ Started(s.hit)
  PROVE  LifecycleInv'
<1> USE DEF LifecycleInv, LifecycleTypeOK, LocalsOK
<1>1. client' = [client EXCEPT ![c] = locals]
  BY DEF Go
<1>2. LifecycleTypeOK'
  BY <1>1 DEF procVars
<1>3. ModeInv' /\ ShutdownInv'
  BY <1>1 DEF ClientInv, ModeInv, ShutdownInv, Started, At, Mode, Modes,
       procVars
<1>4. SettledInv' /\ OpenedIsCompatible'
  BY <1>1 DEF ClientInv, SettledInv, OpenedIsCompatible, Started, procVars
<1>5. StopsWhatItSaw'
  BY DEF ClientInv, StopsWhatItSaw, procVars
<1>6. LockInv' /\ FileInv'
  BY DEF LockInv, FileInv, procVars
<1> QED
  BY <1>2, <1>3, <1>4, <1>5, <1>6 DEF ClientInv

\* A step of one client that changes nothing else.
LEMMA ClientMoves ==
  ASSUME LifecycleInv, NEW c \in Client, NEW locals, LocalsOK(c, locals),
         Go(c, locals), UNCHANGED <<procVars, stopping, build, stops>>
  PROVE  LifecycleInv'
<1>1. stopping' \subseteq Process
  BY DEF LifecycleInv, LifecycleTypeOK
<1> QED
  BY <1>1, ClientStops

\* But for StartDaemon, a client changes no process; it ends with an owner it has
\* validated, or with none.
LEMMA ClientKeepsInvariant ==
  ASSUME LifecycleInv, NEW c \in Client,
         Open(c) \/ Proceed(c) \/ WaitTimesOut(c), ~StartDaemon(c)
  PROVE  LifecycleInv'
<1>0. Confirmations \in Nat /\ 0 \in 0..Confirmations
  BY LifecycleAssumption
<1>1. /\ client[c] \in Locals
      /\ lock \in Process \cup {None} /\ file \in Process \cup {None}
      /\ stopping \subseteq Process
  BY DEF LifecycleInv, LifecycleTypeOK
<1>2. /\ Idle \in Locals
      /\ Idle.owner = None
  BY <1>0 DEF Idle, Locals
<1>3. lock # None => Started(lock)
  BY <1>1 DEF LifecycleInv, LockInv, Holding, Leaving, Started
<1>4. client[c].owner # None =>
        /\ Started(client[c].owner)
        /\ version[client[c].owner] = build[c]
  BY DEF LifecycleInv, ClientInv, SettledInv, OpenedIsCompatible
<1>5. \/ client[c].at \in {"idle", "done"}
       \/ client[c].mode \in Modes
  BY DEF LifecycleInv, ClientInv, ModeInv, At, Mode, Modes
<1>6. ASSUME NEW q \in Process \cup {None}, Finish(c, q),
             UNCHANGED <<procVars, stopping, build, stops>>,
             q # None => Started(q) /\ version[q] = build[c]
      PROVE  LifecycleInv'
  <2> DEFINE locals == [Idle EXCEPT !.at = "done", !.owner = q]
  <2>1. locals \in Locals /\ locals.owner = q /\ locals.at = "done"
    BY <1>2 DEF Locals
  <2>2. Go(c, locals)
    BY <1>6 DEF Finish
  <2> HIDE DEF locals
  <2> QED
    BY <1>1, <1>6, <2>1, <2>2, ClientMoves DEF LocalsOK, Modes
<1>7. CASE Open(c)
  <2>1. PICK m \in {"probe", "stop"} :
               Go(c, [Idle EXCEPT !.at = "load", !.mode = m])
    BY <1>7 DEF Open
  <2> DEFINE locals == [Idle EXCEPT !.at = "load", !.mode = m]
  <2>2. locals \in Locals /\ locals.owner = None /\ locals.at = "load"
        /\ locals.mode = m
    BY <1>2 DEF Locals
  <2>3. UNCHANGED <<procVars, stopping, build, stops>>
    BY <1>7 DEF Open
  <2>4. Go(c, locals)
    BY <2>1
  <2> HIDE DEF locals
  <2> QED
    BY <1>1, <2>2, <2>3, <2>4, ClientMoves DEF LocalsOK, Modes
<1>8. CASE Load(c)
  <2> DEFINE locals == [client[c] EXCEPT !.at = "ask", !.cred = file]
  <2>1. /\ locals \in Locals /\ locals.owner = client[c].owner
        /\ locals.at = "ask" /\ locals.mode = client[c].mode
    BY <1>1 DEF Locals
  <2>2. Go(c, locals) /\ UNCHANGED <<procVars, stopping, build, stops>>
    BY <1>8 DEF Load
  <2> HIDE DEF locals
  <2> QED
    BY <1>1, <1>4, <1>8, <1>5, <2>1, <2>2, ClientMoves DEF LocalsOK, Load, At
<1>9. CASE OwnerSeen(c)
  <2> USE DEF Mode
  <2>1. /\ lock \in Process /\ client[c].cred = lock /\ Started(lock)
        /\ UNCHANGED <<procVars, stopping, build, stops>>
    BY <1>1, <1>3, <1>9 DEF OwnerSeen, Authorized
  <2>2. client[c].mode \in Modes
    BY <1>9, <1>5 DEF OwnerSeen, At
  <2>3. CASE client[c].mode = "probe" /\ version[lock] = build[c]
    <3>1. Finish(c, lock)
      BY <1>9, <2>3 DEF OwnerSeen
    <3> QED
      BY <1>6, <2>1, <2>3, <3>1
  <2>4. CASE \/ client[c].mode = "ready"
             \/ client[c].mode = "exit" /\ lock # client[c].seen
    <3>2. Finish(c, Validated(c, lock))
      BY <1>9, <2>4 DEF OwnerSeen
    <3>1. /\ Validated(c, lock) \in Process \cup {None}
          /\ Validated(c, lock) # None =>
               /\ Validated(c, lock) = lock
               /\ version[lock] = build[c]
      BY <2>1 DEF Validated
    <3> QED
      BY <1>6, <2>1, <3>1, <3>2
  <2>5. CASE \/ client[c].mode = "stop"
             \/ client[c].mode = "probe" /\ version[lock] # build[c]
    <3> DEFINE locals == [client[c] EXCEPT !.at = "shutdown", !.seen = lock]
    <3>1. Go(c, locals)
      BY <1>9, <2>5 DEF OwnerSeen
    <3>2. /\ locals \in Locals /\ locals.owner = client[c].owner
          /\ locals.seen = lock /\ locals.cred = lock
          /\ locals.mode = client[c].mode
      BY <1>1, <2>1 DEF Locals
    <3> HIDE DEF locals
    <3> QED
      BY <1>1, <1>4, <2>1, <2>5, <3>1, <3>2, ClientMoves DEF LocalsOK, Modes
  <2>6. CASE client[c].mode = "exit" /\ lock = client[c].seen
    <3> DEFINE locals == [client[c] EXCEPT !.at = "load", !.cred = None,
                                           !.missing = 0]
    <3>1. Go(c, locals)
      BY <1>9, <2>6 DEF OwnerSeen
    <3>2. /\ locals \in Locals /\ locals.owner = client[c].owner
          /\ locals.at = "load" /\ locals.mode = "exit"
      BY <1>0, <1>1, <2>6 DEF Locals
    <3> HIDE DEF locals
    <3> QED
      BY <1>1, <1>4, <2>1, <3>1, <3>2, ClientMoves DEF LocalsOK, Modes
  <2> QED
    <3>1. CASE client[c].mode = "probe"
      BY <2>3, <2>5, <3>1
    <3>2. CASE client[c].mode = "exit"
      BY <2>4, <2>6, <3>2
    <3>3. CASE client[c].mode = "stop"
      BY <2>5, <3>3
    <3>4. CASE client[c].mode = "ready"
      BY <2>4, <3>4
    <3> QED
      BY <2>2, <3>1, <3>2, <3>3, <3>4 DEF Modes
<1>10. CASE OwnerUnseen(c)
  <2> DEFINE absent == client[c].missing + 1 >= Confirmations
             begin == [Idle EXCEPT !.at = "start", !.mode = "ready"]
             again == [client[c] EXCEPT !.at = "load", !.cred = None,
                                        !.missing = @ + 1]
             poll == [client[c] EXCEPT !.at = "load", !.cred = None]
  <2>1. UNCHANGED <<procVars, stopping, build, stops>>
    BY <1>10 DEF OwnerUnseen
  <2>2. \/ Finish(c, None) \/ Go(c, begin) \/ (Go(c, again) /\ ~absent)
        \/ Go(c, poll)
    <3>1. client[c].mode \in Modes
      BY <1>10, <1>5 DEF OwnerUnseen, At
    <3>2. CASE client[c].mode \in {"probe", "stop", "ready"}
      BY <1>10, <3>2 DEF OwnerUnseen, Mode
    <3>3. CASE client[c].mode = "exit"
      BY <1>10, <3>3 DEF OwnerUnseen, Mode
    <3> QED
      BY <3>1, <3>2, <3>3 DEF Modes
  <2>3. begin \in Locals /\ begin.owner = None /\ begin.at = "start"
        /\ begin.mode = "ready"
    BY <1>2 DEF Locals
  <2>4. ~absent => /\ again \in Locals /\ again.owner = client[c].owner
                   /\ again.at = "load" /\ again.mode = client[c].mode
    <3>1. client[c].missing \in 0..Confirmations
      BY <1>1 DEF Locals
    <3>2. ~absent => client[c].missing + 1 \in 0..Confirmations
      BY <1>0, <3>1
    <3> QED
      BY <1>1, <3>2 DEF Locals
  <2>5. poll \in Locals /\ poll.owner = client[c].owner /\ poll.at = "load"
        /\ poll.mode = client[c].mode
    BY <1>1 DEF Locals
  <2>10. client[c].mode \in Modes
    BY <1>10, <1>5 DEF OwnerUnseen, At
  <2> HIDE DEF absent, begin, again, poll
  <2>6. CASE Finish(c, None)
    BY <1>6, <2>1, <2>6
  <2>7. CASE Go(c, begin)
    BY <1>1, <2>1, <2>3, <2>7, ClientMoves DEF LocalsOK, Modes
  <2>8. CASE Go(c, again) /\ ~absent
    BY <1>1, <1>4, <2>1, <2>4, <2>8, <2>10, ClientMoves DEF LocalsOK, Modes
  <2>9. CASE Go(c, poll)
    BY <1>1, <1>4, <2>1, <2>5, <2>9, <2>10, ClientMoves DEF LocalsOK, Modes
  <2> QED
    BY <2>2, <2>6, <2>7, <2>8, <2>9
<1>11. CASE ShutdownOwner(c) \/ ShutdownLost(c)
  <2> USE DEF Mode
  <2>1. /\ UNCHANGED <<procVars, build>> /\ stopping' \subseteq Process
        /\ AfterShutdown(c)
    BY <1>1, <1>11 DEF ShutdownOwner, ShutdownLost, Authorized
  <2>2. /\ At(c, "shutdown") /\ client[c].at = "shutdown"
        /\ client[c].mode \in {"probe", "stop"}
    BY <1>11 DEF ShutdownOwner, ShutdownLost, LifecycleInv, ClientInv,
         ShutdownInv, At
  <2>3. \A s \in stops' : s \in stops \/
          /\ s \in [by: Client, seen: Process, hit: Process,
                    why: {"probe", "stop"}]
          /\ s.hit = s.seen
          /\ s.why = "probe" => version[s.hit] # build[s.by]
          /\ Started(s.hit)
    <3>1. CASE ShutdownOwner(c)
      <4> DEFINE new == [by |-> c, seen |-> client[c].seen, hit |-> lock,
                         why |-> client[c].mode]
      <4>1. stops' = stops \cup {new} /\ lock = client[c].cred /\ lock # None
        BY <3>1 DEF ShutdownOwner, Authorized
      <4>2. /\ client[c].seen = lock
            /\ client[c].mode = "probe" => version[lock] # build[c]
        BY <2>2, <4>1 DEF LifecycleInv, ClientInv, ShutdownInv
      <4> QED
        BY <1>1, <1>3, <2>2, <4>1, <4>2 DEF Started
    <3>2. CASE ShutdownLost(c)
      BY <3>2 DEF ShutdownLost
    <3> QED
      BY <1>11, <3>1, <3>2
  <2>4. CASE client[c].mode = "stop"
    <3> DEFINE locals == [Idle EXCEPT !.at = "done", !.owner = None]
    <3>1. Go(c, locals)
      BY <2>1, <2>4 DEF AfterShutdown, Finish
    <3>2. LocalsOK(c, locals)
      BY <1>2 DEF Locals, LocalsOK
    <3> HIDE DEF locals
    <3> QED
      BY <2>1, <2>3, <3>1, <3>2, ClientStops
  <2>5. CASE client[c].mode # "stop"
    <3> DEFINE locals == [client[c] EXCEPT !.at = "load", !.mode = "exit",
                                           !.cred = None, !.missing = 0]
    <3>1. Go(c, locals)
      BY <2>1, <2>5 DEF AfterShutdown
    <3>2. LocalsOK(c, locals)
      BY <1>0, <1>1, <1>4 DEF Locals, LocalsOK, Modes
    <3> HIDE DEF locals
    <3> QED
      BY <2>1, <2>3, <3>1, <3>2, ClientStops
  <2> QED
    BY <2>4, <2>5
<1>12. CASE StartDaemonFails(c) \/ WaitTimesOut(c)
  <2>1. Finish(c, None) /\ UNCHANGED <<procVars, stopping, build, stops>>
    BY <1>12 DEF StartDaemonFails, WaitTimesOut
  <2> QED
    BY <1>6, <2>1
<1> QED
  BY <1>7, <1>8, <1>9, <1>10, <1>11, <1>12 DEF Proceed

\* A started process is one that was off, of which nothing has been said.
LEMMA StartKeepsInvariant ==
  ASSUME LifecycleInv, NEW c \in Client, StartDaemon(c)
  PROVE  LifecycleInv'
<1> USE LifecycleAssumption DEF LifecycleInv, LifecycleTypeOK
<1>1. PICK p \in Process, v \in Version :
        /\ phase[p] = "off"
        /\ phase' = [phase EXCEPT ![p] = "started"]
        /\ version' = [version EXCEPT ![p] = v]
  BY DEF StartDaemon, Start
<1> DEFINE locals == [client[c] EXCEPT !.at = "load"]
<1>2. /\ client' = [client EXCEPT ![c] = locals]
      /\ At(c, "start")
      /\ UNCHANGED <<lock, file, browsers, busy, held, failed, stopping, build,
                   stops>>
  BY DEF StartDaemon, Start, Go
<1>3. /\ locals \in Locals /\ locals.at = "load"
      /\ locals.mode = client[c].mode /\ locals.owner = client[c].owner
  BY DEF Locals
<1> HIDE DEF locals
<1>4. LifecycleTypeOK'
  BY <1>1, <1>2, <1>3 DEF Phases
<1>5. LockInv' /\ FileInv'
  BY <1>1, <1>2 DEF LockInv, FileInv, Holding, Leaving
<1>6. ModeInv' /\ ShutdownInv'
  BY <1>1, <1>2, <1>3
     DEF ClientInv, ModeInv, ShutdownInv, Started, At, Mode
<1>7. SettledInv' /\ StopsWhatItSaw' /\ OpenedIsCompatible'
  BY <1>1, <1>2, <1>3
     DEF ClientInv, SettledInv, StopsWhatItSaw, OpenedIsCompatible, Started
<1> QED
  BY <1>4, <1>5, <1>6, <1>7 DEF ClientInv

----------------------------------------------------------------------------

\* The inductive invariant.
THEOREM LifecycleInvariant == Spec => []LifecycleInv
<1>1. LifecycleInv /\ [Next]_vars => LifecycleInv'
  <2> SUFFICES ASSUME LifecycleInv, [Next]_vars PROVE LifecycleInv'
    OBVIOUS
  <2>1. ASSUME NEW p \in Process, ProcessStep(p) PROVE LifecycleInv'
    BY <2>1, ProcessKeepsTypes, ProcessKeepsLock, ProcessKeepsFile,
       ProcessKeepsClients DEF LifecycleInv
  <2>2. ASSUME NEW c \in Client, Open(c) \/ Proceed(c) \/ WaitTimesOut(c)
        PROVE  LifecycleInv'
    BY <2>2, ClientKeepsInvariant, StartKeepsInvariant
  <2>3. CASE UNCHANGED vars
    BY <2>3 DEF LifecycleInv, LifecycleTypeOK, LockInv, FileInv, ClientInv,
         ModeInv, ShutdownInv, SettledInv, StopsWhatItSaw, OpenedIsCompatible,
         Started, At, Mode, vars, procVars
  <2> QED
    BY <2>1, <2>2, <2>3 DEF Next
<1> QED
  BY InitInvariant, <1>1, PTL DEF Spec

\* The state of owners and clients keeps its type (command_daemon.go, Run, and
\* runtime.go, openDaemon).
THEOREM LifecycleTyping == Spec => []LifecycleTypeOK
BY LifecycleInvariant, PTL DEF LifecycleInv

\* Who has browsers has the lock, for any number of owners and clients, unless
\* its Serve failed (command_daemon.go:106).
THEOREM BrowsersAreUnderLock == Spec => []BrowsersUnderLock
<1>1. LifecycleInv => BrowsersUnderLock
  BY DEF LifecycleInv, LifecycleTypeOK, LockInv, Holding, BrowsersUnderLock
<1> QED
  BY <1>1, LifecycleInvariant, PTL

\* "A replacement daemon must never overlap ownership" (command_daemon.go:107)
\* holds as long as no Serve has failed.
THEOREM OverlapNeedsFailure == Spec => [](failed = {} => NeverOverlap)
<1>1. LifecycleInv => (failed = {} => NeverOverlap)
  BY DEF LifecycleInv, LifecycleTypeOK, LockInv, Holding, NeverOverlap
<1> QED
  BY <1>1, LifecycleInvariant, PTL

\* The credential file of an owner that answers holds its own credential or is
\* gone (credential.go).
THEOREM CredentialIsNeverForeign == Spec => []NoForeignCredential
<1>1. LifecycleInv => NoForeignCredential
  BY DEF LifecycleInv, FileInv, NoForeignCredential, Answering
<1> QED
  BY <1>1, LifecycleInvariant, PTL

\* A shutdown request stops the owner that its client has inspected
\* (client_lifecycle.go:115).
THEOREM ShutdownIsTargeted == Spec => []StopsWhatItSaw
BY LifecycleInvariant, PTL DEF LifecycleInv, ClientInv

\* openDaemon returns owners of its own build only (daemon_lifecycle.go:120).
THEOREM OpenedOwnersAreCompatible == Spec => []OpenedIsCompatible
BY LifecycleInvariant, PTL DEF LifecycleInv, ClientInv

----------------------------------------------------------------------------

\* What a step of an owner does to lock, credential file and freshness is a
\* step of SessionOwnership: the lock is taken by a fresh process while nobody
\* has it, and only its holder publishes a credential.
LEMMA ProcessStepsImplementOwnership ==
  ASSUME LifecycleTypeOK, LockInv, NEW p \in Process, ProcessStep(p)
  PROVE  Promise!OwnershipNext \/ UNCHANGED <<lock, file, Fresh>>
<1>1. CASE TakeLock(p)
  <2>1. Promise!Acquire(p)
    BY <1>1 DEF LifecycleTypeOK, Fresh, TakeLock, Promise!Acquire
  <2> QED
    BY <2>1 DEF Promise!OwnershipNext
<1>2. CASE LockTaken(p) \/ (Crash(p) /\ lock # p)
  <2>1. Promise!Renounce(p)
    BY <1>2 DEF LifecycleTypeOK, Fresh, LockTaken, Crash, Promise!Renounce
  <2> QED
    BY <2>1 DEF Promise!OwnershipNext
<1>3. CASE IssueCredential(p) \/ IssueAbandoned(p)
  <2>1. Promise!Publish
    BY <1>3, LifecycleAssumption
       DEF LifecycleAssumption, LifecycleTypeOK, Fresh, IssueCredential,
           IssueAbandoned, LockInv, Holding, Promise!Publish
  <2> QED
    BY <2>1 DEF Promise!OwnershipNext
<1>4. CASE RemoveOldCredential(p) \/ RemoveCredential(p)
  <2>1. Promise!Withdraw
    BY <1>4 DEF LifecycleTypeOK, Fresh, RemoveOldCredential, RemoveCredential,
         Promise!Withdraw
  <2> QED
    BY <2>1 DEF Promise!OwnershipNext
<1>5. CASE StartFails(p) \/ Shutdown(p) \/ ServeFails(p)
           \/ (End(p) /\ lock = p) \/ (Crash(p) /\ lock = p)
  <2>1. phase[p] \notin {"off", "started"}
    BY <1>5 DEF StartFails, Shutdown, ServeFails, End, Crash, LockInv,
         Holding, Leaving
  <2>2. Promise!Release
    BY <1>5, <2>1 DEF LifecycleTypeOK, Fresh, StartFails, Shutdown, ServeFails,
         End, Crash, Promise!Release
  <2> QED
    BY <2>2 DEF Promise!OwnershipNext
<1>6. CASE Serve(p) \/ ServeRefused(p) \/ Obey(p) \/ Interrupt(p)
           \/ CloseBegin(p) \/ CloseBackend(p) \/ CheckCredential(p)
           \/ (End(p) /\ lock # p)
  BY <1>6 DEF LifecycleTypeOK, Fresh, Serve, ServeRefused, Obey, Interrupt,
       CloseBegin, CloseBackend, CheckCredential, End
<1>7. CASE Calls(p)
  BY <1>7 DEF Fresh, Calls, BeginCall, OpenBrowser, ReleaseMutex, EndCall
<1>8. CASE ServeByHand(p)
  BY <1>8 DEF LifecycleTypeOK, Fresh, ServeByHand, Start
<1> QED
  BY <1>1, <1>2, <1>3, <1>4, <1>5, <1>6, <1>7, <1>8
     DEF ProcessStep, Run, Accident

\* For any owners and clients, the daemon processes keep the promise the
\* adapters are built on: one owner at a time, each once, and no credential in
\* the file but that of an owner which published it (command_daemon.go, Run).
THEOREM LifecycleImplementsOwnership == Spec => ImplementsOwnership
<1>1. Init => Promise!OwnershipInit
  <2> SUFFICES ASSUME Init PROVE Promise!OwnershipInit
    OBVIOUS
  <2> QED
    BY LifecycleAssumption
       DEF LifecycleAssumption, Init, Fresh, Promise!OwnershipInit
<1>2. LifecycleInv /\ [Next]_vars => [Promise!OwnershipNext]_<<lock, file, Fresh>>
  <2> SUFFICES ASSUME LifecycleInv, [Next]_vars
               PROVE  Promise!OwnershipNext \/ UNCHANGED <<lock, file, Fresh>>
    OBVIOUS
  <2>1. ASSUME NEW p \in Process, ProcessStep(p)
        PROVE  Promise!OwnershipNext \/ UNCHANGED <<lock, file, Fresh>>
    BY <2>1, ProcessStepsImplementOwnership DEF LifecycleInv
  <2>2. ASSUME NEW c \in Client, Open(c) \/ Proceed(c) \/ WaitTimesOut(c)
        PROVE  UNCHANGED <<lock, file, Fresh>>
    <3>1. CASE StartDaemon(c)
      BY <3>1 DEF StartDaemon, Start, LifecycleInv, LifecycleTypeOK, Fresh
    <3>2. CASE ~StartDaemon(c)
      <4>1. UNCHANGED procVars
        BY <2>2, <3>2 DEF Open, Proceed, WaitTimesOut, Load, OwnerSeen,
             OwnerUnseen, ShutdownOwner, ShutdownLost, StartDaemonFails
      <4> QED
        BY <4>1 DEF procVars, Fresh
    <3> QED
      BY <3>1, <3>2
  <2>3. CASE UNCHANGED vars
    BY <2>3 DEF vars, procVars, Fresh
  <2> QED
    BY <2>1, <2>2, <2>3 DEF Next
<1> QED
  BY <1>1, <1>2, LifecycleInvariant, PTL
     DEF Spec, ImplementsOwnership, Promise!OwnershipSpec,
         Promise!ownershipVars
=============================================================================

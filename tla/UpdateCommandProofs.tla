------------------------- MODULE UpdateCommandProofs -------------------------
(***************************************************************************)
(* Proofs about UpdateCommand: the cached release check is made by one     *)
(* process at a time and its answers are recent, and installations that do *)
(* not overlap leave the executable or a rollback copy that carries its    *)
(* name, keep every previous executable and never undo each other - for    *)
(* every number of processes, releases and ticks of the clock.             *)
(***************************************************************************)
EXTENDS UpdateCommand, TLAPS

(* The inductive invariant of the checks.                                  *)

\* Who works under the lock has the lock file, unless it was removed.
LockInv ==
  \A p \in Process : Holding(p) /\ p \notin lost => lockFile # None /\ lockFile.by = p

\* A release that was the latest, or a later one, at a time.
AsOf(latest, t) == latest # None => latest >= base[t]

\* The times are past, and what has been fetched is as of the beginning of the
\* check that fetched it.
RecentInv ==
  /\ \A t \in Time : base[t] <= released
  /\ cache # None => cache.checkedAt <= clock /\ AsOf(cache.latest, cache.checkedAt)
  /\ \A p \in Process :
       LET c == check[p]
       IN /\ c.now <= clock
          /\ c.at = "store" => AsOf(c.latest, c.now)
          /\ c.at \in {"release", "answer"} /\ c.latest # None =>
               \E t \in Time : t <= c.now /\ c.now < t + CacheLife /\ c.latest >= base[t]

(* The inductive invariant of the installations.                           *)

\* What an installation has found out so far, overlap or not.
Informed(p) ==
  LET i == install[p]
  IN /\ i.at # "done" => i.result = None
     /\ i.at \notin {"idle", "done"} \/ i.result = "updated" => i.current \in Version
     /\ i.at \notin {"idle", "release", "done"} \/ i.result = "updated" =>
          i.latest \in Version
     /\ i.at = "write" => i.file \in File

InformedInv == \A p \in Process : Informed(p)

\* File f is a whole program that the project has published as release v.
Good(contents, f, v) ==
  /\ f # None
  /\ contents[f].whole /\ contents[f].genuine /\ contents[f].version = v

Early == {"release", "download", "provenance", "checksum", "candidate", "inspect"}
Preparing == {"staging", "open", "write", "unlink", "aside"}
Swapping == {"in", "rollback"}

Updated(p) == install[p].result = "updated"

\* The release an installation found installed still is, or is kept aside.
KeepsCurrent(p) ==
  LET i == install[p]
  IN /\ i.at \in Early => \/ Good(content, exe, i.current)
                          \/ Good(content, backup[i.current], i.current)
     /\ i.at \in Preparing => /\ Good(content, exe, i.current) /\ i.found = exe
                              /\ backup[i.current] = None
     /\ i.at \in Swapping => /\ exe = None /\ backup[i.current] = i.found
                             /\ Good(content, i.found, i.current)
     /\ Updated(p) => Good(content, backup[i.current], i.current)

\* What an installation has verified and written.
Verified(p) ==
  LET i == install[p]
  IN /\ i.at \notin {"idle", "release", "done"} \/ Updated(p) =>
          i.current < i.latest
     /\ i.at = "checksum" => i.manifest
     /\ i.at \in {"candidate", "inspect"} \cup Preparing \cup Swapping => i.archive
     /\ i.at = "open" => staging = None
     /\ i.at = "write" => /\ staging = p /\ i.file = p
                          /\ content[p].by = p /\ content[p].genuine
                          /\ content[p].version = i.latest
     /\ i.at \in {"unlink", "aside", "in"} =>
          staging = p /\ Good(content, p, i.latest)

\* The file of an installation is nobody else's.
OwnFile(p) ==
  /\ ~At(p, "done") => exe # p /\ \A v \in Version : backup[v] # p
  /\ install[p].at \in {"idle", "staging", "open"} \cup Early => staging # p

\* An installation that has come to its end is not undone: by what is installed
\* now, and by what q is about to install or to restore.
Stands(p) == Updated(p) /\ exe # None => content[exe].version >= install[p].latest

StandsAgainst(p, q) ==
  Updated(p) =>
    /\ Replacing(q) => install[p].current # install[q].current
    /\ install[q].at \in Swapping => install[q].current >= install[p].latest

Alone(p) == \A q \in Process : Replacing(p) /\ Replacing(q) => p = q

Installer(p) ==
  KeepsCurrent(p) /\ Verified(p) /\ OwnFile(p) /\ Stands(p)

Orderly ==
  /\ exe # None => Good(content, exe, content[exe].version)
  /\ exe = None => \E v \in Version : Good(content, backup[v], v)
  /\ \A p \in Process : Alone(p) /\ Installer(p)
  /\ \A p, q \in Process : StandsAgainst(p, q)

InstallInv == ~overlap => Orderly
----------------------------------------------------------------------------
(* Types.                                                                  *)

LockRecord == [by: Process, mtime: Time]
CacheRecord == [checkedAt: Time, latest: Version \cup {None}]

CheckRecord ==
  [at: {"idle", "load", "lock", "inspect", "takeover", "reopen", "recheck",
        "publish", "fetch", "store", "release", "answer"},
   force: BOOLEAN, now: Time, latest: Version \cup {None}]

\* A check that goes on.
LEMMA CheckGoes ==
  ASSUME CheckTypeOK, NEW p \in Process,
         NEW at \in {"idle", "load", "lock", "inspect", "takeover", "reopen", "recheck",
                     "publish", "fetch", "store", "release", "answer"},
         CheckGo(p, at)
  PROVE  /\ check' \in [Process -> CheckRecord]
         /\ \A q \in Process \ {p} : check'[q] = check[q]
         /\ check'[p].at = at /\ check'[p].now = check[p].now
         /\ check'[p].latest = check[p].latest
<1>1. check[p] \in CheckRecord BY DEF CheckTypeOK, CheckRecord
<1> DEFINE gone == [check[p] EXCEPT !.at = at]
<1>2. gone \in CheckRecord BY <1>1 DEF CheckRecord
<1>3. gone.at = at /\ gone.now = check[p].now /\ gone.latest = check[p].latest
  BY <1>1 DEF CheckRecord
<1>4. check' = [check EXCEPT ![p] = gone] BY DEF CheckGo, CheckTypeOK
<1>5. check \in [Process -> CheckRecord] BY DEF CheckTypeOK, CheckRecord
<1> HIDE DEF gone
<1> QED BY <1>2, <1>3, <1>4, <1>5

\* A check that has something to say.
LEMMA CheckSays ==
  ASSUME CheckTypeOK, NEW p \in Process,
         NEW at \in {"answer", "release", "store"}, NEW latest \in Version \cup {None},
         check' = [check EXCEPT ![p].at = at, ![p].latest = latest]
  PROVE  /\ check' \in [Process -> CheckRecord]
         /\ \A q \in Process \ {p} : check'[q] = check[q]
         /\ check'[p].at = at /\ check'[p].now = check[p].now
         /\ check'[p].latest = latest
<1>1. check[p] \in CheckRecord BY DEF CheckTypeOK, CheckRecord
<1> DEFINE said == [check[p] EXCEPT !.at = at, !.latest = latest]
<1>2. said \in CheckRecord BY <1>1 DEF CheckRecord
<1>3. said.at = at /\ said.now = check[p].now /\ said.latest = latest
  BY <1>1 DEF CheckRecord
<1>4. check' = [check EXCEPT ![p] = said] BY DEF CheckTypeOK
<1>5. check \in [Process -> CheckRecord] BY DEF CheckTypeOK, CheckRecord
<1> HIDE DEF said
<1> QED BY <1>2, <1>3, <1>4, <1>5

\* A check that begins, and one that ends.
LEMMA CheckBegins ==
  ASSUME CheckTypeOK, NEW p \in Process, NEW force \in BOOLEAN, BeginCheck(p, force)
  PROVE  /\ check' \in [Process -> CheckRecord]
         /\ \A q \in Process \ {p} : check'[q] = check[q]
         /\ check'[p].at \in {"load", "lock"} /\ check'[p].now = clock
<1> DEFINE at == IF force THEN "lock" ELSE "load"
           begun == [at |-> at, force |-> force, now |-> clock, latest |-> None]
<1>1. at \in {"load", "lock"} OBVIOUS
<1>3. check' = [check EXCEPT ![p] = begun] BY DEF BeginCheck
<1> HIDE DEF at
<1>4. begun \in CheckRecord BY <1>1 DEF CheckRecord, CheckTypeOK
<1>2. begun.at \in {"load", "lock"} /\ begun.now = clock BY <1>1
<1> HIDE DEF begun
<1> QED BY <1>2, <1>3, <1>4 DEF CheckTypeOK, CheckRecord

\* EndCheck: Check returns, or the process dies.
LEMMA CheckEnds ==
  ASSUME CheckTypeOK, CheckAssumption, NEW p \in Process, EndCheck(p)
  PROVE  /\ check' \in [Process -> CheckRecord]
         /\ \A q \in Process \ {p} : check'[q] = check[q]
         /\ check'[p].at = "idle" /\ check'[p].now = 0
<1>1. NoCheck \in CheckRecord
  BY DEF NoCheck, CheckRecord, Time, CheckAssumption
<1>2. NoCheck.at = "idle" /\ NoCheck.now = 0 BY DEF NoCheck
<1>3. check' = [check EXCEPT ![p] = NoCheck] BY DEF EndCheck
<1> QED BY <1>1, <1>2, <1>3 DEF CheckTypeOK, CheckRecord

\* The steps of a check keep cache, lock file and locals in their types.
LEMMA CheckKeepsTypes ==
  ASSUME CheckAssumption, CheckTypeOK, NEW p \in Process, UNCHANGED worldVars,
         CheckStep(p) \/ BeginCheck(p, TRUE) \/ BeginCheck(p, FALSE)
  PROVE  CheckTypeOK'
<1>0. /\ clock \in Time /\ released \in Version
      /\ lockFile \in LockRecord \cup {None} /\ cache \in CacheRecord \cup {None}
      /\ check[p] \in CheckRecord /\ lost \subseteq Process
      /\ check[p].now \in Time /\ check[p].latest \in Version \cup {None}
  BY DEF CheckTypeOK, LockRecord, CacheRecord, CheckRecord
<1>a. ASSUME check' \in [Process -> CheckRecord],
             lockFile' \in LockRecord \cup {None}, cache' \in CacheRecord \cup {None},
             lost' \subseteq Process
      PROVE  CheckTypeOK'
  BY <1>a DEF CheckTypeOK, LockRecord, CacheRecord, CheckRecord, worldVars
<1>b. ASSUME NEW record \in CacheRecord \cup {None}, Fresh(record, check[p].now)
      PROVE  record.latest \in Version \cup {None}
  BY <1>b DEF Fresh, CacheRecord
<1>c. ASSUME NEW latest \in Version \cup {None}
      PROVE  [checkedAt |-> check[p].now, latest |-> latest] \in CacheRecord
  BY <1>0 DEF CacheRecord
<1>1. CASE BeginCheck(p, TRUE) \/ BeginCheck(p, FALSE)
  BY <1>0, <1>1, <1>a, CheckBegins DEF BeginCheck
<1>2. CASE LoadCache(p)
  <2>1. CASE Fresh(cache, check[p].now)
    BY <1>0, <1>2, <1>a, <1>b, <2>1, CheckSays DEF LoadCache, Answer
  <2>2. CASE ~Fresh(cache, check[p].now)
    BY <1>0, <1>2, <1>a, <2>2, CheckGoes DEF LoadCache
  <2> QED BY <2>1, <2>2
<1>3. CASE AcquireLock(p)
  <2>1. [by |-> p, mtime |-> clock] \in LockRecord BY <1>0 DEF LockRecord
  <2> QED BY <1>0, <1>3, <1>a, <2>1, CheckGoes DEF AcquireLock, Locked
<1>4. CASE LockExists(p)
  BY <1>0, <1>4, <1>a, CheckGoes, CheckSays DEF LockExists, Answer
<1>5. CASE InspectLock(p)
  BY <1>0, <1>5, <1>a, CheckGoes, CheckSays DEF InspectLock, Answer
<1>6. CASE TakeOver(p) \/ ReleaseLock(p)
  BY <1>0, <1>6, <1>a, CheckGoes DEF TakeOver, ReleaseLock, RemoveLock
<1>7. CASE Recheck(p)
  <2>1. CASE Fresh(cache, check[p].now)
    BY <1>0, <1>7, <1>a, <1>b, <2>1, CheckSays DEF Recheck
  <2>2. CASE ~Fresh(cache, check[p].now)
    BY <1>0, <1>7, <1>a, <2>2, CheckGoes DEF Recheck, CheckGo
  <2> QED BY <2>1, <2>2
<1>8. CASE PublishSentinel(p) \/ StoreLatest(p)
  BY <1>0, <1>8, <1>a, <1>c, CheckGoes DEF PublishSentinel, StoreLatest
<1>9. CASE FetchLatest(p)
  BY <1>0, <1>9, <1>a, CheckSays DEF FetchLatest
<1>11. CASE CheckFails(p)
  BY <1>0, <1>11, <1>a, CheckSays DEF CheckFails
<1>10. CASE EndCheck(p)
  BY <1>0, <1>10, <1>a, CheckEnds DEF EndCheck
<1> QED
  BY <1>1, <1>2, <1>3, <1>4, <1>5, <1>6, <1>7, <1>8, <1>9, <1>11, <1>10 DEF CheckStep

\* So do a new release and a tick.
LEMMA WorldKeepsTypes ==
  ASSUME CheckAssumption, CheckTypeOK, Publish \/ Tick, UNCHANGED checkVars
  PROVE  CheckTypeOK'
<1>1. CASE Publish
  <2>1. released' \in Version
    BY <1>1 DEF Publish, CheckTypeOK, Version, CheckAssumption
  <2> QED BY <1>1, <2>1 DEF Publish, CheckTypeOK, checkVars
<1>2. CASE Tick
  <2>1. clock' \in Time BY <1>2 DEF Tick, CheckTypeOK, Time, CheckAssumption
  <2>2. base' \in [Time -> Version] BY <1>2 DEF Tick, CheckTypeOK
  <2> QED BY <1>2, <2>1, <2>2 DEF Tick, CheckTypeOK, checkVars
<1> QED BY <1>1, <1>2
----------------------------------------------------------------------------
(* Checks.                                                                 *)

\* A step that leaves the lock file alone, of a process that gets none.
LEMMA LockFrame ==
  ASSUME LockInv, NEW p \in Process, UNCHANGED <<lockFile, lost>>,
         \A q \in Process \ {p} : check'[q] = check[q],
         Holding(p)' => Holding(p)
  PROVE  LockInv'
BY DEF LockInv, Holding

\* os.Remove of the lock file: who loses its lock is remembered.
LEMMA RemovalKeepsLocks ==
  ASSUME LockInv, NEW p \in Process, RemoveLock(p),
         \A q \in Process \ {p} : check'[q] = check[q],
         ~Holding(p)'
  PROVE  LockInv'
BY DEF LockInv, Holding, RemoveLock

\* acquireCheckLock, the steps under the lock and its release.
LEMMA LockInvariant ==
  ASSUME CheckAssumption, CheckTypeOK, LockInv, NEW p \in Process,
         CheckStep(p) \/ BeginCheck(p, TRUE) \/ BeginCheck(p, FALSE)
  PROVE  LockInv'
<1>0. /\ lost \subseteq Process
      /\ check[p] \in CheckRecord /\ cache \in CacheRecord \cup {None}
      /\ clock \in Time
  BY DEF CheckTypeOK, CacheRecord, CheckRecord
<1>a. ASSUME NEW record \in CacheRecord \cup {None}, Fresh(record, check[p].now)
      PROVE  record.latest \in Version \cup {None}
  BY <1>a DEF Fresh, CacheRecord
<1>1. CASE BeginCheck(p, TRUE) \/ BeginCheck(p, FALSE)
  <2>1. UNCHANGED <<lockFile, lost>> BY <1>1 DEF BeginCheck
  <2>2. check'[p].at \in {"load", "lock"} /\ \A q \in Process \ {p} : check'[q] = check[q]
    BY <1>1, CheckBegins
  <2>3. ~Holding(p)' BY <2>2 DEF Holding
  <2> QED BY <2>1, <2>2, <2>3, LockFrame
<1>2. CASE LoadCache(p)
  <2>1. CASE Fresh(cache, check[p].now)
    <3>1. Answer(p, cache.latest) /\ UNCHANGED <<lockFile, lost>>
      BY <1>2, <2>1 DEF LoadCache
    <3>2. cache.latest \in Version \cup {None} BY <1>0, <1>a, <2>1
    <3>3. check'[p].at = "answer" /\ \A q \in Process \ {p} : check'[q] = check[q]
      BY <3>1, <3>2, CheckSays DEF Answer
    <3>4. ~Holding(p)' BY <3>3 DEF Holding
    <3> QED BY <3>1, <3>3, <3>4, LockFrame
  <2>2. CASE ~Fresh(cache, check[p].now)
    <3>1. CheckGo(p, "lock") /\ UNCHANGED <<lockFile, lost>>
      BY <1>2, <2>2 DEF LoadCache
    <3>2. check'[p].at = "lock" /\ \A q \in Process \ {p} : check'[q] = check[q]
      BY <3>1, CheckGoes
    <3>3. ~Holding(p)' BY <3>2 DEF Holding
    <3> QED BY <3>1, <3>2, <3>3, LockFrame
  <2> QED BY <2>1, <2>2
<1>3. CASE AcquireLock(p)
  <2> DEFINE mine == [by |-> p, mtime |-> clock]
  <2>1. lockFile = None /\ lockFile' = mine /\ UNCHANGED lost
    BY <1>3 DEF AcquireLock, Locked
  <2>2. \A q \in Process \ {p} : check'[q] = check[q]
    BY <1>3, CheckGoes DEF AcquireLock, Locked
  <2>3. mine # None /\ mine.by = p
    <3>1. mine \in Lock BY <1>0 DEF Lock, Time
    <3> QED BY <3>1 DEF CheckAssumption
  <2> HIDE DEF mine
  <2> QED BY <2>1, <2>2, <2>3 DEF LockInv, Holding
<1>4. CASE LockExists(p)
  <2>1. UNCHANGED <<lockFile, lost>> BY <1>4 DEF LockExists
  <2>2. check'[p].at \in {"inspect", "answer"}
        /\ \A q \in Process \ {p} : check'[q] = check[q]
    BY <1>4, CheckGoes, CheckSays DEF LockExists, Answer
  <2>3. ~Holding(p)' BY <2>2 DEF Holding
  <2> QED BY <2>1, <2>2, <2>3, LockFrame
<1>5. CASE InspectLock(p)
  <2>1. UNCHANGED <<lockFile, lost>> BY <1>5 DEF InspectLock
  <2>2. check'[p].at \in {"takeover", "answer"}
        /\ \A q \in Process \ {p} : check'[q] = check[q]
    BY <1>5, CheckGoes, CheckSays DEF InspectLock, Answer
  <2>3. ~Holding(p)' BY <2>2 DEF Holding
  <2> QED BY <2>1, <2>2, <2>3, LockFrame
<1>6. CASE TakeOver(p) \/ ReleaseLock(p)
  <2>1. RemoveLock(p) BY <1>6 DEF TakeOver, ReleaseLock
  <2>2. check'[p].at \in {"reopen", "answer"}
        /\ \A q \in Process \ {p} : check'[q] = check[q]
    BY <1>6, CheckGoes DEF TakeOver, ReleaseLock
  <2>3. ~Holding(p)' BY <2>2 DEF Holding
  <2> QED BY <2>1, <2>2, <2>3, RemovalKeepsLocks
<1>7. CASE Recheck(p) \/ PublishSentinel(p) \/ StoreLatest(p) \/ FetchLatest(p)
           \/ CheckFails(p)
  <2>1. UNCHANGED <<lockFile, lost>> /\ Holding(p)
    BY <1>7 DEF Recheck, PublishSentinel, StoreLatest, FetchLatest, CheckFails,
         CheckAt, Holding
  <2>2. \A q \in Process \ {p} : check'[q] = check[q]
    BY <1>7 DEF Recheck, PublishSentinel, StoreLatest, FetchLatest, CheckFails,
         CheckGo, CheckTypeOK
  <2> QED BY <2>1, <2>2, LockFrame
<1>8. CASE EndCheck(p)
  <2>1. check'[p].at = "idle" /\ \A q \in Process \ {p} : check'[q] = check[q]
    BY <1>8, CheckEnds
  <2>2. UNCHANGED lockFile /\ lost' = lost \ {p} BY <1>8 DEF EndCheck
  <2> QED BY <2>1, <2>2 DEF LockInv, Holding
<1> QED
  BY <1>1, <1>2, <1>3, <1>4, <1>5, <1>6, <1>7, <1>8 DEF CheckStep

\* What has been fetched is recent, of one process.
Recent(p) ==
  LET c == check[p]
  IN /\ c.now <= clock
     /\ c.at = "store" => AsOf(c.latest, c.now)
     /\ c.at \in {"release", "answer"} /\ c.latest # None =>
          \E t \in Time : t <= c.now /\ c.now < t + CacheLife /\ c.latest >= base[t]

\* A fresh record answers with what was current within its lifetime.
LEMMA FreshIsRecent ==
  ASSUME CheckAssumption, CheckTypeOK, RecentInv, NEW now \in Time,
         Fresh(cache, now), cache.latest # None
  PROVE  /\ cache.latest \in Version
         /\ \E t \in Time : t <= now /\ now < t + CacheLife /\ cache.latest >= base[t]
<1>1. cache \in CacheRecord /\ cache # None
  BY DEF CheckTypeOK, CacheRecord, Fresh
<1>2. cache.checkedAt \in Time /\ cache.latest \in Version
  BY <1>1 DEF CacheRecord
<1>3. cache.checkedAt <= now /\ now - cache.checkedAt < CacheLife
  BY DEF Fresh
<1>4. cache.latest >= base[cache.checkedAt] BY <1>1 DEF RecentInv, AsOf
<1>5. now < cache.checkedAt + CacheLife
  BY <1>2, <1>3 DEF Time, CheckAssumption
<1> QED BY <1>2, <1>3, <1>4, <1>5

\* A step that leaves clock, releases and cache alone.
LEMMA RecentFrame ==
  ASSUME RecentInv, NEW p \in Process, UNCHANGED <<worldVars, cache>>,
         \A q \in Process \ {p} : check'[q] = check[q], Recent(p)'
  PROVE  RecentInv'
<1>1. ASSUME NEW q \in Process PROVE Recent(q)'
  <2>1. CASE q = p BY <2>1
  <2>2. CASE q # p
    <3>1. Recent(q) BY DEF RecentInv, Recent
    <3> QED BY <2>2, <3>1 DEF Recent, AsOf, worldVars
  <2> QED BY <2>1, <2>2
<1>2. /\ \A t \in Time : base'[t] <= released'
      /\ cache' # None => cache'.checkedAt <= clock' /\ AsOf(cache.latest, cache.checkedAt)'
  BY DEF RecentInv, worldVars, AsOf
<1> QED BY <1>1, <1>2 DEF RecentInv, Recent
\* loadFreshCache, the request and the record it is stored in.
LEMMA RecentInvariant ==
  ASSUME CheckAssumption, CheckTypeOK, RecentInv, NEW p \in Process, UNCHANGED worldVars,
         CheckStep(p) \/ BeginCheck(p, TRUE) \/ BeginCheck(p, FALSE)
  PROVE  RecentInv'
<1>0. /\ check[p] \in CheckRecord /\ check[p].now \in Time /\ Recent(p)
      /\ clock \in Time /\ UNCHANGED <<clock, base, released>>
      /\ 0 \in Time /\ released \in Version
      /\ check[p].now <= clock
  BY DEF CheckTypeOK, CheckRecord, RecentInv, Recent, worldVars, Time, CheckAssumption
<1>a. ASSUME CheckGo(p, "lock") \/ CheckGo(p, "inspect") \/ CheckGo(p, "takeover")
               \/ CheckGo(p, "reopen") \/ CheckGo(p, "recheck") \/ CheckGo(p, "publish")
               \/ CheckGo(p, "fetch")
      PROVE  Recent(p)' /\ \A q \in Process \ {p} : check'[q] = check[q]
  <2>1. /\ check'[p].at \notin {"store", "release", "answer"}
        /\ check'[p].now = check[p].now
        /\ \A q \in Process \ {p} : check'[q] = check[q]
    BY <1>a, CheckGoes
  <2> QED BY <1>0, <2>1 DEF Recent, AsOf
<1>b. ASSUME NEW at \in {"answer", "release"}, NEW latest \in Version \cup {None},
             check' = [check EXCEPT ![p].at = at, ![p].latest = latest],
             latest # None =>
               \E t \in Time : /\ t <= check[p].now /\ check[p].now < t + CacheLife
                               /\ latest >= base[t]
      PROVE  Recent(p)' /\ \A q \in Process \ {p} : check'[q] = check[q]
  <2>1. /\ check'[p].at = at /\ check'[p].now = check[p].now /\ check'[p].latest = latest
        /\ \A q \in Process \ {p} : check'[q] = check[q]
    BY <1>b, CheckSays
  <2> QED BY <1>0, <1>b, <2>1 DEF Recent, AsOf
<1>c. ASSUME Fresh(cache, check[p].now)
      PROVE  /\ cache.latest \in Version \cup {None}
             /\ cache.latest # None =>
                  \E t \in Time : /\ t <= check[p].now /\ check[p].now < t + CacheLife
                                  /\ cache.latest >= base[t]
  <2>1. cache \in CacheRecord BY <1>c DEF Fresh, CheckTypeOK, CacheRecord
  <2> QED BY <1>0, <1>c, <2>1, FreshIsRecent DEF CacheRecord
<1>1. CASE BeginCheck(p, TRUE) \/ BeginCheck(p, FALSE)
  <2>1. /\ check'[p].at \in {"load", "lock"} /\ check'[p].now = clock
        /\ \A q \in Process \ {p} : check'[q] = check[q]
    BY <1>1, CheckBegins
  <2>2. Recent(p)' BY <1>0, <2>1 DEF Recent, AsOf, Time
  <2> QED BY <1>1, <2>1, <2>2, RecentFrame DEF BeginCheck
<1>2. CASE LoadCache(p)
  <2>1. CASE Fresh(cache, check[p].now)
    BY <1>2, <1>b, <1>c, <2>1, RecentFrame DEF LoadCache, Answer
  <2>2. CASE ~Fresh(cache, check[p].now)
    BY <1>2, <1>a, <2>2, RecentFrame DEF LoadCache
  <2> QED BY <2>1, <2>2
<1>3. CASE AcquireLock(p)
  BY <1>3, <1>a, RecentFrame DEF AcquireLock, Locked
<1>4. CASE LockExists(p)
  <2>1. CASE CheckGo(p, "inspect")
    BY <1>4, <1>a, <2>1, RecentFrame DEF LockExists
  <2>2. CASE Answer(p, None)
    BY <1>4, <1>b, <2>2, RecentFrame DEF LockExists, Answer
  <2> QED BY <1>4, <2>1, <2>2 DEF LockExists
<1>5. CASE InspectLock(p)
  <2>1. CASE CheckGo(p, "takeover")
    BY <1>5, <1>a, <2>1, RecentFrame DEF InspectLock
  <2>2. CASE Answer(p, None)
    BY <1>5, <1>b, <2>2, RecentFrame DEF InspectLock, Answer
  <2> QED BY <1>5, <2>1, <2>2 DEF InspectLock
<1>6. CASE TakeOver(p)
  BY <1>6, <1>a, RecentFrame DEF TakeOver
<1>7. CASE Recheck(p)
  <2>1. CASE Fresh(cache, check[p].now)
    BY <1>7, <1>b, <1>c, <2>1, RecentFrame DEF Recheck
  <2>2. CASE ~Fresh(cache, check[p].now)
    <3>1. CheckGo(p, "publish") BY <1>7, <2>2 DEF Recheck, CheckGo
    <3> QED BY <1>7, <1>a, <3>1, RecentFrame DEF Recheck
  <2> QED BY <2>1, <2>2
<1>8. CASE FetchLatest(p)
  <2>1. /\ check'[p].at = "store" /\ check'[p].now = check[p].now
        /\ check'[p].latest = released
        /\ \A q \in Process \ {p} : check'[q] = check[q]
    BY <1>0, <1>8, CheckSays DEF FetchLatest
  <2>2. released >= base[check[p].now]
    <3>1. base[check[p].now] <= released BY <1>0 DEF RecentInv
    <3> QED BY <1>0, <3>1 DEF CheckTypeOK, Version, Time
  <2>3. Recent(p)' BY <1>0, <2>1, <2>2 DEF Recent, AsOf
  <2> QED BY <1>8, <2>1, <2>3, RecentFrame DEF FetchLatest
<1>9. CASE CheckFails(p)
  BY <1>9, <1>b, RecentFrame DEF CheckFails
<1>d. ASSUME NEW latest \in Version \cup {None}, AsOf(latest, check[p].now),
             cache' = [checkedAt |-> check[p].now, latest |-> latest], Recent(p)',
             \A q \in Process \ {p} : check'[q] = check[q]
      PROVE  RecentInv'
  <2>1. ASSUME NEW q \in Process PROVE Recent(q)'
    <3>1. CASE q = p BY <1>d, <3>1
    <3>2. CASE q # p
      <4>1. Recent(q) BY DEF RecentInv, Recent
      <4> QED BY <1>0, <1>d, <3>2, <4>1 DEF Recent, AsOf
    <3> QED BY <3>1, <3>2
  <2>2. cache'.checkedAt = check[p].now /\ cache'.latest = latest BY <1>d
  <2>3. cache'.checkedAt <= clock' /\ AsOf(cache.latest, cache.checkedAt)'
    BY <1>0, <1>d, <2>2 DEF AsOf
  <2>4. \A t \in Time : base'[t] <= released' BY <1>0 DEF RecentInv
  <2> QED BY <2>1, <2>3, <2>4 DEF RecentInv, Recent
<1>10. CASE PublishSentinel(p)
  BY <1>10, <1>a, <1>d DEF PublishSentinel, AsOf
<1>11. CASE StoreLatest(p)
  <2>1. /\ check[p].at = "store" /\ check[p].latest \in Version \cup {None}
        /\ AsOf(check[p].latest, check[p].now)
    BY <1>0, <1>11 DEF StoreLatest, CheckAt, Recent, CheckRecord
  <2>2. /\ check'[p].at = "release" /\ check'[p].now = check[p].now
        /\ check'[p].latest = check[p].latest
        /\ \A q \in Process \ {p} : check'[q] = check[q]
    BY <1>11, CheckGoes DEF StoreLatest
  <2>3. check[p].now < check[p].now + CacheLife /\ check[p].now <= check[p].now
    BY <1>0 DEF Time, CheckAssumption
  <2>4. Recent(p)' BY <1>0, <2>1, <2>2, <2>3 DEF Recent, AsOf
  <2> QED BY <1>11, <1>d, <2>1, <2>2, <2>4 DEF StoreLatest
<1>12. CASE ReleaseLock(p)
  <2>1. /\ check'[p].at = "answer" /\ check'[p].now = check[p].now
        /\ check'[p].latest = check[p].latest /\ check[p].at = "release"
        /\ \A q \in Process \ {p} : check'[q] = check[q]
    BY <1>12, CheckGoes DEF ReleaseLock, CheckAt
  <2>2. Recent(p)' BY <1>0, <2>1 DEF Recent, AsOf
  <2> QED BY <1>12, <2>1, <2>2, RecentFrame DEF ReleaseLock
<1>13. CASE EndCheck(p)
  <2>1. /\ check'[p].at = "idle" /\ check'[p].now = 0
        /\ \A q \in Process \ {p} : check'[q] = check[q]
    BY <1>13, CheckEnds
  <2>2. Recent(p)' BY <1>0, <2>1 DEF Recent, AsOf, Time
  <2> QED BY <1>13, <2>1, <2>2, RecentFrame DEF EndCheck
<1> QED
  BY <1>1, <1>2, <1>3, <1>4, <1>5, <1>6, <1>7, <1>8, <1>9, <1>10, <1>11, <1>12, <1>13
  DEF CheckStep

\* A release that is published later is no older, and a tick begins with it.
LEMMA WorldKeepsRecent ==
  ASSUME CheckAssumption, CheckTypeOK, RecentInv, Publish \/ Tick, UNCHANGED checkVars
  PROVE  RecentInv'
<1>0. /\ released \in Nat /\ clock \in Time /\ \A t \in Time : base[t] \in Nat
      /\ MaxTime \in Nat
      /\ \A p \in Process : check[p].now \in Time
      /\ cache \in CacheRecord \cup {None}
      /\ cache # None => cache.checkedAt \in Time
  BY DEF CheckTypeOK, Version, CheckAssumption, CacheRecord
<1>1. CASE Publish
  <2>1. released' = released + 1 /\ UNCHANGED <<clock, base, cache, check>>
    BY <1>1 DEF Publish, checkVars
  <2>2. \A t \in Time : base'[t] <= released' BY <1>0, <2>1 DEF RecentInv
  <2> QED BY <2>1, <2>2 DEF RecentInv, AsOf
<1>2. CASE Tick
  <2>1. /\ clock' = clock + 1 /\ base' = [base EXCEPT ![clock + 1] = released]
        /\ UNCHANGED <<released, cache, check>> /\ clock + 1 \in Time
    BY <1>0, <1>2 DEF Tick, checkVars, Time
  <2>2. \A t \in Time : base'[t] <= released'
    BY <1>0, <2>1 DEF RecentInv, CheckTypeOK
  <2>3. \A t \in Time : t <= clock => base'[t] = base[t]
    BY <1>0, <2>1 DEF CheckTypeOK, Time
  <2>4. cache' # None => /\ cache'.checkedAt <= clock'
                         /\ AsOf(cache.latest, cache.checkedAt)'
    <3>1. cache # None => /\ cache.checkedAt <= clock /\ cache.checkedAt \in Time
                          /\ AsOf(cache.latest, cache.checkedAt)
      BY <1>0 DEF RecentInv
    <3> QED BY <1>0, <2>1, <2>3, <3>1 DEF AsOf, Time
  <2>5. ASSUME NEW p \in Process PROVE Recent(p)'
    <3>1. Recent(p) /\ check[p].now <= clock /\ check[p].now \in Time
      BY <1>0 DEF RecentInv, Recent
    <3>2. check'[p].now <= clock' BY <1>0, <2>1, <3>1 DEF Time
    <3>3. check[p].at = "store" => AsOf(check[p].latest, check[p].now)'
      BY <2>1, <2>3, <3>1 DEF Recent, AsOf
    <3>4. ASSUME check[p].at \in {"release", "answer"}, check[p].latest # None
          PROVE  \E t \in Time : /\ t <= check[p].now /\ check[p].now < t + CacheLife
                                 /\ check[p].latest >= base'[t]
      <4>1. PICK t \in Time : /\ t <= check[p].now /\ check[p].now < t + CacheLife
                              /\ check[p].latest >= base[t]
        BY <3>1, <3>4 DEF Recent
      <4>2. t <= clock BY <1>0, <3>1, <4>1 DEF Time
      <4> QED BY <2>3, <4>1, <4>2
    <3> QED BY <2>1, <3>2, <3>3, <3>4 DEF Recent
  <2> QED BY <2>2, <2>4, <2>5 DEF RecentInv, Recent
<1> QED BY <1>1, <1>2
----------------------------------------------------------------------------
(* The locals and the files of installations.                              *)

Phase ==
  {"idle", "release", "download", "provenance", "checksum", "candidate", "inspect",
   "staging", "open", "write", "unlink", "aside", "in", "rollback", "done"}

InstallRecord ==
  [at: Phase, current: Version \cup {None}, latest: Version \cup {None},
   manifest: BOOLEAN, archive: BOOLEAN,
   file: File \cup {None}, found: File \cup {None}, result: Outcome \cup {None}]

ContentRecord ==
  [version: Version, genuine: BOOLEAN, whole: BOOLEAN, by: Process \cup {None}]

\* InstallTypeOK, in the names of these sets.
LEMMA InstallTypes ==
  InstallTypeOK <=>
    /\ exe \in File \cup {None} /\ staging \in File \cup {None}
    /\ backup \in [Version -> File \cup {None}]
    /\ content \in [File -> ContentRecord]
    /\ install \in [Process -> InstallRecord]
    /\ overlap \in BOOLEAN
BY DEF InstallTypeOK, InstallRecord, ContentRecord, Phase

\* The locals of one installation are replaced.
LEMMA OneInstall ==
  ASSUME InstallTypeOK, NEW p \in Process, NEW i \in InstallRecord,
         install' = [install EXCEPT ![p] = i]
  PROVE  /\ install' \in [Process -> InstallRecord] /\ install'[p] = i
         /\ \A q \in Process \ {p} : install'[q] = install[q]
<1>1. install \in [Process -> InstallRecord] BY InstallTypes
<1> QED BY <1>1

\* An installation that goes on.
LEMMA InstallGoes ==
  ASSUME InstallTypeOK, NEW p \in Process, NEW at \in Phase, Go(p, at)
  PROVE  /\ install' \in [Process -> InstallRecord]
         /\ \A q \in Process \ {p} : install'[q] = install[q]
         /\ install'[p].at = at
         /\ install'[p].current = install[p].current
         /\ install'[p].latest = install[p].latest
         /\ install'[p].manifest = install[p].manifest
         /\ install'[p].archive = install[p].archive
         /\ install'[p].file = install[p].file
         /\ install'[p].found = install[p].found
         /\ install'[p].result = install[p].result
<1>1. install[p] \in InstallRecord BY InstallTypes
<1> DEFINE gone == [install[p] EXCEPT !.at = at]
<1>2. gone \in InstallRecord BY <1>1 DEF InstallRecord
<1>3. /\ gone.at = at /\ gone.current = install[p].current
      /\ gone.latest = install[p].latest /\ gone.manifest = install[p].manifest
      /\ gone.archive = install[p].archive /\ gone.file = install[p].file
      /\ gone.found = install[p].found /\ gone.result = install[p].result
  BY <1>1 DEF InstallRecord
<1>4. install' = [install EXCEPT ![p] = gone] BY DEF Go, InstallTypeOK
<1> HIDE DEF gone
<1> QED BY <1>2, <1>3, <1>4, OneInstall

\* An installation that ends without an update.
LEMMA InstallFinishes ==
  ASSUME InstallTypeOK, NEW p \in Process, NEW result \in Outcome, Finish(p, result)
  PROVE  /\ install' \in [Process -> InstallRecord]
         /\ \A q \in Process \ {p} : install'[q] = install[q]
         /\ install'[p].at = "done" /\ install'[p].result = result
<1> DEFINE finished == [NoInstall EXCEPT !.at = "done", !.result = result]
<1>1. finished \in InstallRecord BY DEF InstallRecord, NoInstall, Phase
<1>2. finished.at = "done" /\ finished.result = result BY DEF NoInstall
<1>3. install' = [install EXCEPT ![p] = finished] BY DEF Finish
<1> HIDE DEF finished
<1> QED BY <1>1, <1>2, <1>3, OneInstall

\* BeginInstall: its build is what is installed.
LEMMA InstallBegins ==
  ASSUME InstallTypeOK, NEW p \in Process, BeginInstall(p)
  PROVE  /\ install' \in [Process -> InstallRecord]
         /\ \A q \in Process \ {p} : install'[q] = install[q]
         /\ install'[p].at = "release" /\ install'[p].result = install[p].result
         /\ exe \in File /\ Whole(exe)
         /\ install'[p].current = content[exe].version
         /\ content[exe].version \in Version
<1>1. install[p] \in InstallRecord BY InstallTypes
<1>2. exe \in File /\ Whole(exe) BY DEF BeginInstall, Whole, InstallTypeOK
<1>3. content[exe].version \in Version BY <1>2, InstallTypes DEF ContentRecord
<1> DEFINE begun == [install[p] EXCEPT !.at = "release", !.current = content[exe].version]
<1>4. begun \in InstallRecord BY <1>1, <1>3 DEF InstallRecord, Phase
<1>5. /\ begun.at = "release" /\ begun.result = install[p].result
      /\ begun.current = content[exe].version
  BY <1>1 DEF InstallRecord
<1>6. install' = [install EXCEPT ![p] = begun] BY DEF BeginInstall, InstallTypeOK
<1> HIDE DEF begun
<1> QED BY <1>2, <1>3, <1>4, <1>5, <1>6, OneInstall

\* FetchRelease: the release is later than the one installed.
LEMMA ReleaseFetched ==
  ASSUME InstallTypeOK, CheckTypeOK, NEW p \in Process, FetchRelease(p),
         ~Finish(p, "current")
  PROVE  /\ install' \in [Process -> InstallRecord]
         /\ \A q \in Process \ {p} : install'[q] = install[q]
         /\ install'[p].at = "download" /\ install'[p].result = install[p].result
         /\ install'[p].current = install[p].current
         /\ install'[p].latest = released /\ ~(install[p].current >= released)
<1>1. install[p] \in InstallRecord BY InstallTypes
<1> DEFINE fetched == [install[p] EXCEPT !.at = "download", !.latest = released]
<1>2. fetched \in InstallRecord BY <1>1 DEF InstallRecord, Phase, CheckTypeOK
<1>3. /\ fetched.at = "download" /\ fetched.result = install[p].result
      /\ fetched.current = install[p].current /\ fetched.latest = released
  BY <1>1 DEF InstallRecord
<1>4. /\ install' = [install EXCEPT ![p] = fetched]
      /\ ~(install[p].current >= released)
  BY DEF FetchRelease, InstallTypeOK
<1> HIDE DEF fetched
<1> QED BY <1>2, <1>3, <1>4, OneInstall

\* Download: manifest and archive are the project's, or not.
LEMMA Downloaded ==
  ASSUME InstallTypeOK, NEW p \in Process, Download(p)
  PROVE  /\ install' \in [Process -> InstallRecord]
         /\ \A q \in Process \ {p} : install'[q] = install[q]
         /\ install'[p].at = "provenance" /\ install'[p].result = install[p].result
         /\ install'[p].current = install[p].current
         /\ install'[p].latest = install[p].latest
<1>1. install[p] \in InstallRecord BY InstallTypes
<1>2. PICK manifest \in BOOLEAN, archive \in BOOLEAN :
        install' = [install EXCEPT ![p].at = "provenance", ![p].manifest = manifest,
                                   ![p].archive = archive]
  BY DEF Download
<1> DEFINE downloaded == [install[p] EXCEPT !.at = "provenance", !.manifest = manifest,
                                            !.archive = archive]
<1>3. downloaded \in InstallRecord BY <1>1 DEF InstallRecord, Phase
<1>4. /\ downloaded.at = "provenance" /\ downloaded.result = install[p].result
      /\ downloaded.current = install[p].current /\ downloaded.latest = install[p].latest
  BY <1>1 DEF InstallRecord
<1>5. install' = [install EXCEPT ![p] = downloaded] BY <1>2 DEF InstallTypeOK
<1> HIDE DEF downloaded
<1> QED BY <1>3, <1>4, <1>5, OneInstall

\* InspectBackup: what is found at the path of the executable is remembered.
LEMMA InspectionPassed ==
  ASSUME InstallTypeOK, NEW p \in Process, Inspected(p)
  PROVE  /\ install' \in [Process -> InstallRecord]
         /\ \A q \in Process \ {p} : install'[q] = install[q]
         /\ install'[p].at = "staging" /\ install'[p].result = install[p].result
         /\ install'[p].current = install[p].current
         /\ install'[p].latest = install[p].latest
         /\ install'[p].archive = install[p].archive
         /\ install'[p].found = exe
<1>1. install[p] \in InstallRecord BY InstallTypes
<1> DEFINE passed == [install[p] EXCEPT !.at = "staging", !.found = exe]
<1>2. passed \in InstallRecord BY <1>1 DEF InstallRecord, Phase, InstallTypeOK
<1>3. /\ passed.at = "staging" /\ passed.result = install[p].result
      /\ passed.current = install[p].current /\ passed.latest = install[p].latest
      /\ passed.archive = install[p].archive /\ passed.found = exe
  BY <1>1 DEF InstallRecord
<1>4. install' = [install EXCEPT ![p] = passed] BY DEF Inspected, InstallTypeOK
<1> HIDE DEF passed
<1> QED BY <1>2, <1>3, <1>4, OneInstall

\* OpenStaging: a file, truncated, with what the archive holds.
LEMMA StagingOpened ==
  ASSUME InstallTypeOK, NEW p \in Process, OpenStaging(p), install[p].latest \in Version
  PROVE  \E f \in File :
           /\ f = (IF staging = None THEN p ELSE staging)
           /\ staging' = f /\ content' \in [File -> ContentRecord]
           /\ \A g \in File \ {f} : content'[g] = content[g]
           /\ content'[f].version = install[p].latest /\ content'[f].by = p
           /\ content'[f].genuine = install[p].archive
           /\ install' \in [Process -> InstallRecord]
           /\ \A q \in Process \ {p} : install'[q] = install[q]
           /\ install'[p].at = "write" /\ install'[p].result = install[p].result
           /\ install'[p].current = install[p].current
           /\ install'[p].latest = install[p].latest
           /\ install'[p].archive = install[p].archive
           /\ install'[p].found = install[p].found
           /\ install'[p].file = f
<1>1. install[p] \in InstallRecord /\ staging \in File \cup {None}
      /\ content \in [File -> ContentRecord] /\ p \in File
  BY InstallTypes DEF File
<1>2. PICK f \in File : f = (IF staging = None THEN p ELSE staging)
  BY <1>1
<1> DEFINE opened == [install[p] EXCEPT !.at = "write", !.file = f]
           emptied == [version |-> install[p].latest, genuine |-> install[p].archive,
                       whole |-> FALSE, by |-> p]
<1>3. opened \in InstallRecord BY <1>1 DEF InstallRecord, Phase
<1>4. /\ opened.at = "write" /\ opened.result = install[p].result
      /\ opened.current = install[p].current /\ opened.latest = install[p].latest
      /\ opened.archive = install[p].archive /\ opened.found = install[p].found
      /\ opened.file = f
  BY <1>1 DEF InstallRecord
<1>5. install[p].archive \in BOOLEAN BY <1>1 DEF InstallRecord
<1>6. emptied \in ContentRecord BY <1>5 DEF ContentRecord
<1>7. /\ install' = [install EXCEPT ![p] = opened] /\ staging' = f
      /\ content' = [content EXCEPT ![f] = emptied]
  BY <1>2 DEF OpenStaging, InstallTypeOK
<1>8. emptied.version = install[p].latest /\ emptied.by = p
      /\ emptied.genuine = install[p].archive
  OBVIOUS
<1> HIDE DEF opened, emptied
<1>9. /\ content' \in [File -> ContentRecord] /\ content'[f] = emptied
      /\ \A g \in File \ {f} : content'[g] = content[g]
  BY <1>1, <1>6, <1>7
<1>10. /\ install' \in [Process -> InstallRecord] /\ install'[p] = opened
       /\ \A q \in Process \ {p} : install'[q] = install[q]
  BY <1>3, <1>7, OneInstall
<1> QED BY <1>2, <1>4, <1>7, <1>8, <1>9, <1>10

\* FinishWrite: the file is whole, or it is not.
LEMMA WriteFinished ==
  ASSUME InstallTypeOK, NEW p \in Process, FinishWrite(p), install[p].file \in File
  PROVE  LET f == install[p].file
         IN /\ content' \in [File -> ContentRecord]
            /\ \A g \in File \ {f} : content'[g] = content[g]
            /\ content'[f].version = content[f].version
            /\ content'[f].genuine = content[f].genuine
            /\ content[f].by = p /\ ~Mixing(p) => content'[f].whole = TRUE
<1>1. PICK f \in File : f = install[p].file OBVIOUS
<1>2. PICK whole \in BOOLEAN :
        /\ content[f].by = p /\ ~Mixing(p) => whole
        /\ content' = [content EXCEPT ![f].whole = whole]
  BY <1>1 DEF FinishWrite
<1>3. content \in [File -> ContentRecord] /\ content[f] \in ContentRecord
  BY InstallTypes
<1> DEFINE written == [content[f] EXCEPT !.whole = whole]
<1>4. written \in ContentRecord BY <1>3 DEF ContentRecord
<1>5. /\ written.version = content[f].version /\ written.genuine = content[f].genuine
      /\ written.whole = whole
  BY <1>3 DEF ContentRecord
<1>6. content' = [content EXCEPT ![f] = written] BY <1>2, <1>3
<1> HIDE DEF written
<1>7. content[f].by = p /\ ~Mixing(p) => whole = TRUE BY <1>2
<1> QED BY <1>1, <1>3, <1>4, <1>5, <1>6, <1>7

\* MoveIn: the installation ends with its releases.
LEMMA MovedIn ==
  ASSUME InstallTypeOK, NEW p \in Process, MoveIn(p)
  PROVE  /\ install' \in [Process -> InstallRecord]
         /\ \A q \in Process \ {p} : install'[q] = install[q]
         /\ install'[p].at = "done" /\ install'[p].result = "updated"
         /\ install'[p].current = install[p].current
         /\ install'[p].latest = install[p].latest
<1>1. install[p] \in InstallRecord BY InstallTypes
<1> DEFINE moved == [install[p] EXCEPT !.at = "done", !.file = None, !.found = None,
                                       !.result = "updated"]
<1>2. moved \in InstallRecord BY <1>1 DEF InstallRecord, Phase, Outcome
<1>3. /\ moved.at = "done" /\ moved.result = "updated"
      /\ moved.current = install[p].current /\ moved.latest = install[p].latest
  BY <1>1 DEF InstallRecord
<1>4. install' = [install EXCEPT ![p] = moved] BY DEF MoveIn
<1> HIDE DEF moved
<1> QED BY <1>2, <1>3, <1>4, OneInstall
\* What an installation learns before the inspection of the paths.
LEMMA InstallKeepsTypes ==
  ASSUME CheckAssumption, OriginalAssumption, CheckTypeOK, InstallTypeOK, InformedInv,
         NEW p \in Process, InstallStep(p) \/ BeginInstall(p)
  PROVE  InstallTypeOK' /\ InformedInv'
<1>0. /\ exe \in File \cup {None} /\ staging \in File \cup {None}
      /\ backup \in [Version -> File \cup {None}]
      /\ content \in [File -> ContentRecord] /\ overlap \in BOOLEAN
      /\ install \in [Process -> InstallRecord] /\ install[p] \in InstallRecord
      /\ Informed(p) /\ released \in Version
      /\ {"current", "failed", "died", "rollback failed"} \subseteq Outcome
      /\ None # "updated"
  BY InstallTypes DEF InformedInv, CheckTypeOK, Outcome, OriginalAssumption
<1>a. ASSUME install' \in [Process -> InstallRecord],
             \A q \in Process \ {p} : install'[q] = install[q],
             Informed(p)',
             exe' \in File \cup {None}, staging' \in File \cup {None},
             backup' \in [Version -> File \cup {None}],
             content' \in [File -> ContentRecord], overlap' \in BOOLEAN
      PROVE  InstallTypeOK' /\ InformedInv'
  <2>1. ASSUME NEW q \in Process PROVE Informed(q)'
    <3>1. CASE q = p BY <1>a, <3>1
    <3>2. CASE q # p
      <4>1. install'[q] = install[q] BY <1>a, <3>2
      <4> QED BY <4>1 DEF InformedInv, Informed
    <3> QED BY <3>1, <3>2
  <2>2. InstallTypeOK'
    BY <1>a DEF InstallTypeOK, InstallRecord, ContentRecord, Phase
  <2> QED BY <2>1, <2>2 DEF InformedInv
<1>b. ASSUME NEW result \in Outcome \ {"updated"}, Finish(p, result)
      PROVE  /\ install' \in [Process -> InstallRecord]
             /\ \A q \in Process \ {p} : install'[q] = install[q]
             /\ Informed(p)'
  BY <1>b, InstallFinishes DEF Informed
<1>c. ASSUME NEW at \in Phase \ {"write", "release", "download"}, Go(p, at),
             install[p].at \notin {"idle", "release", "done"}
      PROVE  /\ install' \in [Process -> InstallRecord]
             /\ \A q \in Process \ {p} : install'[q] = install[q]
             /\ Informed(p)'
  <2>1. /\ install' \in [Process -> InstallRecord]
        /\ \A q \in Process \ {p} : install'[q] = install[q]
        /\ install'[p].at = at /\ install'[p].current = install[p].current
        /\ install'[p].latest = install[p].latest
        /\ install'[p].result = install[p].result
    BY <1>c, InstallGoes
  <2> QED BY <1>0, <1>c, <2>1 DEF Informed
<1>d. ASSUME install'[p].at \in Phase \ {"idle", "done", "write"},
             install'[p].result = install[p].result, ~At(p, "done"),
             install'[p].current \in Version,
             install'[p].at # "release" => install'[p].latest \in Version
      PROVE  Informed(p)'
  BY <1>0, <1>d DEF Informed, At
<1>1. CASE BeginInstall(p)
  <2>1. UNCHANGED <<exe, staging, backup, content, overlap>> /\ ~At(p, "done")
    BY <1>1 DEF BeginInstall, At
  <2>2. Informed(p)' BY <1>1, <1>d, <2>1, InstallBegins DEF Phase
  <2> QED BY <1>0, <1>1, <1>a, <2>1, <2>2, InstallBegins
<1>2. CASE FetchRelease(p)
  <2>0. UNCHANGED <<exe, staging, backup, content, overlap>> /\ At(p, "release")
    BY <1>2 DEF FetchRelease
  <2>1. CASE Finish(p, "current") BY <1>0, <1>a, <1>b, <2>0, <2>1
  <2>2. CASE ~Finish(p, "current")
    <3>1. install[p].current \in Version BY <1>0, <2>0 DEF Informed, At
    <3>2. Informed(p)' BY <1>0, <1>2, <1>d, <2>0, <2>2, <3>1, ReleaseFetched DEF Phase, At
    <3> QED BY <1>0, <1>2, <1>a, <2>0, <2>2, <3>2, ReleaseFetched
  <2> QED BY <2>1, <2>2
<1>3. CASE Download(p)
  <2>0. UNCHANGED <<exe, staging, backup, content, overlap>> /\ At(p, "download")
    BY <1>3 DEF Download
  <2>1. install[p].current \in Version /\ install[p].latest \in Version
    BY <1>0, <2>0 DEF Informed, At
  <2>2. Informed(p)' BY <1>3, <1>d, <2>0, <2>1, Downloaded DEF Phase, At
  <2> QED BY <1>0, <1>3, <1>a, <2>0, <2>2, Downloaded
<1>4. CASE VerifyProvenance(p) \/ VerifyChecksum(p) \/ ValidateCandidate(p)
           \/ InspectStaging(p) \/ MoveInFails(p)
  <2>0. /\ UNCHANGED <<exe, staging, backup, content, overlap>>
        /\ install[p].at \notin {"idle", "release", "done"}
    BY <1>4 DEF VerifyProvenance, VerifyChecksum, ValidateCandidate, InspectStaging,
         MoveInFails, At
  <2>1. \/ Finish(p, "failed")
        \/ \E at \in Phase \ {"write", "release", "download"} : Go(p, at)
    BY <1>4 DEF VerifyProvenance, VerifyChecksum, ValidateCandidate, InspectStaging,
         MoveInFails, Phase
  <2> QED BY <1>0, <1>a, <1>b, <1>c, <2>0, <2>1
<1>5. CASE InspectBackup(p)
  <2>0. UNCHANGED <<exe, staging, backup, content>> /\ At(p, "inspect")
    BY <1>5 DEF InspectBackup
  <2>1. CASE Inspected(p)
    <3>1. overlap' \in BOOLEAN BY <2>1 DEF Inspected
    <3>2. install[p].current \in Version /\ install[p].latest \in Version
      BY <1>0, <2>0 DEF Informed, At
    <3>3. Informed(p)' BY <1>d, <2>0, <2>1, <3>2, InspectionPassed DEF Phase, At
    <3> QED BY <1>0, <1>a, <2>0, <2>1, <3>1, <3>3, InspectionPassed
  <2>2. CASE Finish(p, "failed") /\ UNCHANGED overlap
    BY <1>0, <1>a, <1>b, <2>0, <2>2
  <2> QED BY <1>5, <2>1, <2>2 DEF InspectBackup
<1>6. CASE OpenStaging(p)
  <2>0. UNCHANGED <<exe, backup, overlap>> /\ At(p, "open")
    BY <1>6 DEF OpenStaging
  <2>1. install[p].current \in Version /\ install[p].latest \in Version
    BY <1>0, <2>0 DEF Informed, At
  <2>2. PICK f \in File :
           /\ staging' = f /\ content' \in [File -> ContentRecord]
           /\ install' \in [Process -> InstallRecord]
           /\ \A q \in Process \ {p} : install'[q] = install[q]
           /\ install'[p].at = "write" /\ install'[p].result = install[p].result
           /\ install'[p].current = install[p].current
           /\ install'[p].latest = install[p].latest
           /\ install'[p].file = f
    BY <1>6, <2>1, StagingOpened
  <2>3. Informed(p)' BY <1>0, <2>0, <2>1, <2>2 DEF Informed, At
  <2> QED BY <1>0, <1>a, <2>0, <2>2, <2>3
<1>7. CASE FinishWrite(p)
  <2>0. UNCHANGED <<exe, staging, backup, overlap>> /\ At(p, "write") /\ Go(p, "unlink")
    BY <1>7 DEF FinishWrite
  <2>1. install[p].file \in File BY <1>0, <2>0 DEF Informed, At
  <2>2. content' \in [File -> ContentRecord] BY <1>7, <2>1, WriteFinished
  <2>3. /\ "unlink" \in Phase \ {"write", "release", "download"}
        /\ install[p].at \notin {"idle", "release", "done"}
    BY <2>0 DEF Phase, At
  <2> QED BY <1>0, <1>a, <1>c, <2>0, <2>2, <2>3
<1>8. CASE UnlinkBackup(p)
  <2>0. /\ UNCHANGED <<exe, staging, content, overlap>> /\ Go(p, "aside")
        /\ install[p].at = "unlink"
        /\ backup' = [backup EXCEPT ![install[p].current] = None]
    BY <1>8 DEF UnlinkBackup, At
  <2>1. backup' \in [Version -> File \cup {None}] BY <1>0, <2>0
  <2>2. "aside" \in Phase \ {"write", "release", "download"} BY DEF Phase
  <2> QED BY <1>0, <1>a, <1>c, <2>0, <2>1, <2>2
<1>12. CASE MoveAside(p)
  <2>0. /\ exe' = None /\ UNCHANGED <<staging, content, overlap>> /\ Go(p, "in")
        /\ install[p].at = "aside"
        /\ backup' = [backup EXCEPT ![install[p].current] = exe]
    BY <1>12 DEF MoveAside, At
  <2>1. backup' \in [Version -> File \cup {None}] BY <1>0, <2>0
  <2>2. "in" \in Phase \ {"write", "release", "download"} BY DEF Phase
  <2> QED BY <1>0, <1>a, <1>c, <2>0, <2>1, <2>2
<1>9. CASE MoveIn(p)
  <2>0. /\ exe' \in File \cup {None} /\ staging' = None /\ At(p, "in")
        /\ UNCHANGED <<backup, content, overlap>>
    BY <1>0, <1>9 DEF MoveIn
  <2>1. Informed(p)' BY <1>0, <1>9, <2>0, MovedIn DEF Informed, At
  <2> QED BY <1>0, <1>9, <1>a, <2>0, <2>1, MovedIn
<1>10. CASE Rollback(p)
  <2>0. /\ UNCHANGED <<staging, content, overlap>> /\ At(p, "rollback")
        /\ Finish(p, "failed") \/ Finish(p, "rollback failed")
    BY <1>10 DEF Rollback
  <2>1. install[p].current \in Version BY <1>0, <2>0 DEF Informed, At
  <2>2. exe' \in File \cup {None} /\ backup' \in [Version -> File \cup {None}]
    BY <1>0, <1>10, <2>1 DEF Rollback
  <2>3. {"failed", "rollback failed"} \subseteq Outcome \ {"updated"} BY DEF Outcome
  <2> QED BY <1>0, <1>a, <1>b, <2>0, <2>2, <2>3
<1>11. CASE InstallFails(p) \/ CrashInInstall(p)
  <2>0. /\ UNCHANGED <<exe, staging, backup, content, overlap>>
        /\ Finish(p, "failed") \/ Finish(p, "died")
    BY <1>11 DEF InstallFails, CrashInInstall
  <2> QED BY <1>0, <1>a, <1>b, <2>0
<1> QED
  BY <1>1, <1>2, <1>3, <1>4, <1>5, <1>6, <1>7, <1>8, <1>9, <1>10, <1>11,
     <1>12 DEF InstallStep
----------------------------------------------------------------------------
(* Installations that do not overlap.                                      *)

\* A file that is left alone stays the whole program it is.
LEMMA GoodFrame ==
  ASSUME NEW before, NEW after, NEW g, NEW f \in File \cup {None}, NEW v,
         \A h \in File \ {g} : after[h] = before[h], f # g, Good(before, f, v)
  PROVE  Good(after, f, v)
BY DEF Good

\* A step of one installation that touches no file and ends no update.
LEMMA LocalStep ==
  ASSUME Orderly, NEW p \in Process, UNCHANGED <<exe, staging, backup, content>>,
         \A q \in Process \ {p} : install'[q] = install[q],
         Installer(p)', ~Updated(p)',
         \A q \in Process \ {p} : Replacing(p)' => ~Replacing(q),
         \A q \in Process \ {p} : StandsAgainst(q, p)'
  PROVE  Orderly'
<1>1. ASSUME NEW q \in Process PROVE Installer(q)'
  <2>1. CASE q = p BY <2>1
  <2>2. CASE q # p
    <3>1. Installer(q) /\ install'[q] = install[q] BY <2>2 DEF Orderly
    <3>2. KeepsCurrent(q)' BY <3>1 DEF Installer, KeepsCurrent, Updated
    <3>3. Verified(q)' BY <3>1 DEF Installer, Verified, Updated
    <3>4. OwnFile(q)' /\ Stands(q)' BY <3>1 DEF Installer, OwnFile, Stands, Updated, At
    <3> QED BY <3>2, <3>3, <3>4 DEF Installer
  <2> QED BY <2>1, <2>2
<1>2. ASSUME NEW q \in Process PROVE Alone(q)'
  <2>1. ASSUME NEW r \in Process, Replacing(q)', Replacing(r)', q # r PROVE FALSE
    <3>1. q # p /\ r # p BY <2>1 DEF Replacing
    <3>2. Replacing(q) /\ Replacing(r) BY <2>1, <3>1 DEF Replacing
    <3> QED BY <2>1, <3>2 DEF Orderly, Alone
  <2> QED BY <2>1 DEF Alone
<1>3. ASSUME NEW q \in Process, NEW r \in Process PROVE StandsAgainst(q, r)'
  <2>1. CASE q = p BY <2>1 DEF StandsAgainst
  <2>2. CASE q # p /\ r = p BY <2>2
  <2>3. CASE q # p /\ r # p
    <3>1. StandsAgainst(q, r) BY DEF Orderly
    <3>2. install'[q] = install[q] /\ install'[r] = install[r] BY <2>3
    <3> QED BY <3>1, <3>2 DEF StandsAgainst, Updated, Replacing
  <2> QED BY <2>1, <2>2, <2>3
<1>4. exe' # None => Good(content, exe, content[exe].version)' BY DEF Orderly
<1>5. exe' = None => \E v \in Version : Good(content, backup[v], v)' BY DEF Orderly
<1> QED BY <1>1, <1>2, <1>3, <1>4, <1>5 DEF Orderly

\* An installation that ends without an update.
LEMMA EndsInOrder ==
  ASSUME Orderly, InstallTypeOK, NEW p \in Process,
         UNCHANGED <<exe, staging, backup, content>>,
         NEW result \in Outcome \ {"updated"}, Finish(p, result)
  PROVE  Orderly'
<1>1. /\ \A q \in Process \ {p} : install'[q] = install[q]
      /\ install'[p].at = "done" /\ install'[p].result # "updated"
  BY InstallFinishes
<1>2. ~Updated(p)' /\ ~Replacing(p)' BY <1>1 DEF Updated, Replacing
<1>3. KeepsCurrent(p)' BY <1>1, <1>2 DEF KeepsCurrent, Early, Preparing, Swapping
<1>4. Verified(p)' BY <1>1, <1>2 DEF Verified, Preparing, Swapping
<1>5. OwnFile(p)' /\ Stands(p)' BY <1>1, <1>2 DEF OwnFile, Stands, At, Early
<1>6. \A q \in Process \ {p} : StandsAgainst(q, p)'
  BY <1>1, <1>2 DEF StandsAgainst, Swapping
<1>7. Installer(p)' BY <1>3, <1>4, <1>5 DEF Installer
<1> QED BY <1>1, <1>2, <1>6, <1>7, LocalStep

\* An installation that goes on before the inspection of the paths: what it has
\* found out is added to what it knows.
LEMMA LearnsInOrder ==
  ASSUME Orderly, InstallTypeOK, NEW p \in Process,
         UNCHANGED <<exe, staging, backup, content>>,
         \A q \in Process \ {p} : install'[q] = install[q],
         ~Updated(p)', install'[p].at \in Early, install[p].at \in Early,
         install'[p].current = install[p].current,
         install'[p].at # "release" => install'[p].current < install'[p].latest,
         install'[p].at = "checksum" => install'[p].manifest,
         install'[p].at \in {"candidate", "inspect"} => install'[p].archive
  PROVE  Orderly'
<1>1. Installer(p) BY DEF Orderly
<1>2. KeepsCurrent(p)'
  BY <1>1 DEF Installer, KeepsCurrent, Early, Preparing, Swapping
<1>3. Verified(p)' BY DEF Verified, Early, Preparing, Swapping
<1>4. OwnFile(p)' /\ Stands(p)' BY <1>1 DEF Installer, OwnFile, Stands, At, Early
<1>5. ~Replacing(p)' BY DEF Replacing, Early
<1>6. \A q \in Process \ {p} : StandsAgainst(q, p)'
  BY <1>5 DEF StandsAgainst, Swapping, Early
<1>7. Installer(p)' BY <1>2, <1>3, <1>4 DEF Installer
<1> QED BY <1>5, <1>6, <1>7, LocalStep

\* BeginInstall: the release it runs is installed.
LEMMA BeginsInOrder ==
  ASSUME Orderly, InstallTypeOK, NEW p \in Process, BeginInstall(p), ~Updated(p)
  PROVE  Orderly'
<1>1. /\ \A q \in Process \ {p} : install'[q] = install[q]
      /\ install'[p].at = "release" /\ install'[p].result = install[p].result
      /\ exe \in File /\ Whole(exe) /\ install'[p].current = content[exe].version
  BY InstallBegins
<1>2. UNCHANGED <<exe, staging, backup, content>> /\ At(p, "idle")
  BY DEF BeginInstall
<1>3. Good(content, exe, content[exe].version) BY <1>1 DEF Good, Whole
<1>4. ~Updated(p)' /\ ~Replacing(p)' BY <1>1 DEF Updated, Replacing
<1>5. KeepsCurrent(p)'
  BY <1>1, <1>2, <1>3, <1>4 DEF KeepsCurrent, Early, Preparing, Swapping
<1>6. Verified(p)' BY <1>1, <1>4 DEF Verified, Preparing, Swapping
<1>7. OwnFile(p)' /\ Stands(p)'
  BY <1>1, <1>2, <1>4 DEF Orderly, Installer, OwnFile, Stands, At, Early
<1>8. \A q \in Process \ {p} : StandsAgainst(q, p)'
  BY <1>1, <1>4 DEF StandsAgainst, Swapping
<1>9. Installer(p)' BY <1>5, <1>6, <1>7 DEF Installer
<1> QED BY <1>1, <1>2, <1>4, <1>8, <1>9, LocalStep

\* An installation past its inspection is the only one.
LEMMA OnlyOneReplaces ==
  ASSUME Orderly, NEW p \in Process, Replacing(p)
  PROVE  \A q \in Process \ {p} : ~Replacing(q)
BY DEF Orderly, Alone

\* InspectBackup: there is no rollback copy of the release that is installed, so
\* it is at the executable's path, and no update has set it aside.
LEMMA InspectsInOrder ==
  ASSUME Orderly, InstallTypeOK, InformedInv, NEW p \in Process, At(p, "inspect"),
         UNCHANGED <<exe, staging, backup, content>>, ~Updated(p), Inspected(p),
         ~overlap', backup[install[p].current] = None
  PROVE  Orderly'
<1>1. /\ \A q \in Process \ {p} : install'[q] = install[q]
      /\ install'[p].at = "staging" /\ install'[p].result = install[p].result
      /\ install'[p].current = install[p].current
      /\ install'[p].latest = install[p].latest
      /\ install'[p].archive = install[p].archive
      /\ install'[p].found = exe
  BY InspectionPassed
<1>2. Installer(p) BY DEF Orderly
<1>3. Good(content, exe, install[p].current)
  BY <1>2 DEF Installer, KeepsCurrent, Early, At, Good
<1>4. ~Updated(p)' BY <1>1 DEF Updated
<1>5. \A q \in Process \ {p} : ~Replacing(q) BY DEF Inspected
<1>6. KeepsCurrent(p)'
  BY <1>1, <1>3, <1>4 DEF KeepsCurrent, Early, Preparing, Swapping
<1>7. Verified(p)'
  BY <1>1, <1>2, <1>4 DEF Installer, Verified, At, Preparing, Swapping
<1>8. OwnFile(p)' /\ Stands(p)'
  BY <1>1, <1>2, <1>4 DEF Installer, OwnFile, Stands, At, Early
<1>9. ASSUME NEW q \in Process \ {p} PROVE StandsAgainst(q, p)'
  <2>1. Installer(q) BY DEF Orderly
  <2>2. Updated(q) => backup[install[q].current] # None
    BY <2>1 DEF Installer, KeepsCurrent, Good
  <2> QED BY <1>1, <2>2 DEF StandsAgainst, Updated, Swapping
<1>10. Installer(p)' BY <1>6, <1>7, <1>8 DEF Installer
<1> QED BY <1>1, <1>4, <1>5, <1>9, <1>10, LocalStep

\* The other steps past the inspection that touch no file.
LEMMA ProceedsInOrder ==
  ASSUME Orderly, InstallTypeOK, NEW p \in Process, NEW at \in Phase,
         UNCHANGED <<exe, staging, backup, content>>, Go(p, at), ~Updated(p),
         \/ At(p, "staging") /\ at = "open" /\ staging = None
         \/ At(p, "unlink") /\ at = "aside"
         \/ At(p, "in") /\ at = "rollback"
  PROVE  Orderly'
<1>1. /\ \A q \in Process \ {p} : install'[q] = install[q]
      /\ install'[p].at = at
      /\ install'[p].current = install[p].current
      /\ install'[p].latest = install[p].latest
      /\ install'[p].archive = install[p].archive
      /\ install'[p].file = install[p].file
      /\ install'[p].found = install[p].found
      /\ install'[p].result = install[p].result
  BY InstallGoes
<1>2. Installer(p) /\ Replacing(p) BY DEF Orderly, Replacing, At
<1>3. ~Updated(p)' BY <1>1 DEF Updated
<1>4. KeepsCurrent(p)'
  BY <1>1, <1>2, <1>3 DEF Installer, KeepsCurrent, At, Early, Preparing, Swapping
<1>5. Verified(p)'
  BY <1>1, <1>2, <1>3 DEF Installer, Verified, At, Preparing, Swapping
<1>6. OwnFile(p)' /\ Stands(p)'
  BY <1>1, <1>2, <1>3 DEF Installer, OwnFile, Stands, At, Early
<1>7. ASSUME NEW q \in Process \ {p} PROVE StandsAgainst(q, p)'
  <2>1. StandsAgainst(q, p) BY DEF Orderly
  <2> QED BY <1>1, <1>2, <2>1 DEF StandsAgainst, Updated, At, Swapping
<1>8. Installer(p)' BY <1>4, <1>5, <1>6 DEF Installer
<1> QED BY <1>1, <1>2, <1>3, <1>7, <1>8, OnlyOneReplaces, LocalStep

\* A bystander is not past its inspection, has the files it needs where they were
\* or where they are now, and does not mind who has the staging file.
LEMMA Bystander ==
  ASSUME NEW q \in Process, Installer(q), ~Replacing(q), install'[q] = install[q],
         install[q].at \in Early =>
           \/ Good(content', exe', install[q].current)
           \/ Good(content', backup'[install[q].current], install[q].current),
         Updated(q) => Good(content', backup'[install[q].current], install[q].current),
         exe' # q \/ At(q, "done"), staging' # q \/ At(q, "done"),
         \A v \in Version : backup'[v] # q \/ At(q, "done"),
         Updated(q) /\ exe' # None => content'[exe'].version >= install[q].latest
  PROVE  Installer(q)'
<1>1. install[q].at \notin Preparing \cup Swapping
  BY DEF Replacing, Preparing, Swapping
<1>2. KeepsCurrent(q)' BY <1>1 DEF KeepsCurrent, Updated, Preparing, Swapping
<1>3. Verified(q)'
  BY <1>1 DEF Installer, Verified, Updated, Preparing, Swapping
<1>4. OwnFile(q)' BY DEF OwnFile, At, Early
<1>5. Stands(q)' BY DEF Stands, Updated
<1> QED BY <1>2, <1>3, <1>4, <1>5 DEF Installer

\* What has to hold of p and of the files after a step of p past its inspection.
LEMMA FileStep ==
  ASSUME Orderly, NEW p \in Process, Replacing(p),
         \A q \in Process \ {p} : install'[q] = install[q],
         exe' # None => Good(content', exe', content'[exe'].version),
         exe' = None => \E v \in Version : Good(content', backup'[v], v),
         \A q \in Process : Installer(q)',
         Updated(p)' => ~Replacing(p)',
         \A q \in Process \ {p} : StandsAgainst(q, p)'
  PROVE  Orderly'
<1>1. \A q \in Process \ {p} : ~Replacing(q)' BY OnlyOneReplaces DEF Replacing
<1>2. \A q \in Process : Alone(q)' BY <1>1 DEF Alone
<1>3. ASSUME NEW q \in Process, NEW r \in Process PROVE StandsAgainst(q, r)'
  <2>1. CASE r = p
    <3>1. CASE q = p BY <2>1, <3>1 DEF StandsAgainst, Replacing, Swapping
    <3>2. CASE q # p BY <2>1, <3>2
    <3> QED BY <3>1, <3>2
  <2>2. CASE r # p BY <1>1, <2>2 DEF StandsAgainst, Replacing, Swapping
  <2> QED BY <2>1, <2>2
<1>4. exe' # None => Good(content, exe, content[exe].version)' OBVIOUS
<1>5. exe' = None => \E v \in Version : Good(content, backup[v], v)' OBVIOUS
<1> QED BY <1>2, <1>3, <1>4, <1>5 DEF Orderly

\* OpenStaging and FinishWrite: Apply writes a file that is the installation's own,
\* which is neither the executable nor a rollback copy.
LEMMA WritesInOrder ==
  ASSUME CheckAssumption, OriginalAssumption, Orderly, InstallTypeOK, InformedInv,
         NEW p \in Process, ~Updated(p), OpenStaging(p) \/ FinishWrite(p)
  PROVE  Orderly'
<1>1. /\ Installer(p) /\ Replacing(p) /\ UNCHANGED <<exe, backup>>
      /\ install[p].at \in {"open", "write"}
      /\ exe \in File \cup {None} /\ \A v \in Version : backup[v] \in File \cup {None}
      /\ p \in File /\ p # None
      /\ install[p].current \in Version /\ install[p].latest \in Version
  BY InstallTypes DEF InformedInv, Informed, CheckAssumption, Orderly, Replacing, OpenStaging, FinishWrite, At, File
<1>2. exe # p /\ \A v \in Version : backup[v] # p
  BY <1>1 DEF Installer, OwnFile, At
<1>3. /\ \A g \in File \ {p} : content'[g] = content[g]
      /\ \A q \in Process \ {p} : install'[q] = install[q]
      /\ install'[p].result = install[p].result
      /\ install'[p].current = install[p].current
      /\ install'[p].latest = install[p].latest
      /\ install'[p].archive = install[p].archive
      /\ install'[p].found = install[p].found
      /\ install'[p].at \in {"write", "unlink"} /\ staging' = p
      /\ content'[p].version = install[p].latest /\ content'[p].genuine = TRUE
      /\ install'[p].at = "write" => install'[p].file = p /\ content'[p].by = p
      /\ install'[p].at = "unlink" => content'[p].whole = TRUE
  <2>1. CASE OpenStaging(p)
    <3>1. staging = None /\ install[p].archive = TRUE
      <4>1. At(p, "open") BY <2>1 DEF OpenStaging
      <4>2. install[p].archive \in BOOLEAN BY InstallTypes DEF InstallRecord
      <4> QED BY <1>1, <4>1, <4>2 DEF Installer, Verified, At, Preparing
    <3>2. PICK f \in File :
             /\ f = (IF staging = None THEN p ELSE staging)
             /\ staging' = f
             /\ \A g \in File \ {f} : content'[g] = content[g]
             /\ content'[f].version = install[p].latest /\ content'[f].by = p
             /\ content'[f].genuine = install[p].archive
             /\ \A q \in Process \ {p} : install'[q] = install[q]
             /\ install'[p].at = "write" /\ install'[p].result = install[p].result
             /\ install'[p].current = install[p].current
             /\ install'[p].latest = install[p].latest
             /\ install'[p].archive = install[p].archive
             /\ install'[p].found = install[p].found
             /\ install'[p].file = f
      BY <1>1, <2>1, StagingOpened
    <3> QED BY <3>1, <3>2
  <2>2. CASE FinishWrite(p)
    <3>1. /\ At(p, "write") /\ Go(p, "unlink") /\ UNCHANGED staging
      BY <2>2 DEF FinishWrite
    <3>2. content[p].genuine \in BOOLEAN BY <1>1, InstallTypes DEF ContentRecord
    <3>3. /\ staging = p /\ install[p].file = p /\ content[p].by = p
          /\ content[p].genuine = TRUE /\ content[p].version = install[p].latest
      BY <1>1, <3>1, <3>2 DEF Installer, Verified, At
    <3>4. ~Mixing(p)
      <4>1. \A q \in Process \ {p} : ~Replacing(q) BY <1>1, OnlyOneReplaces
      <4> QED BY <4>1 DEF Mixing, Replacing, At
    <3>5. /\ \A g \in File \ {p} : content'[g] = content[g]
          /\ content'[p].version = content[p].version
          /\ content'[p].genuine = content[p].genuine
          /\ content'[p].whole = TRUE
      BY <1>1, <2>2, <3>3, <3>4, WriteFinished
    <3>6. "unlink" \in Phase BY DEF Phase
    <3> QED BY <3>1, <3>3, <3>5, <3>6, InstallGoes
  <2> QED BY <2>1, <2>2
<1>4. ASSUME NEW f \in File \cup {None}, f # p, NEW v, Good(content, f, v)
      PROVE  Good(content', f, v)
  BY <1>3, <1>4, GoodFrame
<1>5. ~Updated(p)' BY <1>3 DEF Updated
<1>6. Installer(p)'
  <2>1. KeepsCurrent(p)'
    <3>1. /\ Good(content, exe, install[p].current) /\ install[p].found = exe
          /\ backup[install[p].current] = None
      BY <1>1 DEF Installer, KeepsCurrent, Preparing
    <3>2. Good(content', exe, install[p].current) BY <1>1, <1>2, <1>4, <3>1
    <3> QED BY <1>1, <1>3, <1>5, <3>1, <3>2 DEF KeepsCurrent, Early, Preparing, Swapping
  <2>2. Verified(p)'
    <3>1. install[p].current < install[p].latest /\ install[p].archive
      BY <1>1 DEF Installer, Verified, Preparing
    <3>2. install'[p].at = "unlink" => Good(content', p, install[p].latest)
      BY <1>1, <1>3 DEF Good, File, OriginalAssumption
    <3> QED BY <1>3, <1>5, <3>1, <3>2 DEF Verified, Preparing, Swapping
  <2>3. OwnFile(p)' /\ Stands(p)' BY <1>1, <1>2, <1>3, <1>5 DEF OwnFile, Stands, At, Early
  <2> QED BY <2>1, <2>2, <2>3 DEF Installer
<1>7. ASSUME NEW q \in Process \ {p} PROVE Installer(q)'
  <2>1. Installer(q) /\ ~Replacing(q) /\ install'[q] = install[q]
    BY <1>1, <1>3, OnlyOneReplaces DEF Orderly
  <2>2. install[q].at \in Early \/ Updated(q) => install[q].current \in Version
    BY DEF InformedInv, Informed, Early, Updated
  <2>3. ASSUME install[q].at \in Early \/ Updated(q), NEW v, v = install[q].current,
               Good(content, backup[v], v)
        PROVE  Good(content', backup'[v], v)
    <3>1. backup[v] \in File \cup {None} /\ backup[v] # p BY <1>1, <1>2, <2>2, <2>3
    <3> QED BY <1>1, <1>4, <2>3, <3>1
  <2>4. ASSUME NEW v, Good(content, exe, v) PROVE Good(content', exe', v)
    BY <1>1, <1>2, <1>4, <2>4
  <2>5. exe # None => content'[exe].version = content[exe].version
    BY <1>1, <1>2, <1>3
  <2>6. install[q].at \in Early =>
          \/ Good(content', exe', install[q].current)
          \/ Good(content', backup'[install[q].current], install[q].current)
    BY <2>1, <2>3, <2>4 DEF Installer, KeepsCurrent
  <2>7. Updated(q) => Good(content', backup'[install[q].current], install[q].current)
    BY <2>1, <2>3 DEF Installer, KeepsCurrent
  <2>8. /\ exe' # q \/ At(q, "done")
        /\ staging' # q
        /\ \A v \in Version : backup'[v] # q \/ At(q, "done")
    BY <1>1, <1>3, <2>1 DEF Installer, OwnFile
  <2>9. Updated(q) /\ exe' # None => content'[exe'].version >= install[q].latest
    BY <1>1, <2>1, <2>5 DEF Installer, Stands
  <2> QED BY <2>1, <2>6, <2>7, <2>8, <2>9, Bystander
<1>8. exe' # None => Good(content', exe', content'[exe'].version)
  BY <1>1, <1>2, <1>3, <1>4 DEF Orderly
<1>9. exe' = None => \E v \in Version : Good(content', backup'[v], v)
  <2> SUFFICES ASSUME exe = None PROVE \E v \in Version : Good(content', backup[v], v)
    BY <1>1
  <2>1. PICK v \in Version : Good(content, backup[v], v) BY DEF Orderly
  <2> QED BY <1>1, <1>2, <1>4, <2>1
<1>10. ASSUME NEW q \in Process \ {p} PROVE StandsAgainst(q, p)'
  <2>1. StandsAgainst(q, p) BY DEF Orderly
  <2> QED BY <1>1, <1>3, <2>1 DEF StandsAgainst, Updated, Swapping
<1> QED BY <1>1, <1>3, <1>5, <1>6, <1>7, <1>8, <1>9, <1>10, FileStep

\* MoveAside: the executable is what was found there, and no update had kept it
\* under the same name.
LEMMA MovesAsideInOrder ==
  ASSUME CheckAssumption, OriginalAssumption, Orderly, InstallTypeOK, InformedInv,
         NEW p \in Process, ~Updated(p), MoveAside(p)
  PROVE  Orderly'
<1>1. /\ Installer(p) /\ Replacing(p) /\ UNCHANGED <<staging, content>>
      /\ At(p, "aside") /\ exe # None /\ exe' = None
      /\ backup' = [backup EXCEPT ![install[p].current] = exe]
      /\ Go(p, "in") /\ install[p].current \in Version
      /\ backup \in [Version -> File \cup {None}]
  BY InstallTypes DEF InformedInv, Informed, Orderly, Replacing, MoveAside, At
<1>2. PICK c \in Version : c = install[p].current BY <1>1
<1>3. PICK f : f = exe OBVIOUS
<1>4. /\ backup[c] = None /\ backup'[c] = f
      /\ \A v \in Version \ {c} : backup'[v] = backup[v]
      /\ Good(content, f, c) /\ install[p].found = f
      /\ content[f].version = c
  BY <1>1, <1>2, <1>3 DEF Installer, KeepsCurrent, Preparing, At, Good
<1>5. /\ \A q \in Process \ {p} : install'[q] = install[q]
      /\ install'[p].at = "in"
      /\ install'[p].current = c
      /\ install'[p].latest = install[p].latest
      /\ install'[p].archive = install[p].archive
      /\ install'[p].found = f
      /\ install'[p].result = install[p].result
  <2>1. "in" \in Phase BY DEF Phase
  <2> QED BY <1>1, <1>2, <1>4, <2>1, InstallGoes
<1>6. ~Updated(p)' BY <1>5 DEF Updated
<1>7. ASSUME NEW v \in Version, NEW q \in Process, v = install[q].current,
             Good(content, f, v) \/ Good(content, backup[v], v)
      PROVE  Good(content', backup'[v], v)
  <2>1. CASE v = c BY <1>1, <1>4, <2>1
  <2>2. CASE v # c
    <3>1. ~Good(content, f, v) BY <1>4, <2>2 DEF Good
    <3> QED BY <1>1, <1>4, <1>7, <2>2, <3>1
  <2> QED BY <2>1, <2>2
<1>8. Installer(p)'
  <2>1. KeepsCurrent(p)'
    BY <1>1, <1>4, <1>5, <1>6 DEF KeepsCurrent, Early, Preparing, Swapping
  <2>2. Verified(p)'
    BY <1>1, <1>2, <1>5, <1>6 DEF Installer, Verified, At, Preparing, Swapping
  <2>3. OwnFile(p)'
    <3>1. p # None BY DEF CheckAssumption
    <3>2. f # p /\ \A v \in Version : backup[v] # p
      BY <1>1, <1>3 DEF Installer, OwnFile, At
    <3> QED BY <1>1, <1>4, <1>5, <3>1, <3>2 DEF OwnFile, At, Early
  <2>4. Stands(p)' BY <1>6 DEF Stands
  <2> QED BY <2>1, <2>2, <2>3, <2>4 DEF Installer
<1>9. ASSUME NEW q \in Process \ {p} PROVE Installer(q)'
  <2>1. Installer(q) /\ ~Replacing(q) /\ install'[q] = install[q]
    BY <1>1, <1>5, OnlyOneReplaces DEF Orderly
  <2>2. install[q].at \in Early \/ Updated(q) => install[q].current \in Version
    BY DEF InformedInv, Informed, Early, Updated
  <2>3. install[q].at \in Early \/ Updated(q) =>
          Good(content', backup'[install[q].current], install[q].current)
    BY <1>3, <1>7, <2>1, <2>2 DEF Installer, KeepsCurrent
  <2>4. /\ exe' # q \/ At(q, "done")
        /\ staging' # q \/ At(q, "done")
        /\ \A v \in Version : backup'[v] # q \/ At(q, "done")
    <3>1. q # None BY DEF CheckAssumption
    <3>2. staging # q
      <4>1. staging = p BY <1>1 DEF Installer, Verified, At
      <4> QED BY <4>1
    <3> QED BY <1>1, <1>3, <1>4, <2>1, <3>1, <3>2 DEF Installer, OwnFile
  <2>5. Updated(q) /\ exe' # None => content'[exe'].version >= install[q].latest
    BY <1>1
  <2> QED BY <2>1, <2>3, <2>4, <2>5, Bystander
<1>10. ASSUME NEW q \in Process \ {p} PROVE StandsAgainst(q, p)'
  <2>1. StandsAgainst(q, p) BY DEF Orderly
  <2>2. Updated(q) => c >= install[q].latest
    <3>1. Stands(q) BY DEF Orderly, Installer
    <3> QED BY <1>1, <1>3, <1>4, <3>1 DEF Stands
  <2> QED BY <1>1, <1>2, <1>5, <2>1, <2>2 DEF StandsAgainst, Updated
<1>11. \E v \in Version : Good(content', backup'[v], v)
  BY <1>1, <1>4
<1> QED BY <1>1, <1>5, <1>6, <1>8, <1>9, <1>10, <1>11, FileStep

\* MoveIn: what is installed is later than what was set aside, which in turn is
\* no earlier than what any update before had installed.
LEMMA MovesInInOrder ==
  ASSUME CheckAssumption, OriginalAssumption, Orderly, InstallTypeOK, InformedInv,
         NEW p \in Process, MoveIn(p)
  PROVE  Orderly'
<1>1. /\ Installer(p) /\ Replacing(p) /\ UNCHANGED <<backup, content>>
      /\ At(p, "in") /\ exe = None /\ exe' = p /\ staging' = None /\ staging = p
      /\ install[p].current \in Version /\ install[p].latest \in Version
      /\ install[p].current < install[p].latest
      /\ Good(content, p, install[p].latest)
      /\ Good(content, install[p].found, install[p].current)
      /\ backup[install[p].current] = install[p].found
  <2>1. /\ Installer(p) /\ Replacing(p) /\ UNCHANGED <<backup, content>>
        /\ At(p, "in") /\ exe' = staging /\ staging' = None
        /\ install[p].current \in Version /\ install[p].latest \in Version
    BY DEF InformedInv, Informed, Orderly, Replacing, MoveIn, At
  <2>2. staging = p /\ Good(content, p, install[p].latest)
        /\ install[p].current < install[p].latest
    BY <2>1 DEF Installer, Verified, At, Swapping
  <2>3. /\ exe = None /\ Good(content, install[p].found, install[p].current)
        /\ backup[install[p].current] = install[p].found
    BY <2>1 DEF Installer, KeepsCurrent, At, Swapping
  <2> QED BY <2>1, <2>2, <2>3
<1>2. /\ \A q \in Process \ {p} : install'[q] = install[q]
      /\ install'[p].at = "done" /\ install'[p].result = "updated"
      /\ install'[p].current = install[p].current
      /\ install'[p].latest = install[p].latest
  BY MovedIn
<1>3. p # None /\ content'[p].version = install[p].latest
  BY <1>1 DEF CheckAssumption, Good
<1>4. Installer(p)'
  <2>1. KeepsCurrent(p)'
    BY <1>1, <1>2 DEF KeepsCurrent, Early, Preparing, Swapping
  <2>2. Verified(p)' BY <1>1, <1>2 DEF Verified, Preparing, Swapping
  <2>3. OwnFile(p)' BY <1>2 DEF OwnFile, At, Early
  <2>4. content'[exe'].version >= install'[p].latest
    BY <1>1, <1>2, <1>3 DEF Version
  <2>5. Stands(p)' BY <2>4 DEF Stands
  <2> QED BY <2>1, <2>2, <2>3, <2>5 DEF Installer
<1>5. ASSUME NEW q \in Process \ {p} PROVE Installer(q)'
  <2>1. Installer(q) /\ ~Replacing(q) /\ install'[q] = install[q]
    BY <1>1, <1>2, OnlyOneReplaces DEF Orderly
  <2>2. install[q].at \in Early =>
          Good(content', backup'[install[q].current], install[q].current)
    BY <1>1, <2>1 DEF Installer, KeepsCurrent, Good
  <2>3. Updated(q) => Good(content', backup'[install[q].current], install[q].current)
    BY <1>1, <2>1 DEF Installer, KeepsCurrent
  <2>4. /\ exe' # q /\ staging' # q
        /\ \A v \in Version : backup'[v] # q \/ At(q, "done")
    <3>1. q # None BY DEF CheckAssumption
    <3> QED BY <1>1, <2>1, <3>1 DEF Installer, OwnFile
  <2>5. Updated(q) => content'[exe'].version >= install[q].latest
    <3>1. ASSUME Updated(q)
          PROVE  install[p].current >= install[q].latest /\ install[q].latest \in Version
      <4>1. StandsAgainst(q, p) /\ Informed(q) BY DEF Orderly, InformedInv
      <4> QED BY <1>1, <3>1, <4>1 DEF StandsAgainst, Informed, Updated, At, Swapping
    <3>2. content'[exe'].version = install[p].latest BY <1>1, <1>3
    <3>3. ASSUME NEW a \in Version, NEW b \in Version, NEW c \in Version, a < b, a >= c
          PROVE  b >= c
      BY <3>3 DEF Version
    <3> QED BY <1>1, <3>1, <3>2, <3>3
  <2> QED BY <2>1, <2>2, <2>3, <2>4, <2>5, Bystander
<1>6. ~Replacing(p)' BY <1>2 DEF Replacing
<1>7. \A q \in Process \ {p} : StandsAgainst(q, p)'
  BY <1>2, <1>6 DEF StandsAgainst, Swapping
<1>8. Good(content', exe', content'[exe'].version) BY <1>1, <1>3
<1> QED BY <1>1, <1>3, <1>2, <1>4, <1>5, <1>6, <1>7, <1>8, FileStep

\* Rollback: what was found is moved back.
LEMMA RollsBackInOrder ==
  ASSUME CheckAssumption, OriginalAssumption, Orderly, InstallTypeOK, InformedInv,
         NEW p \in Process, At(p, "rollback"),
         backup[install[p].current] # None, exe' = backup[install[p].current],
         backup' = [backup EXCEPT ![install[p].current] = None],
         Finish(p, "failed"), UNCHANGED <<staging, content>>
  PROVE  Orderly'
<1>1. /\ Installer(p) /\ Replacing(p) /\ install[p].current \in Version
      /\ backup \in [Version -> File \cup {None}]
  BY InstallTypes DEF InformedInv, Informed, Orderly, Replacing, At
<1>2. PICK c \in Version : c = install[p].current BY <1>1
<1>3. PICK f : f = backup[c] OBVIOUS
<1>4. /\ exe = None /\ exe' = f /\ f # None /\ Good(content, f, c)
      /\ content[f].version = c
      /\ backup'[c] = None /\ \A v \in Version \ {c} : backup'[v] = backup[v]
  BY <1>1, <1>2, <1>3 DEF Installer, KeepsCurrent, Swapping, At, Good
<1>5. /\ \A q \in Process \ {p} : install'[q] = install[q]
      /\ install'[p].at = "done" /\ install'[p].result = "failed"
  BY InstallFinishes DEF Outcome
<1>6. ~Updated(p)' /\ ~Replacing(p)' BY <1>5 DEF Updated, Replacing
<1>7. Installer(p)'
  <2>1. KeepsCurrent(p)' BY <1>5, <1>6 DEF KeepsCurrent, Early, Preparing, Swapping
  <2>2. Verified(p)' BY <1>5, <1>6 DEF Verified, Preparing, Swapping
  <2>3. OwnFile(p)' /\ Stands(p)' BY <1>5, <1>6 DEF OwnFile, Stands, At, Early
  <2> QED BY <2>1, <2>2, <2>3 DEF Installer
<1>8. ASSUME NEW q \in Process \ {p} PROVE Installer(q)'
  <2>1. Installer(q) /\ ~Replacing(q) /\ install'[q] = install[q]
    BY <1>1, <1>5, OnlyOneReplaces DEF Orderly
  <2>2. install[q].at \in Early \/ Updated(q) => install[q].current \in Version
    BY DEF InformedInv, Informed, Early, Updated
  <2>3. ASSUME install[q].at \in Early
        PROVE  \/ Good(content', exe', install[q].current)
               \/ Good(content', backup'[install[q].current], install[q].current)
    <3>1. Good(content, backup[install[q].current], install[q].current)
      BY <1>4, <2>1, <2>3 DEF Installer, KeepsCurrent, Good
    <3>2. CASE install[q].current = c BY <1>4, <3>2
    <3>3. CASE install[q].current # c BY <1>4, <2>2, <2>3, <3>1, <3>3
    <3> QED BY <3>2, <3>3
  <2>4. Updated(q) =>
          /\ Good(content', backup'[install[q].current], install[q].current)
          /\ c >= install[q].latest
    <3> SUFFICES ASSUME Updated(q)
                 PROVE  /\ Good(content', backup'[install[q].current], install[q].current)
                        /\ c >= install[q].latest
      OBVIOUS
    <3>1. install[q].current # c /\ c >= install[q].latest
      <4>1. StandsAgainst(q, p) BY DEF Orderly
      <4> QED BY <1>1, <1>2, <4>1 DEF StandsAgainst, At, Swapping
    <3>2. Good(content, backup[install[q].current], install[q].current)
      BY <2>1 DEF Installer, KeepsCurrent
    <3> QED BY <1>4, <2>2, <3>1, <3>2
  <2>5. /\ exe' # q \/ At(q, "done")
        /\ staging' # q \/ At(q, "done")
        /\ \A v \in Version : backup'[v] # q \/ At(q, "done")
    <3>1. q # None BY DEF CheckAssumption
    <3>2. install[q].at \in {"idle", "done"} \cup Early
      <4>1. install[q].at \in Phase BY InstallTypes DEF InstallRecord
      <4> QED BY <2>1, <4>1 DEF Replacing, Phase, Early
    <3> QED BY <1>3, <1>4, <2>1, <3>1, <3>2 DEF Installer, OwnFile, At
  <2>6. Updated(q) /\ exe' # None => content'[exe'].version >= install[q].latest
    BY <1>4, <2>4
  <2> QED BY <2>1, <2>3, <2>4, <2>5, <2>6, Bystander
<1>9. \A q \in Process \ {p} : StandsAgainst(q, p)'
  BY <1>5, <1>6 DEF StandsAgainst, Swapping
<1>10. Good(content', exe', content'[exe'].version) BY <1>4
<1> QED BY <1>1, <1>4, <1>5, <1>6, <1>7, <1>8, <1>9, <1>10, FileStep

\* An installation does not touch the locals of another.
LEMMA OthersInstall ==
  ASSUME NEW p \in Process, NEW q \in Process, p # q, InstallTypeOK,
         InstallStep(q) \/ BeginInstall(q)
  PROVE  install'[p] = install[p]
BY DEF InstallTypeOK, InstallStep, BeginInstall, FetchRelease, Download, VerifyProvenance,
   VerifyChecksum, ValidateCandidate, InspectBackup, Inspected, InspectStaging,
   OpenStaging, FinishWrite, UnlinkBackup, MoveAside, MoveIn, MoveInFails, Rollback,
   InstallFails, CrashInInstall, Go, Finish

\* Every step of an installation, its beginning included, keeps installations in
\* order as long as no two have overlapped.
LEMMA InstallInvariant ==
  ASSUME CheckAssumption, OriginalAssumption, CheckTypeOK, InstallTypeOK, InformedInv,
         InstallInv, NEW p \in Process, InstallStep(p) \/ BeginInstall(p)
  PROVE  InstallInv'
<1> SUFFICES ASSUME ~overlap' PROVE Orderly' BY DEF InstallInv
<1>1. ~overlap
  BY DEF InstallStep, BeginInstall, FetchRelease, Download, VerifyProvenance,
     VerifyChecksum, ValidateCandidate, InspectBackup, Inspected, InspectStaging,
     OpenStaging, FinishWrite, UnlinkBackup, MoveAside, MoveIn, MoveInFails, Rollback,
     InstallFails, CrashInInstall
<1>2. Orderly /\ Informed(p) /\ Installer(p)
  BY <1>1 DEF InstallInv, Orderly, InformedInv
<1>3. install[p].at # "done" => ~Updated(p)
  BY <1>2 DEF Informed, Updated, OriginalAssumption, Outcome
<1>4. {"current", "failed", "died", "rollback failed"} \subseteq Outcome \ {"updated"}
  BY DEF Outcome
<1>5. /\ install[p] \in InstallRecord
      /\ install[p].manifest \in BOOLEAN /\ install[p].archive \in BOOLEAN
  BY InstallTypes DEF InstallRecord
<1>f. ASSUME UNCHANGED <<exe, staging, backup, content>>,
             \E result \in Outcome \ {"updated"} : Finish(p, result)
      PROVE  Orderly'
  BY <1>2, <1>f, EndsInOrder
<1>6. CASE BeginInstall(p)
  BY <1>2, <1>3, <1>6, BeginsInOrder DEF BeginInstall, At
<1>7. CASE FetchRelease(p)
  <2>1. CASE Finish(p, "current") BY <1>4, <1>7, <1>f, <2>1 DEF FetchRelease
  <2>2. CASE ~Finish(p, "current")
    <3>1. /\ \A q \in Process \ {p} : install'[q] = install[q]
          /\ install'[p].at = "download" /\ install'[p].result = install[p].result
          /\ install'[p].current = install[p].current
          /\ install'[p].latest = released /\ ~(install[p].current >= released)
          /\ install[p].at = "release"
          /\ UNCHANGED <<exe, staging, backup, content>>
      BY <1>7, <2>2, ReleaseFetched DEF FetchRelease, At
    <3>3. install[p].current < released
      <4>1. install[p].current \in Version /\ released \in Version
        BY <1>2, <3>1 DEF Informed, CheckTypeOK
      <4> QED BY <3>1, <4>1 DEF Version
    <3>2. ~Updated(p)' BY <1>3, <3>1 DEF Updated
    <3> QED BY <1>2, <3>1, <3>2, <3>3, LearnsInOrder DEF Early
  <2> QED BY <2>1, <2>2
<1>8. CASE Download(p)
  <2>1. /\ \A q \in Process \ {p} : install'[q] = install[q]
        /\ install'[p].at = "provenance" /\ install'[p].result = install[p].result
        /\ install'[p].current = install[p].current
        /\ install'[p].latest = install[p].latest
        /\ install[p].at = "download"
        /\ UNCHANGED <<exe, staging, backup, content>>
    BY <1>8, Downloaded DEF Download, At
  <2>2. ~Updated(p)' BY <1>3, <2>1 DEF Updated
  <2>3. install[p].current < install[p].latest
    BY <1>2, <2>1 DEF Installer, Verified
  <2> QED BY <1>2, <2>1, <2>2, <2>3, LearnsInOrder DEF Early
<1>9. CASE VerifyProvenance(p) \/ VerifyChecksum(p) \/ ValidateCandidate(p)
  <2>1. /\ UNCHANGED <<exe, staging, backup, content>>
        /\ install[p].at \in {"provenance", "checksum", "candidate"}
    BY <1>9 DEF VerifyProvenance, VerifyChecksum, ValidateCandidate, At
  <2>2. CASE Finish(p, "failed") BY <1>4, <1>f, <2>1, <2>2
  <2>3. ASSUME NEW at \in {"checksum", "candidate", "inspect"}, Go(p, at),
               at = "checksum" => install[p].manifest,
               at \in {"candidate", "inspect"} => install[p].archive
        PROVE  Orderly'
    <3>1. at \in Phase BY DEF Phase
    <3>2. /\ \A q \in Process \ {p} : install'[q] = install[q]
          /\ install'[p].at = at
          /\ install'[p].current = install[p].current
          /\ install'[p].latest = install[p].latest
          /\ install'[p].manifest = install[p].manifest
          /\ install'[p].archive = install[p].archive
          /\ install'[p].result = install[p].result
      BY <2>3, <3>1, InstallGoes
    <3>3. ~Updated(p)' BY <1>3, <2>1, <3>2 DEF Updated
    <3>4. install[p].current < install[p].latest
      BY <1>2, <2>1 DEF Installer, Verified
    <3> QED BY <1>2, <2>1, <2>3, <3>2, <3>3, <3>4, LearnsInOrder DEF Early
  <2>4. CASE VerifyProvenance(p) /\ ~Finish(p, "failed")
    BY <2>3, <2>4 DEF VerifyProvenance
  <2>5. CASE VerifyChecksum(p) /\ ~Finish(p, "failed")
    <3>1. install[p].manifest
      BY <1>2, <2>5 DEF VerifyChecksum, Installer, Verified, At
    <3> QED BY <2>3, <2>5, <3>1 DEF VerifyChecksum
  <2>6. CASE ValidateCandidate(p)
    <3>1. install[p].archive
      BY <1>2, <2>6 DEF ValidateCandidate, Installer, Verified, At
    <3> QED BY <2>3, <2>6, <3>1 DEF ValidateCandidate
  <2> QED BY <1>9, <2>2, <2>4, <2>5, <2>6
<1>10. CASE InspectBackup(p)
  <2>1. CASE Finish(p, "failed") BY <1>4, <1>10, <1>f, <2>1 DEF InspectBackup
  <2>2. CASE ~Finish(p, "failed")
    BY <1>2, <1>3, <1>10, <2>2, InspectsInOrder DEF InspectBackup, At
  <2> QED BY <2>1, <2>2
<1>11. CASE InspectStaging(p)
  <2>1. CASE staging = None
    <3>1. "open" \in Phase BY DEF Phase
    <3> QED BY <1>2, <1>3, <1>11, <2>1, <3>1, ProceedsInOrder DEF InspectStaging, At
  <2>2. CASE staging # None BY <1>4, <1>11, <1>f, <2>2 DEF InspectStaging
  <2> QED BY <2>1, <2>2
<1>12. CASE OpenStaging(p) \/ FinishWrite(p)
  BY <1>2, <1>3, <1>12, WritesInOrder DEF OpenStaging, FinishWrite, At
<1>13. CASE UnlinkBackup(p)
  <2>1. "aside" \in Phase BY DEF Phase
  <2>2. backup' = backup
    <3>1. backup[install[p].current] = None
      BY <1>2, <1>13 DEF UnlinkBackup, Installer, KeepsCurrent, Preparing, At
    <3> QED BY <1>13, <3>1, InstallTypes DEF UnlinkBackup
  <2> QED BY <1>2, <1>3, <1>13, <2>1, <2>2, ProceedsInOrder DEF UnlinkBackup, At
<1>14. CASE MoveAside(p)
  BY <1>2, <1>3, <1>14, MovesAsideInOrder DEF MoveAside, At
<1>15. CASE MoveIn(p)
  BY <1>2, <1>15, MovesInInOrder
<1>16. CASE MoveInFails(p)
  <2>1. "rollback" \in Phase BY DEF Phase
  <2> QED BY <1>2, <1>3, <1>16, <2>1, ProceedsInOrder DEF MoveInFails, At
<1>17. CASE Rollback(p)
  <2>1. CASE Finish(p, "failed") /\ ~(Finish(p, "rollback failed") /\ UNCHANGED <<exe, backup>>)
    BY <1>2, <1>17, <2>1, RollsBackInOrder DEF Rollback
  <2>2. CASE Finish(p, "rollback failed") /\ UNCHANGED <<exe, backup>>
    BY <1>4, <1>17, <1>f, <2>2 DEF Rollback
  <2> QED BY <1>17, <2>1, <2>2 DEF Rollback
<1>18. CASE InstallFails(p) \/ CrashInInstall(p)
  BY <1>4, <1>18, <1>f DEF InstallFails, CrashInInstall
<1> QED
  BY <1>6, <1>7, <1>8, <1>9, <1>10, <1>11, <1>12, <1>13, <1>14, <1>15, <1>16, <1>17,
     <1>18 DEF InstallStep
----------------------------------------------------------------------------
(* The whole.                                                              *)

UpdateInv ==
  UpdateTypeOK /\ InformedInv /\ LockInv /\ RecentInv /\ InstallInv

\* No lock, nothing cached and nobody installing: the first executable is whole.
LEMMA UpdateBegins ==
  ASSUME CheckAssumption, OriginalAssumption, Init
  PROVE  UpdateInv
<1>1. /\ 0 \in Time /\ \A p \in Process : check[p] = NoCheck /\ install[p] = NoInstall
      /\ released \in Version /\ base = [t \in Time |-> released] /\ clock = 0
      /\ cache = None /\ lockFile = None /\ lost = {} /\ direct \in BOOLEAN
      /\ check = [p \in Process |-> NoCheck] /\ install = [p \in Process |-> NoInstall]
  BY DEF Init, CheckInit, InstallInit, Time, CheckAssumption
<1>2. CheckTypeOK
  <2>1. NoCheck \in CheckRecord BY <1>1 DEF NoCheck, CheckRecord
  <2> QED BY <1>1, <2>1 DEF CheckTypeOK, CheckRecord
<1>3. InstallTypeOK
  <2>1. NoInstall \in InstallRecord BY DEF NoInstall, InstallRecord, Phase
  <2>2. /\ exe = Original /\ staging = None /\ overlap = FALSE
        /\ backup = [v \in Version |-> None]
        /\ content = [f \in File |-> [version |-> released, genuine |-> TRUE,
                                      whole |-> f = Original, by |-> None]]
    BY DEF Init, InstallInit
  <2>3. ASSUME NEW f \in File
        PROVE  [version |-> released, genuine |-> TRUE, whole |-> f = Original,
                by |-> None] \in ContentRecord
    BY <1>1 DEF ContentRecord
  <2>4. content \in [File -> ContentRecord] BY <2>2, <2>3
  <2>5. install \in [Process -> InstallRecord] BY <1>1, <2>1
  <2>6. backup \in [Version -> File \cup {None}] BY <2>2
  <2> QED BY <2>2, <2>4, <2>5, <2>6, InstallTypes DEF File
<1>4. InformedInv
  BY <1>1 DEF InformedInv, Informed, NoInstall, OriginalAssumption, Outcome
<1>5. LockInv BY <1>1 DEF LockInv, Holding, NoCheck
<1>6. RecentInv BY <1>1 DEF RecentInv, NoCheck, AsOf, Version, Time
<1>7. InstallInv
  <2>1. /\ exe = Original /\ staging = None
        /\ \A v \in Version : backup[v] = None
        /\ content[Original].version = released
        /\ content[Original].genuine /\ content[Original].whole
    BY DEF Init, InstallInit, File
  <2>2. Good(content, exe, content[exe].version)
    BY <2>1 DEF Good, OriginalAssumption
  <2>3. ASSUME NEW p \in Process
        PROVE  /\ install[p].at = "idle" /\ ~Updated(p) /\ ~Replacing(p)
               /\ exe # p /\ staging # p /\ p # None
    BY <1>1, <2>1 DEF NoInstall, Updated, Replacing, OriginalAssumption, CheckAssumption,
       Outcome
  <2>4. ASSUME NEW p \in Process PROVE Installer(p)
    BY <2>1, <2>3 DEF Installer, KeepsCurrent, Verified, OwnFile, Stands, Early,
       Preparing, Swapping
  <2>5. \A p \in Process : Alone(p) BY <2>3 DEF Alone
  <2>6. \A p, q \in Process : StandsAgainst(p, q) BY <2>3 DEF StandsAgainst
  <2> QED BY <2>1, <2>2, <2>4, <2>5, <2>6 DEF InstallInv, Orderly, OriginalAssumption
<1> QED BY <1>1, <1>2, <1>3, <1>4, <1>5, <1>6, <1>7 DEF UpdateInv, UpdateTypeOK

\* Nothing about installations changes with the clock, the releases that are out
\* and the checks of others.
LEMMA InstallFrame ==
  ASSUME InstallTypeOK, InformedInv, InstallInv, UNCHANGED installVars
  PROVE  InstallTypeOK' /\ InformedInv' /\ InstallInv'
<1>1. InstallTypeOK' BY DEF InstallTypeOK, installVars
<1>2. InformedInv' BY DEF InformedInv, Informed, installVars
<1>3. InstallInv'
  BY DEF InstallInv, Orderly, Alone, Installer, KeepsCurrent, Verified, OwnFile, Stands,
     StandsAgainst, Updated, Replacing, At, installVars
<1> QED BY <1>1, <1>2, <1>3

\* Checks are not changed by installations.
LEMMA CheckFrame ==
  ASSUME CheckTypeOK, LockInv, RecentInv, UNCHANGED <<worldVars, checkVars>>
  PROVE  CheckTypeOK' /\ LockInv' /\ RecentInv'
<1>1. CheckTypeOK' BY DEF CheckTypeOK, worldVars, checkVars
<1>2. LockInv' BY DEF LockInv, Holding, checkVars
<1>3. RecentInv' BY DEF RecentInv, AsOf, worldVars, checkVars
<1> QED BY <1>1, <1>2, <1>3

\* Whatever a process does, and whatever is released or becomes of the time.
LEMMA UpdateGoesOn ==
  ASSUME CheckAssumption, OriginalAssumption, UpdateInv, [Next]_vars
  PROVE  UpdateInv'
<1>0. /\ CheckTypeOK /\ InstallTypeOK /\ direct \in BOOLEAN
      /\ InformedInv /\ LockInv /\ RecentInv /\ InstallInv
  BY DEF UpdateInv, UpdateTypeOK
<1>a. ASSUME NEW p \in Process, UNCHANGED <<worldVars, installVars, direct>>,
             CheckStep(p) \/ BeginCheck(p, TRUE) \/ BeginCheck(p, FALSE)
      PROVE  UpdateInv'
  <2>1. CheckTypeOK' BY <1>0, <1>a, CheckKeepsTypes
  <2>2. LockInv' BY <1>0, <1>a, LockInvariant
  <2>3. RecentInv' BY <1>0, <1>a, RecentInvariant
  <2>4. InstallTypeOK' /\ InformedInv' /\ InstallInv' BY <1>0, <1>a, InstallFrame
  <2> QED BY <1>0, <1>a, <2>1, <2>2, <2>3, <2>4 DEF UpdateInv, UpdateTypeOK
<1>b. ASSUME NEW p \in Process, UNCHANGED <<worldVars, checkVars, direct>>,
             InstallStep(p) \/ BeginInstall(p)
      PROVE  UpdateInv'
  <2>1. InstallTypeOK' /\ InformedInv' BY <1>0, <1>b, InstallKeepsTypes
  <2>2. InstallInv' BY <1>0, <1>b, InstallInvariant
  <2>3. CheckTypeOK' /\ LockInv' /\ RecentInv' BY <1>0, <1>b, CheckFrame
  <2> QED BY <1>0, <1>b, <2>1, <2>2, <2>3 DEF UpdateInv, UpdateTypeOK
<1>1. ASSUME NEW p \in Process, Look(p) \/ Apply(p) \/ Check(p) \/ Install(p)
      PROVE  UpdateInv'
  BY <1>1, <1>a, <1>b DEF Look, Apply, Check, Install
<1>2. CASE World
  <2>1. CheckTypeOK' BY <1>0, <1>2, WorldKeepsTypes DEF World
  <2>2. LockInv' BY <1>0, <1>2 DEF World, checkVars, LockInv, Holding
  <2>3. RecentInv' BY <1>0, <1>2, WorldKeepsRecent DEF World
  <2>4. InstallTypeOK' /\ InformedInv' /\ InstallInv'
    BY <1>0, <1>2, InstallFrame DEF World
  <2> QED BY <1>0, <1>2, <2>1, <2>2, <2>3, <2>4 DEF UpdateInv, UpdateTypeOK, World
<1>3. CASE UNCHANGED vars
  <2>1. UNCHANGED <<worldVars, checkVars>> /\ UNCHANGED installVars /\ UNCHANGED direct
    BY <1>3 DEF vars
  <2> QED BY <1>0, <2>1, CheckFrame, InstallFrame DEF UpdateInv, UpdateTypeOK
<1> QED BY <1>1, <1>2, <1>3 DEF Next

\* The strengthening that the theorems below follow from.
THEOREM UpdateInvariant == Spec => []UpdateInv
<1>1. Init => UpdateInv BY UpdateBegins, CheckAssumption, OriginalAssumption
<1>2. UpdateInv /\ [Next]_vars => UpdateInv'
  BY UpdateGoesOn, CheckAssumption, OriginalAssumption
<1> QED BY <1>1, <1>2, PTL DEF Spec

\* Cache, lock file, files and locals have their types in every state.
THEOREM UpdateTyping == Spec => []UpdateTypeOK
<1>1. UpdateInv => UpdateTypeOK BY DEF UpdateInv
<1> QED BY <1>1, UpdateInvariant, PTL

\* However many processes check at once, two ask the service at the same time only
\* if the lock file of one was removed: acquireCheckLock creates it exclusively
\* and everything up to releaseLock happens under it.
THEOREM ChecksAreAlone == Spec => []OneCheckAtATime
<1>1. UpdateInv => OneCheckAtATime
  BY DEF UpdateInv, LockInv, Holding, OneCheckAtATime
<1> QED BY <1>1, UpdateInvariant, PTL

\* Whatever checks do to each other's cache and lock: a release that Check answers
\* is no older than the one that was the latest less than a cache's lifetime ago.
THEOREM AnswersStayRecent == Spec => []AnswersAreRecent
<1>1. UpdateInv => AnswersAreRecent
  BY DEF UpdateInv, RecentInv, AnswersAreRecent
<1> QED BY <1>1, UpdateInvariant, PTL

\* Wherever installations fail or die, there is a whole program to run or to
\* recover from.
THEOREM SomethingToRun == Spec => []ExecutableOrBackup
<1>1. UpdateInv => ExecutableOrBackup
  BY DEF UpdateInv, InstallInv, Orderly, Good, Whole, ExecutableOrBackup
<1> QED BY <1>1, UpdateInvariant, PTL

\* What an update has replaced stays beside it, under its own name.
THEOREM PreviousIsRetained == Spec => []PreviousRetained
<1>1. UpdateInv => PreviousRetained
  BY DEF UpdateInv, InstallInv, Orderly, Installer, KeepsCurrent, Updated, Good, Whole,
     PreviousRetained
<1> QED BY <1>1, UpdateInvariant, PTL

\* An update is not undone by one that began before it or that failed after it.
THEOREM UpdatesAreNotUndone == Spec => []NeverDowngrades
<1>1. UpdateInv => NeverDowngrades
  BY DEF UpdateInv, InstallInv, Orderly, Installer, Stands, Updated, NeverDowngrades
<1> QED BY <1>1, UpdateInvariant, PTL

\* An installation that fails past its inspection leaves the file it found at the
\* path of the executable: before the first rename it is still there, afterwards
\* only a rollback that succeeded is a failure of this kind.
LEMMA FailsAsFound ==
  ASSUME OriginalAssumption, InstallTypeOK, InformedInv, Orderly, NEW p \in Process,
         InstallStep(p) \/ BeginInstall(p), Replacing(p), install'[p].result = "failed"
  PROVE  exe' = install[p].found
<1>1. /\ Installer(p) /\ install[p].result = None /\ None \notin Outcome
      /\ {"current", "died", "failed", "rollback failed", "updated"} \subseteq Outcome
  BY DEF Orderly, InformedInv, Informed, Replacing, OriginalAssumption, Outcome
<1>a. ASSUME NEW at \in Phase, Go(p, at) PROVE FALSE
  BY <1>1, <1>a, InstallGoes
<1>b. ASSUME NEW result \in Outcome \ {"failed"}, Finish(p, result) PROVE FALSE
  BY <1>b, InstallFinishes
<1>1a. {"open", "unlink", "aside", "in", "rollback"} \subseteq Phase BY DEF Phase
<1>2. CASE InspectStaging(p)
  BY <1>1, <1>2 DEF InspectStaging, Installer, KeepsCurrent, Preparing, At
<1>3. CASE OpenStaging(p)
  <2>1. install[p].latest \in Version
    BY <1>3 DEF OpenStaging, InformedInv, Informed, At
  <2>2. install'[p].result = install[p].result BY <1>3, <2>1, StagingOpened
  <2> QED BY <1>1, <2>2
<1>4. CASE FinishWrite(p) \/ UnlinkBackup(p) \/ MoveAside(p) \/ MoveInFails(p)
  BY <1>4, <1>1a, <1>a DEF FinishWrite, UnlinkBackup, MoveAside, MoveInFails
<1>5. CASE MoveIn(p) BY <1>5, MovedIn
<1>6. CASE Rollback(p)
  <2>1. CASE Finish(p, "rollback failed") BY <1>1, <1>b, <2>1
  <2>2. CASE exe' = backup[install[p].current]
    BY <1>1, <1>6, <2>2 DEF Rollback, Installer, KeepsCurrent, Swapping, At
  <2> QED BY <1>6, <2>1, <2>2 DEF Rollback
<1>7. CASE InstallFails(p)
  <2>1. install[p].at \in Preparing /\ UNCHANGED exe
    BY <1>7 DEF InstallFails, Replacing, Preparing
  <2> QED BY <1>1, <2>1 DEF Installer, KeepsCurrent
<1>8. CASE CrashInInstall(p)
  <2>1. Finish(p, "died") BY <1>8 DEF CrashInInstall
  <2> QED BY <1>1, <1>b, <2>1
<1>9. CASE BeginInstall(p) \/ FetchRelease(p) \/ Download(p) \/ VerifyProvenance(p)
           \/ VerifyChecksum(p) \/ ValidateCandidate(p) \/ InspectBackup(p)
  BY <1>9 DEF BeginInstall, FetchRelease, Download, VerifyProvenance, VerifyChecksum,
     ValidateCandidate, InspectBackup, Replacing, At
<1> QED
  BY <1>2, <1>3, <1>4, <1>5, <1>6, <1>7, <1>8, <1>9 DEF InstallStep

\* Installer.Install returns an error of its file operations only with the
\* executable as it was, or with the message that says where it is instead.
THEOREM FailuresKeepExecutable == Spec => FailureKeepsExecutable
<1> DEFINE Kept(p) ==
      Replacing(p) /\ install'[p].result = "failed" /\ ~overlap =>
        exe' = install[p].found
<1>1. UpdateInv /\ [Next]_vars =>
        [\A p \in Process : Kept(p)]_<<exe, install, overlap>>
  <2> SUFFICES ASSUME UpdateInv, [Next]_vars, ~UNCHANGED <<exe, install, overlap>>,
                      NEW p \in Process, Replacing(p), install'[p].result = "failed",
                      ~overlap
               PROVE  exe' = install[p].found
    OBVIOUS
  <2>1. InstallTypeOK /\ CheckTypeOK /\ InformedInv /\ Orderly
    BY DEF UpdateInv, UpdateTypeOK, InstallInv
  <2>2. PICK q \in Process : InstallStep(q) \/ BeginInstall(q)
    BY DEF Next, Look, Apply, Check, Install, World, installVars, vars
  <2>3. CASE q = p BY <2>1, <2>2, <2>3, FailsAsFound, OriginalAssumption
  <2>4. CASE q # p
    <3>1. install[p].result = None /\ install[p].at # "done"
      BY <2>1 DEF InformedInv, Informed, Replacing
    <3>2. install'[p] = install[p] BY <2>1, <2>2, <2>4, OthersInstall
    <3> QED BY <3>1, <3>2, OriginalAssumption DEF OriginalAssumption, Outcome
  <2> QED BY <2>3, <2>4
<1> QED BY <1>1, UpdateInvariant, PTL DEF Spec, FailureKeepsExecutable
==============================================================================

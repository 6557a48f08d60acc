----------------------------- MODULE UpdateCheck -----------------------------
(***************************************************************************)
(* The cached release check of internal/updatecheck/checker.go: processes  *)
(* of one user that share a cache file and the lock file beside it.  The   *)
(* lock is a file created with O_EXCL; one older than a minute is taken    *)
(* over.  A process reads the clock once, at the beginning of its check.   *)
(*                                                                         *)
(* A release is its number, the later the greater.  A tick of the clock is *)
(* long enough to tell two times apart; LockLife and CacheLife are the     *)
(* minute and the day in ticks.                                            *)
(***************************************************************************)
EXTENDS Naturals, FiniteSets

CONSTANTS
  Process,     \* owa processes
  MaxVersion,  \* bound: releases 1..MaxVersion
  LockLife,    \* a lock older than this is stale
  CacheLife,   \* cacheLifetime
  MaxTime,     \* bound of the clock
  None

\* The lock file: who created it and when.
Lock == [by: Process, mtime: Nat]

ASSUME CheckAssumption ==
  /\ MaxVersion \in Nat \ {0}
  /\ LockLife \in Nat /\ CacheLife \in Nat \ {0} /\ MaxTime \in Nat
  /\ None \notin Process \cup Nat \cup Lock

VARIABLES
  clock,
  released,   \* the latest stable release
  base,       \* history: [time -> the latest release when that tick began]
  cache,      \* the cache file's record, or None
  lockFile,   \* the lock file: who created it and when, or None
  check,      \* [Process -> locals of Check]
  lost        \* history: processes in a check whose lock file was removed

worldVars == <<clock, released, base>>
checkVars == <<cache, lockFile, check, lost>>

Version == 1..MaxVersion
Time == 0..MaxTime

NoCheck == [at |-> "idle", force |-> FALSE, now |-> 0, latest |-> None]

CheckInit ==
  /\ clock = 0 /\ released \in Version
  /\ base = [t \in Time |-> released]
  /\ cache = None /\ lockFile = None
  /\ check = [p \in Process |-> NoCheck]
  /\ lost = {}

CheckAt(p, at) == check[p].at = at
CheckGo(p, at) == check' = [check EXCEPT ![p].at = at]

\* Check has its answer: a release, or None for "unavailable" or an error.
Answer(p, latest) ==
  check' = [check EXCEPT ![p].at = "answer", ![p].latest = latest]

----------------------------------------------------------------------------

BeginCheck(p, force) ==
  /\ CheckAt(p, "idle")
  /\ check' = [check EXCEPT ![p] = [at |-> IF force THEN "lock" ELSE "load",
                                     force |-> force, now |-> clock,
                                     latest |-> None]]
  /\ UNCHANGED <<cache, lockFile, lost>>

\* loadFreshCache: also a record from the future is not fresh.
Fresh(record, now) ==
  /\ record # None
  /\ record.checkedAt <= now /\ now - record.checkedAt < CacheLife

\* The first look at the cache: a fresh record answers, the sentinel of a check
\* in progress or that failed with "unavailable".
LoadCache(p) ==
  /\ CheckAt(p, "load")
  /\ IF Fresh(cache, check[p].now) THEN Answer(p, cache.latest)
     ELSE CheckGo(p, "lock")
  /\ UNCHANGED <<cache, lockFile, lost>>

Locked(p) ==
  /\ lockFile' = [by |-> p, mtime |-> clock]
  /\ CheckGo(p, IF check[p].force THEN "publish" ELSE "recheck")

\* Mutant of AcquireLock: the file is opened without O_EXCL.
AcquireLockShared(p) ==
  /\ CheckAt(p, "lock") \/ CheckAt(p, "reopen")
  /\ Locked(p)
  /\ UNCHANGED <<cache, lost>>

\* acquireCheckLock creates the file, at once or after it removed a stale one.
AcquireLock(p) ==
  /\ CheckAt(p, "lock") \/ CheckAt(p, "reopen")
  /\ lockFile = None
  /\ Locked(p)
  /\ UNCHANGED <<cache, lost>>

LockExists(p) ==
  /\ lockFile # None
  /\ \/ CheckAt(p, "lock") /\ CheckGo(p, "inspect")
     \/ CheckAt(p, "reopen") /\ Answer(p, None)
  /\ UNCHANGED <<cache, lockFile, lost>>

Stale(lock, now) == lock # None /\ now > lock.mtime + LockLife

\* Lstat of the lock that was there.
InspectLock(p) ==
  /\ CheckAt(p, "inspect")
  /\ IF Stale(lockFile, check[p].now) THEN CheckGo(p, "takeover")
     ELSE Answer(p, None)
  /\ UNCHANGED <<cache, lockFile, lost>>

Holding(p) ==
  check[p].at \in {"recheck", "publish", "fetch", "store", "release"}

\* os.Remove of the path, whatever lock it names by now.
RemoveLock(p) ==
  /\ lockFile' = None
  /\ lost' = (lost \cup {q \in Process \ {p} : /\ lockFile # None
                                               /\ lockFile.by = q /\ Holding(q)})
              \ {p}

TakeOver(p) ==
  /\ CheckAt(p, "takeover")
  /\ RemoveLock(p)
  /\ CheckGo(p, "reopen")
  /\ UNCHANGED cache

\* The second look, under the lock.
Recheck(p) ==
  /\ CheckAt(p, "recheck")
  /\ check' = IF Fresh(cache, check[p].now)
              THEN [check EXCEPT ![p].at = "release", ![p].latest = cache.latest]
              ELSE [check EXCEPT ![p].at = "publish"]
  /\ UNCHANGED <<cache, lockFile, lost>>

\* The failure sentinel is renamed to the cache's path.
PublishSentinel(p) ==
  /\ CheckAt(p, "publish")
  /\ cache' = [checkedAt |-> check[p].now, latest |-> None]
  /\ CheckGo(p, "fetch")
  /\ UNCHANGED <<lockFile, lost>>

\* The service answers with the latest release.
FetchLatest(p) ==
  /\ CheckAt(p, "fetch")
  /\ check' = [check EXCEPT ![p].at = "store", ![p].latest = released]
  /\ UNCHANGED <<cache, lockFile, lost>>

\* Mutant of StoreLatest: the record is stamped when it is written.
StoreLatestStamped(p) ==
  /\ CheckAt(p, "store")
  /\ cache' = [checkedAt |-> clock, latest |-> check[p].latest]
  /\ CheckGo(p, "release")
  /\ UNCHANGED <<lockFile, lost>>

StoreLatest(p) ==
  /\ CheckAt(p, "store")
  /\ cache' = [checkedAt |-> check[p].now, latest |-> check[p].latest]
  /\ CheckGo(p, "release")
  /\ UNCHANGED <<lockFile, lost>>

\* A write of the cache or the request fails, or its context ends.
CheckFails(p) ==
  /\ check[p].at \in {"publish", "fetch", "store"}
  /\ check' = [check EXCEPT ![p].at = "release", ![p].latest = None]
  /\ UNCHANGED <<cache, lockFile, lost>>

\* The deferred releaseLock.
ReleaseLock(p) ==
  /\ CheckAt(p, "release")
  /\ RemoveLock(p)
  /\ CheckGo(p, "answer")
  /\ UNCHANGED cache

\* Check returns, also with an error of the lock's file; or the process dies: a
\* lock file it holds stays.
EndCheck(p) ==
  /\ check[p].at # "idle"
  /\ check' = [check EXCEPT ![p] = NoCheck]
  /\ lost' = lost \ {p}
  /\ UNCHANGED <<cache, lockFile>>

CheckStep(p) ==
  \/ LoadCache(p)   \/ AcquireLock(p) \/ LockExists(p)  \/ InspectLock(p)
  \/ TakeOver(p)    \/ Recheck(p)     \/ PublishSentinel(p)
  \/ FetchLatest(p) \/ StoreLatest(p) \/ CheckFails(p)
  \/ ReleaseLock(p) \/ EndCheck(p)

\* A release is published; time passes.
Publish ==
  /\ released < MaxVersion
  /\ released' = released + 1
  /\ UNCHANGED <<clock, base>>

Tick ==
  /\ clock < MaxTime
  /\ clock' = clock + 1
  /\ base' = [base EXCEPT ![clock + 1] = released]
  /\ UNCHANGED released

----------------------------------------------------------------------------

CheckTypeOK ==
  /\ clock \in Time
  /\ released \in Version
  /\ base \in [Time -> Version]
  /\ cache \in [checkedAt: Time, latest: Version \cup {None}] \cup {None}
  /\ lockFile \in [by: Process, mtime: Time] \cup {None}
  /\ check \in [Process ->
       [at: {"idle", "load", "lock", "inspect", "takeover", "reopen", "recheck",
             "publish", "fetch", "store", "release", "answer"},
        force: BOOLEAN, now: Time, latest: Version \cup {None}]]
  /\ lost \subseteq Process

\* "Other processes then remain quiet instead of starting a concurrent check"
\* (checker.go:125): two processes ask the service at the same time only if one of
\* them lost its lock, taken for stale or removed by another holder's release.
OneCheckAtATime ==
  \A p, q \in Process :
    check[p].at = "fetch" /\ check[q].at = "fetch" /\ p # q =>
      p \in lost \/ q \in lost

\* "Check returns cached status when it is less than 24 hours old": whatever
\* checks do to each other's cache and lock, a release that is answered is no
\* older than the one that was the latest a cache's lifetime before the check
\* began.
AnswersAreRecent ==
  \A p \in Process :
    LET c == check[p]
    IN c.at = "answer" /\ c.latest # None =>
         \E t \in Time : t <= c.now /\ c.now < t + CacheLife /\ c.latest >= base[t]
=============================================================================

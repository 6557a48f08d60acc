--------------------------- MODULE ApprovalStore ---------------------------
(***************************************************************************)
(* The in-memory approval store of internal/approval/store.go.             *)
(*                                                                         *)
(* Issue runs in two steps because the code does: it draws the token and   *)
(* reads the clock BEFORE it takes the mutex, and prunes, checks the       *)
(* capacity and inserts under the mutex.  Every other call in flight may   *)
(* run between the two.  Consume reads the clock under the mutex and is    *)
(* one step.                                                               *)
(*                                                                         *)
(* A token is 32 random bytes.  The model lets a draw return any token,    *)
(* also one that is pending or was used before, so the collision check of  *)
(* the code has something to do; serial[t] numbers the approvals that have *)
(* been stored under token t, so that two of them can be told apart.       *)
(***************************************************************************)
EXTENDS Integers, FiniteSets

CONSTANTS
  Token,       \* what the random source can draw
  Caller,      \* validated callers
  Operation,   \* normalised operations (name, effect, account, payload)
  Kind,        \* [Operation -> (name, effect)]: what ConsumeFor compares
  AnyKind,     \* the empty name that Consume passes: no comparison
  Thread,      \* concurrent Issue calls
  None,        \* no entry, no call
  TTL,         \* lifetime of an approval, in clock ticks
  MaxPending,  \* capacity of the store
  MaxTime,     \* bound of the model: the clock stops here
  MaxSerial    \* bound of the model: draws of one token

Kinds == {Kind[op] : op \in Operation}
Time == 0..MaxTime
Entry == [operation: Operation, caller: Caller, expiresAt: Nat]
Call == [token: Token, operation: Operation, caller: Caller, now: Time]
Grant == [token: Token, serial: Nat,
          operation: Operation, caller: Caller, expiresAt: Nat]
Redemption == [grant: Grant, by: Caller, as: Kinds \cup {AnyKind}, at: Time]

ASSUME StoreAssumption ==
  /\ TTL \in Nat \ {0}
  /\ MaxPending \in Nat \ {0}
  /\ MaxTime \in Nat
  /\ MaxSerial \in Nat
  /\ AnyKind \notin Kinds
  /\ None \notin Entry
  /\ None \notin Call

VARIABLES
  clock,     \* the monotonic clock
  pending,   \* [Token -> Entry or None], the map the mutex protects
  drawn,     \* [Thread -> Call or None], Issue calls that wait for the mutex
  serial,    \* history: how many approvals were stored under each token
  granted,   \* history: every approval ever stored
  redeemed   \* history: every successful Consume: by whom, as what, when

storeVars == <<clock, pending, drawn, serial, granted, redeemed>>

Held(entries) == {t \in Token : entries[t] # None}

\* pruneExpired: the entries whose deadline is not after now are deleted.
Pruned(entries, now) ==
  [t \in Token |-> IF entries[t] # None /\ now < entries[t].expiresAt
                   THEN entries[t] ELSE None]

\* The approval that is stored under t at this moment.
GrantOf(t) == [token |-> t, serial |-> serial[t],
               operation |-> pending[t].operation,
               caller |-> pending[t].caller,
               expiresAt |-> pending[t].expiresAt]

StoreInit ==
  /\ clock = 0
  /\ pending = [t \in Token |-> None]
  /\ drawn = [th \in Thread |-> None]
  /\ serial = [t \in Token |-> 0]
  /\ granted = {}
  /\ redeemed = {}

Tick ==
  /\ clock < MaxTime
  /\ clock' = clock + 1
  /\ UNCHANGED <<pending, drawn, serial, granted, redeemed>>

\* Issue up to the mutex: token and time are fixed here.
Draw(th, t, op, c) ==
  /\ drawn[th] = None
  /\ serial[t] < MaxSerial
  /\ drawn' = [drawn EXCEPT ![th] =
                 [token |-> t, operation |-> op, caller |-> c, now |-> clock]]
  /\ UNCHANGED <<clock, pending, serial, granted, redeemed>>

\* Mutant of Refused: one approval too many fits.
RefusedOffByOne(call, live) ==
  \/ Cardinality(Held(live)) > MaxPending
  \/ live[call.token] # None

\* Under the mutex, after pruning: the store is full (ErrCapacity) or the
\* token is taken (collision).
Refused(call, live) ==
  \/ Cardinality(Held(live)) >= MaxPending
  \/ live[call.token] # None

\* Issue's critical section, error returns: the pruning stays.
IssueRefused(th) ==
  LET call == drawn[th]
      live == Pruned(pending, call.now)
  IN /\ call # None
     /\ Refused(call, live)
     /\ pending' = live
     /\ drawn' = [drawn EXCEPT ![th] = None]
     /\ UNCHANGED <<clock, serial, granted, redeemed>>

\* Mutant of Issue: the lifetime is subtracted.
IssueBackdated(th) ==
  /\ drawn[th] # None
  /\ ~Refused(drawn[th], Pruned(pending, drawn[th].now))
  /\ pending' = [Pruned(pending, drawn[th].now) EXCEPT ![drawn[th].token] =
                   [operation |-> drawn[th].operation,
                    caller |-> drawn[th].caller,
                    expiresAt |-> drawn[th].now - TTL]]
  /\ drawn' = [drawn EXCEPT ![th] = None]
  /\ UNCHANGED <<clock, serial, granted, redeemed>>

\* Issue's critical section: prune, check, insert.
Issue(th) ==
  LET call  == drawn[th]
      live  == Pruned(pending, call.now)
      entry == [operation |-> call.operation, caller |-> call.caller,
                expiresAt |-> call.now + TTL]
  IN /\ call # None
     /\ ~Refused(call, live)
     /\ pending' = [live EXCEPT ![call.token] = entry]
     /\ serial' = [serial EXCEPT ![call.token] = @ + 1]
     /\ granted' = granted \cup
          {[token |-> call.token, serial |-> serial[call.token] + 1,
            operation |-> entry.operation, caller |-> entry.caller,
            expiresAt |-> entry.expiresAt]}
     /\ drawn' = [drawn EXCEPT ![th] = None]
     /\ UNCHANGED <<clock, redeemed>>

\* Mutant of Owns: the caller is not compared.
OwnsAnybody(t, c) == pending[t] # None

\* consume: the entry exists and belongs to the caller who asks.  Otherwise
\* the call returns ErrInvalidToken and changes nothing.
Owns(t, c) == pending[t] # None /\ pending[t].caller = c

\* Mutant of Matches: the operation class is not compared.
MatchesAnything(t, k) == TRUE

Matches(t, k) == k = AnyKind \/ k = Kind[pending[t].operation]

\* Mutant of ConsumeExpired: the entry is deleted before it is checked.
ConsumeExpiredEarly(t, c) ==
  /\ Owns(t, c)
  /\ pending' = [pending EXCEPT ![t] = None]
  /\ UNCHANGED <<clock, drawn, serial, granted, redeemed>>

\* consume finds the entry expired: it deletes it and fails.
ConsumeExpired(t, c) ==
  /\ Owns(t, c)
  /\ ~(clock < pending[t].expiresAt)
  /\ pending' = [pending EXCEPT ![t] = None]
  /\ UNCHANGED <<clock, drawn, serial, granted, redeemed>>

\* Mutant of Consume: the entry is not deleted.
ConsumeKeeping(t, c, k) ==
  /\ Owns(t, c)
  /\ clock < pending[t].expiresAt
  /\ Matches(t, k)
  /\ redeemed' = redeemed \cup
       {[grant |-> GrantOf(t), by |-> c, as |-> k, at |-> clock]}
  /\ UNCHANGED <<clock, pending, drawn, serial, granted>>

\* Mutant of Consume: an approval is good at its deadline, too.
ConsumeLate(t, c, k) ==
  /\ Owns(t, c)
  /\ clock <= pending[t].expiresAt
  /\ Matches(t, k)
  /\ pending' = [pending EXCEPT ![t] = None]
  /\ redeemed' = redeemed \cup
       {[grant |-> GrantOf(t), by |-> c, as |-> k, at |-> clock]}
  /\ UNCHANGED <<clock, drawn, serial, granted>>

\* consume succeeds: the entry is deleted and its operation returned.
Consume(t, c, k) ==
  /\ Owns(t, c)
  /\ clock < pending[t].expiresAt
  /\ Matches(t, k)
  /\ pending' = [pending EXCEPT ![t] = None]
  /\ redeemed' = redeemed \cup
       {[grant |-> GrantOf(t), by |-> c, as |-> k, at |-> clock]}
  /\ UNCHANGED <<clock, drawn, serial, granted>>

StoreNext ==
  \/ Tick
  \/ \E th \in Thread, t \in Token, op \in Operation, c \in Caller :
       Draw(th, t, op, c)
  \/ \E th \in Thread : IssueRefused(th)
  \/ \E th \in Thread : Issue(th)
  \/ \E t \in Token, c \in Caller : ConsumeExpired(t, c)
  \/ \E t \in Token, c \in Caller, k \in Kinds \cup {AnyKind} : Consume(t, c, k)

StoreSpec == StoreInit /\ [][StoreNext]_storeVars

----------------------------------------------------------------------------

\* The store's state has its type.
StoreTypeOK ==
  /\ clock \in Time
  /\ pending \in [Token -> Entry \cup {None}]
  /\ drawn \in [Thread -> Call \cup {None}]
  /\ serial \in [Token -> Nat]
  /\ granted \subseteq Grant
  /\ redeemed \subseteq Redemption

\* The store never holds more than maxPending approvals, however many Issue
\* calls passed their clock reading before they took the mutex
\* (store.go, Issue).
WithinCapacity ==
  /\ IsFiniteSet(Held(pending))
  /\ Cardinality(Held(pending)) <= MaxPending

\* What a caller redeemed is exactly an approval that was granted: same
\* operation, redeemed by the caller it was granted to, for the operation
\* class it was granted for, strictly before its deadline (store.go, consume;
\* "Commit rejects modified, expired, replayed, or differently scoped
\* operations", docs/architecture.md).
RedeemedAsGranted ==
  \A r \in redeemed :
    /\ r.grant \in granted
    /\ r.by = r.grant.caller
    /\ r.as \in {AnyKind, Kind[r.grant.operation]}
    /\ r.at < r.grant.expiresAt

\* An approval that was redeemed is no longer redeemable: it has left the map
\* before the mutex was released, and a later approval that drew the same
\* token is a different one (store.go, consume).
NoReplay ==
  \A r \in redeemed :
    ~(pending[r.grant.token] # None /\ GrantOf(r.grant.token) = r.grant)

\* The step keeps the approval under t, or redeems exactly that approval.
KeptOrRedeemed(t) ==
  \/ pending'[t] = pending[t]
  \/ /\ pending'[t] = None
     /\ \E r \in redeemed' \ redeemed : r.grant = GrantOf(t)

\* Until its deadline an approval stays in the store unaltered, or its owner
\* redeems it: neither a wrong caller, nor a commit through the wrong tool, nor
\* a full store, nor a colliding draw burns or replaces it ("A mismatched tool
\* cannot burn a valid approval for another action", store.go:142).
NeverBurned ==
  [][\A t \in Token :
       pending[t] # None /\ clock < pending[t].expiresAt => KeptOrRedeemed(t)
    ]_storeVars

\* Refinement mapping: a token names the approval stored under it; what was
\* granted and is neither stored nor redeemed has lapsed.
LiveGrants == {GrantOf(t) : t \in Held(pending)}
SpentGrants == {r.grant : r \in redeemed}

Promise == INSTANCE SingleUseApproval WITH
  now <- clock,
  live <- LiveGrants,
  spent <- SpentGrants,
  lapsed <- granted \ (LiveGrants \cup SpentGrants),
  spentBy <- {<<r.grant, r.by>> : r \in redeemed}

\* The store implements SingleUseApproval: no interleaving of Issue and Consume
\* lets an approval be redeemed twice, by somebody else, late, or vanish early.
ImplementsPromise == Promise!Spec
=============================================================================

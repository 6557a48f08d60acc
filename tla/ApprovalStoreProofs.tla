------------------------ MODULE ApprovalStoreProofs ------------------------
(***************************************************************************)
(* Theorems about ApprovalStore, for any tokens, callers, operations,      *)
(* threads, lifetime and capacity.                                         *)
(***************************************************************************)
EXTENDS ApprovalStore, FiniteSetTheorems, TLAPS

\* A stored entry is a grant of its token.
LEMMA GrantOfType ==
  ASSUME StoreTypeOK, NEW t \in Token, pending[t] # None
  PROVE  /\ pending[t] \in Entry
         /\ GrantOf(t) \in Grant
BY DEF StoreTypeOK, GrantOf, Grant, Entry

\* Pruning yields a well-typed map.
LEMMA PrunedType ==
  ASSUME StoreTypeOK, NEW n \in Time
  PROVE  /\ Pruned(pending, n) \in [Token -> Entry \cup {None}]
         /\ \A t \in Token : Pruned(pending, n)[t] # None =>
              /\ pending[t] # None
              /\ Pruned(pending, n)[t] = pending[t]
BY DEF StoreTypeOK, Pruned

\* Every step of the store keeps the type of its state (store.go, Store).
LEMMA StoreTypingStep ==
  ASSUME StoreTypeOK, [StoreNext]_storeVars
  PROVE  StoreTypeOK'
<1>1. CASE Tick
  BY <1>1, StoreAssumption DEF Tick, StoreTypeOK, Time
<1>2. ASSUME NEW th \in Thread, NEW t \in Token, NEW op \in Operation,
             NEW c \in Caller, Draw(th, t, op, c)
      PROVE  StoreTypeOK'
  BY <1>2 DEF Draw, StoreTypeOK, Call
<1>3. ASSUME NEW th \in Thread, IssueRefused(th)
      PROVE  StoreTypeOK'
  <2>1. drawn[th] \in Call
    BY <1>3 DEF IssueRefused, StoreTypeOK
  <2>2. pending' \in [Token -> Entry \cup {None}]
    BY <1>3, <2>1, PrunedType DEF IssueRefused, Call
  <2> QED
    BY <1>3, <2>2 DEF IssueRefused, StoreTypeOK
<1>4. ASSUME NEW th \in Thread, Issue(th)
      PROVE  StoreTypeOK'
  <2> DEFINE call == drawn[th]
             entry == [operation |-> call.operation, caller |-> call.caller,
                       expiresAt |-> call.now + TTL]
             new == [token |-> call.token, serial |-> serial[call.token] + 1,
                     operation |-> entry.operation, caller |-> entry.caller,
                     expiresAt |-> entry.expiresAt]
  <2>1. call \in Call
    BY <1>4 DEF Issue, StoreTypeOK
  <2>2. entry \in Entry
    BY <2>1, StoreAssumption DEF Call, Entry, Time
  <2>3. new \in Grant
    BY <2>1, <2>2 DEF Call, Grant, Entry, StoreTypeOK
  <2>4. pending' = [Pruned(pending, call.now) EXCEPT ![call.token] = entry]
    BY <1>4 DEF Issue
  <2>5. pending' \in [Token -> Entry \cup {None}]
    BY <2>1, <2>2, <2>4, PrunedType DEF Call
  <2>6. granted' \subseteq Grant
    BY <1>4, <2>3 DEF Issue, StoreTypeOK
  <2>7. serial' \in [Token -> Nat]
    BY <1>4, <2>1 DEF Issue, StoreTypeOK, Call
  <2> QED
    BY <1>4, <2>5, <2>6, <2>7 DEF Issue, StoreTypeOK
<1>5. ASSUME NEW t \in Token, NEW c \in Caller, ConsumeExpired(t, c)
      PROVE  StoreTypeOK'
  BY <1>5 DEF ConsumeExpired, StoreTypeOK
<1>6. ASSUME NEW t \in Token, NEW c \in Caller,
             NEW k \in Kinds \cup {AnyKind}, Consume(t, c, k)
      PROVE  StoreTypeOK'
  <2>1. GrantOf(t) \in Grant
    BY <1>6, GrantOfType DEF Consume, Owns
  <2>2. [grant |-> GrantOf(t), by |-> c, as |-> k, at |-> clock] \in Redemption
    BY <2>1 DEF Redemption, StoreTypeOK
  <2> QED
    BY <1>6, <2>2 DEF Consume, StoreTypeOK
<1>7. CASE UNCHANGED storeVars
  BY <1>7 DEF storeVars, StoreTypeOK
<1> QED
  BY <1>1, <1>2, <1>3, <1>4, <1>5, <1>6, <1>7 DEF StoreNext

\* The state of the store always has its type (store.go, Store).
THEOREM StoreTyping == StoreSpec => []StoreTypeOK
<1>1. StoreInit => StoreTypeOK
  BY StoreAssumption DEF StoreInit, StoreTypeOK, Time
<1>2. StoreTypeOK /\ [StoreNext]_storeVars => StoreTypeOK'
  BY StoreTypingStep
<1> QED
  BY <1>1, <1>2, PTL DEF StoreSpec

----------------------------------------------------------------------------

\* The inductive invariant.  What is stored was granted; a grant never has a
\* number its token has not reached; and a redeemed approval is older than the
\* one its token names now.  The last part is what the deletion under the
\* mutex is for.
StoredGranted ==
  \A t \in Token : pending[t] # None => GrantOf(t) \in granted

GrantsNumbered ==
  \A g \in granted : g.serial <= serial[g.token]

RedeemedOlder ==
  \A r \in redeemed :
    /\ r.grant.serial <= serial[r.grant.token]
    /\ pending[r.grant.token] # None => r.grant.serial < serial[r.grant.token]

StoreInv ==
  /\ StoreTypeOK
  /\ StoredGranted
  /\ GrantsNumbered
  /\ RedeemedOlder
  /\ RedeemedAsGranted

\* Deleting entries keeps the invariant.
LEMMA DeletionKeepsInv ==
  ASSUME StoreInv, StoreTypeOK',
         \A t \in Token : pending'[t] # None =>
           pending[t] # None /\ pending'[t] = pending[t],
         UNCHANGED <<serial, granted, redeemed>>
  PROVE  StoreInv'
<1>1. StoredGranted'
  BY DEF StoreInv, StoredGranted, GrantOf
<1>2. GrantsNumbered' /\ RedeemedAsGranted'
  BY DEF StoreInv, GrantsNumbered, RedeemedAsGranted
<1>3. RedeemedOlder'
  <2> SUFFICES ASSUME NEW r \in redeemed
               PROVE  /\ r.grant.serial <= serial[r.grant.token]
                      /\ pending'[r.grant.token] # None =>
                           r.grant.serial < serial[r.grant.token]
    BY DEF RedeemedOlder
  <2>1. r.grant.token \in Token
    BY DEF StoreInv, StoreTypeOK, Redemption, Grant
  <2> QED
    BY <2>1 DEF StoreInv, RedeemedOlder
<1> QED
  BY <1>1, <1>2, <1>3 DEF StoreInv

\* Storing a new approval keeps the invariant.
LEMMA IssueKeepsInv ==
  ASSUME StoreInv, StoreTypeOK', NEW th \in Thread, Issue(th)
  PROVE  StoreInv'
<1> DEFINE call == drawn[th]
           live == Pruned(pending, call.now)
           tok  == call.token
           entry == [operation |-> call.operation, caller |-> call.caller,
                     expiresAt |-> call.now + TTL]
           new == [token |-> tok, serial |-> serial[tok] + 1,
                   operation |-> entry.operation, caller |-> entry.caller,
                   expiresAt |-> entry.expiresAt]
<1>1. /\ call \in Call
      /\ tok \in Token
      /\ pending' = [live EXCEPT ![tok] = entry]
      /\ serial' = [serial EXCEPT ![tok] = @ + 1]
      /\ granted' = granted \cup {new}
      /\ redeemed' = redeemed
  BY DEF Issue, StoreInv, StoreTypeOK, Call
<1>2. /\ live \in [Token -> Entry \cup {None}]
      /\ \A t \in Token : live[t] # None => pending[t] # None /\ live[t] = pending[t]
  BY <1>1, PrunedType DEF Call, StoreInv
<1>3. serial \in [Token -> Nat]
  BY DEF StoreInv, StoreTypeOK
<1> HIDE DEF call, live
<1>4. /\ serial'[tok] = serial[tok] + 1
      /\ \A t \in Token : t # tok => serial'[t] = serial[t]
      /\ \A t \in Token : serial[t] <= serial'[t]
  BY <1>1, <1>3
<1>5. /\ pending'[tok] = entry
      /\ \A t \in Token : t # tok => pending'[t] = live[t]
  BY <1>1, <1>2
<1>6. StoredGranted'
  <2> SUFFICES ASSUME NEW t \in Token, pending'[t] # None
               PROVE  GrantOf(t)' \in granted'
    BY DEF StoredGranted
  <2>1. CASE t = tok
    BY <2>1, <1>1, <1>4, <1>5 DEF GrantOf
  <2>2. CASE t # tok
    <3>1. pending[t] # None /\ pending'[t] = pending[t] /\ serial'[t] = serial[t]
      BY <2>2, <1>2, <1>4, <1>5
    <3>2. GrantOf(t)' = GrantOf(t)
      BY <3>1 DEF GrantOf
    <3> QED
      BY <3>1, <3>2, <1>1 DEF StoreInv, StoredGranted
  <2> QED
    BY <2>1, <2>2
<1>7. GrantsNumbered'
  <2> SUFFICES ASSUME NEW g \in granted'
               PROVE  g.serial <= serial'[g.token]
    BY DEF GrantsNumbered
  <2>1. CASE g = new
    BY <2>1, <1>3, <1>4, <1>1
  <2>2. CASE g \in granted
    <3>1. g.token \in Token /\ g.serial \in Nat
      BY <2>2 DEF StoreInv, StoreTypeOK, Grant
    <3>2. g.serial <= serial[g.token]
      BY <2>2 DEF StoreInv, GrantsNumbered
    <3> QED
      BY <3>1, <3>2, <1>1, <1>3
  <2> QED
    BY <2>1, <2>2, <1>1
<1>8. RedeemedOlder'
  <2> SUFFICES ASSUME NEW r \in redeemed
               PROVE  /\ r.grant.serial <= serial'[r.grant.token]
                      /\ pending'[r.grant.token] # None =>
                           r.grant.serial < serial'[r.grant.token]
    BY <1>1 DEF RedeemedOlder
  <2> DEFINE u == r.grant.token
             n == r.grant.serial
  <2>1. u \in Token /\ n \in Nat
    BY DEF StoreInv, StoreTypeOK, Redemption, Grant
  <2>2. n <= serial[u] /\ (pending[u] # None => n < serial[u])
    BY DEF StoreInv, RedeemedOlder
  <2> HIDE DEF u, n
  <2>3. n <= serial'[u] /\ (pending'[u] # None => n < serial'[u])
    <3>1. CASE u = tok
      BY <3>1, <2>2, <2>1, <1>3, <1>4
    <3>2. CASE u # tok
      <4>1. serial'[u] = serial[u] /\ pending'[u] = live[u]
        BY <3>2, <2>1, <1>4, <1>5
      <4>2. pending'[u] # None => pending[u] # None
        BY <4>1, <2>1, <1>2
      <4> QED
        BY <4>1, <4>2, <2>2
    <3> QED
      BY <3>1, <3>2
  <2> QED
    BY <2>3 DEF u, n
<1>9. RedeemedAsGranted'
  BY <1>1 DEF StoreInv, RedeemedAsGranted
<1> QED
  BY <1>6, <1>7, <1>8, <1>9 DEF StoreInv

\* A redemption keeps the invariant.
LEMMA ConsumeKeepsInv ==
  ASSUME StoreInv, StoreTypeOK', NEW t \in Token, NEW c \in Caller,
         NEW k \in Kinds \cup {AnyKind}, Consume(t, c, k)
  PROVE  StoreInv'
<1> DEFINE new == [grant |-> GrantOf(t), by |-> c, as |-> k, at |-> clock]
<1>1. /\ pending[t] # None
      /\ pending' = [pending EXCEPT ![t] = None]
      /\ redeemed' = redeemed \cup {new}
      /\ UNCHANGED <<serial, granted, clock>>
  BY DEF Consume, Owns
<1>2. /\ pending'[t] = None
      /\ \A u \in Token : u # t => pending'[u] = pending[u]
  BY <1>1 DEF StoreInv, StoreTypeOK
<1>3. GrantOf(t) \in granted /\ GrantOf(t).token = t /\ GrantOf(t).serial = serial[t]
  BY <1>1 DEF StoreInv, StoredGranted, GrantOf
<1>4. StoredGranted'
  BY <1>1, <1>2 DEF StoreInv, StoredGranted, GrantOf
<1>5. GrantsNumbered'
  BY <1>1 DEF StoreInv, GrantsNumbered
<1>6. RedeemedOlder'
  <2> SUFFICES ASSUME NEW r \in redeemed'
               PROVE  /\ r.grant.serial <= serial[r.grant.token]
                      /\ pending'[r.grant.token] # None =>
                           r.grant.serial < serial[r.grant.token]
    BY <1>1 DEF RedeemedOlder
  <2>1. CASE r = new
    <3>1. serial[t] \in Nat
      BY DEF StoreInv, StoreTypeOK
    <3> QED
      BY <2>1, <3>1, <1>2, <1>3
  <2>2. CASE r \in redeemed
    <3>1. r.grant.token \in Token
      BY <2>2 DEF StoreInv, StoreTypeOK, Redemption, Grant
    <3> QED
      BY <2>2, <3>1, <1>2 DEF StoreInv, RedeemedOlder
  <2> QED
    BY <2>1, <2>2, <1>1
<1>7. RedeemedAsGranted'
  <2>1. /\ new.grant \in granted
        /\ new.by = new.grant.caller
        /\ new.as \in {AnyKind, Kind[new.grant.operation]}
        /\ new.at < new.grant.expiresAt
    BY <1>3 DEF Consume, Owns, Matches, GrantOf
  <2> QED
    BY <1>1, <2>1 DEF StoreInv, RedeemedAsGranted
<1> QED
  BY <1>4, <1>5, <1>6, <1>7 DEF StoreInv

\* The inductive invariant holds.
THEOREM StoreInvariant == StoreSpec => []StoreInv
<1>1. StoreInit /\ StoreTypeOK => StoreInv
  BY DEF StoreInit, StoreInv, StoredGranted, GrantsNumbered, RedeemedOlder,
         RedeemedAsGranted
<1>2. StoreInv /\ StoreTypeOK' /\ [StoreNext]_storeVars => StoreInv'
  <2> SUFFICES ASSUME StoreInv, StoreTypeOK', [StoreNext]_storeVars
               PROVE  StoreInv'
    OBVIOUS
  <2>1. CASE Tick
    BY <2>1, DeletionKeepsInv DEF Tick
  <2>2. ASSUME NEW th \in Thread, NEW t \in Token, NEW op \in Operation,
               NEW c \in Caller, Draw(th, t, op, c)
        PROVE  StoreInv'
    BY <2>2, DeletionKeepsInv DEF Draw
  <2>3. ASSUME NEW th \in Thread, IssueRefused(th)
        PROVE  StoreInv'
    <3>1. drawn[th].now \in Time
      BY <2>3 DEF IssueRefused, StoreInv, StoreTypeOK, Call
    <3>2. \A t \in Token : pending'[t] # None =>
            pending[t] # None /\ pending'[t] = pending[t]
      BY <2>3, <3>1, PrunedType DEF IssueRefused, StoreInv
    <3> QED
      BY <2>3, <3>2, DeletionKeepsInv DEF IssueRefused
  <2>4. ASSUME NEW th \in Thread, Issue(th)
        PROVE  StoreInv'
    BY <2>4, IssueKeepsInv
  <2>5. ASSUME NEW t \in Token, NEW c \in Caller, ConsumeExpired(t, c)
        PROVE  StoreInv'
    <3>1. \A u \in Token : pending'[u] # None =>
            pending[u] # None /\ pending'[u] = pending[u]
      BY <2>5 DEF ConsumeExpired, StoreInv, StoreTypeOK
    <3> QED
      BY <2>5, <3>1, DeletionKeepsInv DEF ConsumeExpired
  <2>6. ASSUME NEW t \in Token, NEW c \in Caller,
               NEW k \in Kinds \cup {AnyKind}, Consume(t, c, k)
        PROVE  StoreInv'
    BY <2>6, ConsumeKeepsInv
  <2>7. CASE UNCHANGED storeVars
    BY <2>7, DeletionKeepsInv DEF storeVars
  <2> QED
    BY <2>1, <2>2, <2>3, <2>4, <2>5, <2>6, <2>7 DEF StoreNext
<1> QED
  BY <1>1, <1>2, StoreTyping, PTL DEF StoreSpec

\* Nobody redeems an approval that was not granted to him for that class of
\* operation, nor after its deadline (store.go, consume).
THEOREM RedemptionIsAuthorised == StoreSpec => []RedeemedAsGranted
<1>1. StoreInv => RedeemedAsGranted
  BY DEF StoreInv
<1> QED
  BY <1>1, StoreInvariant, PTL

\* A redeemed approval cannot be redeemed again (store.go, consume).
THEOREM ApprovalsAreSingleUse == StoreSpec => []NoReplay
<1>1. StoreInv => NoReplay
  <2> SUFFICES ASSUME StoreInv, NEW r \in redeemed,
                      pending[r.grant.token] # None,
                      GrantOf(r.grant.token) = r.grant
               PROVE  FALSE
    BY DEF NoReplay
  <2>1. r.grant.token \in Token /\ r.grant.serial \in Nat
    BY DEF StoreInv, StoreTypeOK, Redemption, Grant
  <2>2. serial[r.grant.token] = r.grant.serial
    BY DEF GrantOf
  <2>3. r.grant.serial < serial[r.grant.token]
    BY DEF StoreInv, RedeemedOlder
  <2> QED
    BY <2>1, <2>2, <2>3
<1> QED
  BY <1>1, StoreInvariant, PTL

----------------------------------------------------------------------------

\* Fewer entries never exceed the capacity.
LEMMA DeletionKeepsCapacity ==
  ASSUME WithinCapacity, MaxPending \in Nat,
         NEW entries, Held(entries) \subseteq Held(pending)
  PROVE  /\ IsFiniteSet(Held(entries))
         /\ Cardinality(Held(entries)) \in Nat
         /\ Cardinality(Held(entries)) <= MaxPending
<1>1. /\ IsFiniteSet(Held(entries))
      /\ Cardinality(Held(entries)) <= Cardinality(Held(pending))
  BY FS_Subset DEF WithinCapacity
<1>2. Cardinality(Held(entries)) \in Nat /\ Cardinality(Held(pending)) \in Nat
  BY <1>1, FS_CardinalityType DEF WithinCapacity
<1> QED
  BY <1>1, <1>2 DEF WithinCapacity

\* However Issue calls interleave, at most maxPending approvals are stored: the
\* check and the insertion are in one critical section (store.go, Issue).
THEOREM CapacityIsRespected == StoreSpec => []WithinCapacity
<1>1. StoreInit => WithinCapacity
  <2> SUFFICES ASSUME StoreInit
               PROVE  WithinCapacity
    OBVIOUS
  <2>1. Held(pending) = {}
    BY DEF StoreInit, Held
  <2> QED
    BY <2>1, FS_EmptySet, StoreAssumption DEF WithinCapacity
<1>2. WithinCapacity /\ StoreTypeOK /\ [StoreNext]_storeVars => WithinCapacity'
  <2> SUFFICES ASSUME WithinCapacity, StoreTypeOK, [StoreNext]_storeVars
               PROVE  WithinCapacity'
    OBVIOUS
  <2>0. MaxPending \in Nat
    BY StoreAssumption
  <2>1. ASSUME Held(pending') \subseteq Held(pending)
        PROVE  WithinCapacity'
    BY <2>0, <2>1, DeletionKeepsCapacity DEF WithinCapacity
  <2>2. ASSUME NEW th \in Thread, Issue(th)
        PROVE  WithinCapacity'
    <3> DEFINE call == drawn[th]
               live == Pruned(pending, call.now)
    <3>1. call \in Call
      BY <2>2 DEF Issue, StoreTypeOK
    <3>2. /\ live \in [Token -> Entry \cup {None}]
          /\ Held(live) \subseteq Held(pending)
      BY <3>1, PrunedType DEF Call, Held
    <3>3. /\ IsFiniteSet(Held(live))
          /\ Cardinality(Held(live)) \in Nat
      BY <2>0, <3>2, DeletionKeepsCapacity
    <3>4. /\ ~(Cardinality(Held(live)) >= MaxPending)
          /\ live[call.token] = None
          /\ \E e : pending' = [live EXCEPT ![call.token] = e]
      BY <2>2 DEF Issue, Refused
    <3>5. call.token \in Token /\ call.token \notin Held(live)
      BY <3>1, <3>4 DEF Call, Held
    <3> HIDE DEF call, live
    <3>6. Held(pending') \subseteq Held(live) \cup {call.token}
      BY <3>2, <3>4 DEF Held
    <3>7. /\ IsFiniteSet(Held(live) \cup {call.token})
          /\ Cardinality(Held(live) \cup {call.token}) = Cardinality(Held(live)) + 1
      BY <3>3, <3>5, FS_AddElement
    <3>8. /\ IsFiniteSet(Held(pending'))
          /\ Cardinality(Held(pending')) <= Cardinality(Held(live)) + 1
      BY <3>6, <3>7, FS_Subset
    <3>9. Cardinality(Held(pending')) \in Nat
      BY <3>8, FS_CardinalityType
    <3> QED
      BY <2>0, <3>3, <3>4, <3>8, <3>9 DEF WithinCapacity
  <2>3. ASSUME NEW th \in Thread, IssueRefused(th)
        PROVE  Held(pending') \subseteq Held(pending)
    <3>1. drawn[th].now \in Time
      BY <2>3 DEF IssueRefused, StoreTypeOK, Call
    <3> QED
      BY <2>3, <3>1, PrunedType DEF IssueRefused, Held
  <2>4. ASSUME NEW t \in Token, NEW c \in Caller, ConsumeExpired(t, c)
        PROVE  Held(pending') \subseteq Held(pending)
    BY <2>4 DEF ConsumeExpired, Held, StoreTypeOK
  <2>5. ASSUME NEW t \in Token, NEW c \in Caller,
               NEW k \in Kinds \cup {AnyKind}, Consume(t, c, k)
        PROVE  Held(pending') \subseteq Held(pending)
    BY <2>5 DEF Consume, Held, StoreTypeOK
  <2>6. ASSUME pending' = pending
        PROVE  Held(pending') \subseteq Held(pending)
    BY <2>6
  <2>7. CASE Tick \/ UNCHANGED storeVars
    BY <2>1, <2>6, <2>7 DEF Tick, storeVars
  <2>8. ASSUME NEW th \in Thread, NEW t \in Token, NEW op \in Operation,
               NEW c \in Caller, Draw(th, t, op, c)
        PROVE  WithinCapacity'
    BY <2>1, <2>6, <2>8 DEF Draw
  <2> QED
    BY <2>1, <2>2, <2>3, <2>4, <2>5, <2>7, <2>8 DEF StoreNext
<1> QED
  BY <1>1, <1>2, StoreTyping, PTL DEF StoreSpec

----------------------------------------------------------------------------

\* The time an Issue call read is not in the future when it gets the mutex.
DrawnInPast ==
  \A th \in Thread : drawn[th] # None => drawn[th].now <= clock

\* DrawnInPast holds in every state: the clock does not go back.
LEMMA DrawnInPastInvariant == StoreSpec => []DrawnInPast
<1>1. StoreInit => DrawnInPast
  BY DEF StoreInit, DrawnInPast
<1>2. StoreTypeOK /\ DrawnInPast /\ [StoreNext]_storeVars => DrawnInPast'
  <2> SUFFICES ASSUME StoreTypeOK, DrawnInPast, [StoreNext]_storeVars
               PROVE  DrawnInPast'
    OBVIOUS
  <2>1. CASE Tick
    BY <2>1 DEF Tick, DrawnInPast, StoreTypeOK, Time, Call
  <2>2. ASSUME NEW th \in Thread, NEW t \in Token, NEW op \in Operation,
               NEW c \in Caller, Draw(th, t, op, c)
        PROVE  DrawnInPast'
    BY <2>2 DEF Draw, DrawnInPast, StoreTypeOK, Time
  <2>3. ASSUME NEW th \in Thread, IssueRefused(th) \/ Issue(th)
        PROVE  DrawnInPast'
    BY <2>3 DEF Issue, IssueRefused, DrawnInPast, StoreTypeOK
  <2>4. ASSUME NEW t \in Token, NEW c \in Caller, ConsumeExpired(t, c)
        PROVE  DrawnInPast'
    BY <2>4 DEF ConsumeExpired, DrawnInPast
  <2>5. ASSUME NEW t \in Token, NEW c \in Caller,
               NEW k \in Kinds \cup {AnyKind}, Consume(t, c, k)
        PROVE  DrawnInPast'
    BY <2>5 DEF Consume, DrawnInPast
  <2>6. CASE UNCHANGED storeVars
    BY <2>6 DEF storeVars, DrawnInPast
  <2> QED
    BY <2>1, <2>2, <2>3, <2>4, <2>5, <2>6 DEF StoreNext
<1> QED
  BY <1>1, <1>2, StoreTyping, PTL DEF StoreSpec

\* No step of any caller takes a valid approval away from its owner
\* (store.go, Issue and consume).
THEOREM ApprovalsAreKept == StoreSpec => NeverBurned
<1>1. StoreInv /\ DrawnInPast /\ [StoreNext]_storeVars =>
        [\A t \in Token :
           pending[t] # None /\ clock < pending[t].expiresAt
             => KeptOrRedeemed(t)]_storeVars
  <2> SUFFICES ASSUME StoreInv, DrawnInPast, [StoreNext]_storeVars,
                      NEW t \in Token,
                      pending[t] # None, clock < pending[t].expiresAt
               PROVE  KeptOrRedeemed(t)
    OBVIOUS
  <2>0. StoreTypeOK
    BY DEF StoreInv
  <2>1. CASE Tick \/ UNCHANGED storeVars
    BY <2>1 DEF Tick, storeVars, KeptOrRedeemed
  <2>2. ASSUME NEW th \in Thread, NEW u \in Token, NEW op \in Operation,
               NEW c \in Caller, Draw(th, u, op, c)
        PROVE  KeptOrRedeemed(t)
    BY <2>2 DEF Draw, KeptOrRedeemed
  <2>3. ASSUME NEW th \in Thread, drawn[th] # None
        PROVE  Pruned(pending, drawn[th].now)[t] = pending[t]
    <3>1. drawn[th].now \in Int /\ drawn[th].now <= clock
      BY <2>0, <2>3 DEF StoreTypeOK, DrawnInPast, Call, Time
    <3>2. clock \in Int /\ pending[t].expiresAt \in Int
      BY <2>0 DEF StoreTypeOK, Entry, Time
    <3> QED
      BY <3>1, <3>2 DEF Pruned
  <2>4. ASSUME NEW th \in Thread, IssueRefused(th)
        PROVE  KeptOrRedeemed(t)
    BY <2>3, <2>4 DEF IssueRefused, KeptOrRedeemed
  <2>5. ASSUME NEW th \in Thread, Issue(th)
        PROVE  KeptOrRedeemed(t)
    <3> DEFINE live == Pruned(pending, drawn[th].now)
    <3>1. live[t] = pending[t] /\ live[drawn[th].token] = None
      BY <2>3, <2>5 DEF Issue, Refused
    <3>2. drawn[th] \in Call
      BY <2>0, <2>5 DEF Issue, StoreTypeOK
    <3>3. live \in [Token -> Entry \cup {None}]
      BY <2>0, <3>2, PrunedType DEF Call
    <3>4. \E e : pending' = [live EXCEPT ![drawn[th].token] = e]
      BY <2>5 DEF Issue
    <3>5. pending'[t] = live[t]
      BY <3>1, <3>3, <3>4
    <3> QED
      BY <3>1, <3>5 DEF KeptOrRedeemed
  <2>6. ASSUME NEW u \in Token, NEW c \in Caller, ConsumeExpired(u, c)
        PROVE  KeptOrRedeemed(t)
    BY <2>0, <2>6 DEF ConsumeExpired, KeptOrRedeemed, StoreTypeOK
  <2>7. ASSUME NEW u \in Token, NEW c \in Caller,
               NEW k \in Kinds \cup {AnyKind}, Consume(u, c, k)
        PROVE  KeptOrRedeemed(t)
    <3>1. CASE u # t
      BY <2>0, <2>7, <3>1 DEF Consume, KeptOrRedeemed, StoreTypeOK
    <3>2. CASE u = t
      <4> DEFINE new == [grant |-> GrantOf(t), by |-> c, as |-> k, at |-> clock]
      <4>1. redeemed' = redeemed \cup {new} /\ pending'[t] = None
        BY <2>0, <2>7, <3>2 DEF Consume, StoreTypeOK
      <4>2. new \notin redeemed
        <5> SUFFICES ASSUME new \in redeemed
                     PROVE  FALSE
          OBVIOUS
        <5>1. new.grant.token = t /\ new.grant.serial = serial[t]
          BY DEF GrantOf
        <5>2. new.grant.serial < serial[t]
          BY <5>1 DEF StoreInv, RedeemedOlder
        <5>3. serial[t] \in Nat
          BY <2>0 DEF StoreTypeOK
        <5> QED
          BY <5>1, <5>2, <5>3
      <4> QED
        BY <4>1, <4>2 DEF KeptOrRedeemed
    <3> QED
      BY <3>1, <3>2
  <2> QED
    BY <2>1, <2>2, <2>4, <2>5, <2>6, <2>7 DEF StoreNext
<1> QED
  BY <1>1, StoreInvariant, DrawnInPastInvariant, PTL DEF StoreSpec, NeverBurned

----------------------------------------------------------------------------

\* Different stored tokens name different grants; no stored grant is spent.
LEMMA LiveGrantFacts ==
  ASSUME StoreInv
  PROVE  /\ LiveGrants \subseteq granted
         /\ SpentGrants \subseteq granted
         /\ LiveGrants \cap SpentGrants = {}
<1>1. LiveGrants \subseteq granted
  BY DEF StoreInv, StoredGranted, LiveGrants, Held
<1>2. SpentGrants \subseteq granted
  BY DEF StoreInv, RedeemedAsGranted, SpentGrants
<1>3. ASSUME NEW g \in LiveGrants, NEW r \in redeemed, g = r.grant
      PROVE  FALSE
  <2>1. PICK t \in Token : pending[t] # None /\ g = GrantOf(t)
    BY <1>3 DEF LiveGrants, Held
  <2>2. r.grant.token = t /\ r.grant.serial = serial[t]
    BY <2>1, <1>3 DEF GrantOf
  <2>3. r.grant.serial < serial[t]
    BY <2>1, <2>2 DEF StoreInv, RedeemedOlder
  <2>4. serial[t] \in Nat
    BY DEF StoreInv, StoreTypeOK
  <2> QED
    BY <2>2, <2>3, <2>4
<1> QED
  BY <1>1, <1>2, <1>3 DEF SpentGrants

\* Dropping entries whose deadline has passed is a DropLapsed step.
LEMMA DeletionIsLapse ==
  ASSUME StoreInv,
         \A t \in Token : pending[t] # None =>
           \/ pending'[t] = pending[t]
           \/ pending'[t] = None /\ pending[t].expiresAt <= clock,
         \A t \in Token : pending[t] = None => pending'[t] = None,
         UNCHANGED <<clock, serial, granted, redeemed>>
  PROVE  Promise!DropLapsed
<1> DEFINE gone == {GrantOf(t) : t \in {u \in Token : pending[u] # None /\ pending'[u] = None}}
<1>1. gone \in SUBSET LiveGrants
  BY DEF LiveGrants, Held
<1>2. \A t \in Token : pending'[t] # None => GrantOf(t)' = GrantOf(t)
  BY DEF GrantOf
<1>3. LiveGrants' = LiveGrants \ gone
  <2>1. ASSUME NEW g \in LiveGrants'
        PROVE  g \in LiveGrants /\ g \notin gone
    <3>1. PICK t \in Token : pending'[t] # None /\ g = GrantOf(t)'
      BY <2>1 DEF LiveGrants, Held
    <3>2. g = GrantOf(t) /\ g.token = t /\ pending[t] # None
      BY <3>1, <1>2 DEF GrantOf
    <3>3. g \in LiveGrants
      BY <3>2 DEF LiveGrants, Held
    <3>4. ASSUME NEW u \in Token, pending'[u] = None, g = GrantOf(u)
          PROVE  FALSE
      BY <3>1, <3>2, <3>4 DEF GrantOf
    <3> QED
      BY <3>3, <3>4
  <2>2. ASSUME NEW g \in LiveGrants, g \notin gone
        PROVE  g \in LiveGrants'
    <3>1. PICK t \in Token : pending[t] # None /\ g = GrantOf(t)
      BY <2>2 DEF LiveGrants, Held
    <3>2. pending'[t] # None
      BY <2>2, <3>1
    <3> QED
      BY <3>1, <3>2, <1>2 DEF LiveGrants, Held
  <2> QED
    BY <2>1, <2>2
<1>4. \A a \in gone : a.expiresAt <= clock
  BY DEF GrantOf
<1>5. SpentGrants' = SpentGrants
  BY DEF SpentGrants
<1>6. (granted \ (LiveGrants \cup SpentGrants))' =
        (granted \ (LiveGrants \cup SpentGrants)) \cup gone
  BY <1>1, <1>3, <1>5, LiveGrantFacts
<1> HIDE DEF gone
<1> QED
  BY <1>1, <1>3, <1>4, <1>5, <1>6 DEF Promise!DropLapsed, Promise!Lapse

\* Issue grants one new approval and lapses the pruned ones.
LEMMA IssueIsGrant ==
  ASSUME StoreInv, DrawnInPast, NEW th \in Thread, Issue(th)
  PROVE  Promise!GrantApproval
<1> DEFINE call == drawn[th]
           tok  == call.token
           live == Pruned(pending, call.now)
           entry == [operation |-> call.operation, caller |-> call.caller,
                     expiresAt |-> call.now + TTL]
           new == [token |-> tok, serial |-> serial[tok] + 1,
                   operation |-> entry.operation, caller |-> entry.caller,
                   expiresAt |-> entry.expiresAt]
           gone == {GrantOf(t) : t \in {u \in Token : pending[u] # None /\ live[u] = None}}
<1>1. /\ call \in Call
      /\ call # None
      /\ tok \in Token
      /\ live[tok] = None
      /\ pending' = [live EXCEPT ![tok] = entry]
      /\ serial' = [serial EXCEPT ![tok] = @ + 1]
      /\ granted' = granted \cup {new}
      /\ UNCHANGED <<clock, redeemed>>
  BY DEF Issue, Refused, StoreInv, StoreTypeOK, Call
<1>2. /\ live \in [Token -> Entry \cup {None}]
      /\ \A t \in Token : live[t] # None => pending[t] # None /\ live[t] = pending[t]
  BY <1>1, PrunedType DEF Call, StoreInv
<1>3. \A a \in gone : a.expiresAt <= clock
  <2> SUFFICES ASSUME NEW t \in Token, pending[t] # None, live[t] = None
               PROVE  pending[t].expiresAt <= clock
    BY DEF GrantOf
  <2>1. call.now \in Int /\ call.now <= clock /\ clock \in Int
    BY <1>1 DEF DrawnInPast, Call, Time, StoreInv, StoreTypeOK
  <2>2. pending[t].expiresAt \in Int
    BY DEF StoreInv, StoreTypeOK, Entry
  <2> QED
    BY <2>1, <2>2 DEF Pruned
<1>4. entry # None
  <2>1. entry \in Entry
    BY <1>1, StoreAssumption DEF Call, Entry, Time
  <2> QED
    BY <2>1, StoreAssumption
<1>5. serial \in [Token -> Nat]
  BY DEF StoreInv, StoreTypeOK
<1>6. new \notin granted
  <2>1. ASSUME new \in granted
        PROVE  serial[tok] + 1 <= serial[tok]
    BY <2>1 DEF StoreInv, GrantsNumbered
  <2> QED
    BY <2>1, <1>1, <1>5
<1> HIDE DEF call, live
<1>7. /\ pending'[tok] = entry /\ serial'[tok] = serial[tok] + 1
      /\ \A t \in Token : t # tok => pending'[t] = live[t] /\ serial'[t] = serial[t]
  BY <1>1, <1>2, <1>5
<1>8. \A t \in Token : t = tok => GrantOf(t)' = new
  BY <1>1, <1>7 DEF GrantOf
<1>9. \A t \in Token : t # tok /\ live[t] # None => GrantOf(t)' = GrantOf(t)
  BY <1>2, <1>7 DEF GrantOf
<1>10. LiveGrants' = (LiveGrants \ gone) \cup {new}
  <2>1. ASSUME NEW g \in LiveGrants', g # new
        PROVE  g \in LiveGrants \ gone
    <3>1. PICK t \in Token : pending'[t] # None /\ g = GrantOf(t)'
      BY <2>1 DEF LiveGrants, Held
    <3>2. t # tok /\ live[t] # None
      BY <3>1, <2>1, <1>7, <1>8
    <3>3. g = GrantOf(t) /\ g.token = t /\ pending[t] # None
      BY <3>1, <3>2, <1>9, <1>2 DEF GrantOf
    <3>4. g \in LiveGrants
      BY <3>3 DEF LiveGrants, Held
    <3>5. ASSUME NEW u \in Token, live[u] = None, g = GrantOf(u)
          PROVE  FALSE
      BY <3>2, <3>3, <3>5 DEF GrantOf
    <3> QED
      BY <3>4, <3>5
  <2>2. new \in LiveGrants'
    <3>1. PICK t \in Token : t = tok
      BY <1>1
    <3>2. pending'[t] # None /\ GrantOf(t)' = new
      BY <3>1, <1>4, <1>7, <1>8
    <3> QED
      BY <3>2 DEF LiveGrants, Held
  <2>3. ASSUME NEW g \in LiveGrants, g \notin gone
        PROVE  g \in LiveGrants'
    <3>1. PICK t \in Token : pending[t] # None /\ g = GrantOf(t)
      BY <2>3 DEF LiveGrants, Held
    <3>2. live[t] # None
      BY <2>3, <3>1
    <3>3. t # tok
      BY <3>2, <1>1
    <3>4. pending'[t] # None /\ GrantOf(t)' = g
      BY <3>1, <3>2, <3>3, <1>7, <1>9
    <3> QED
      BY <3>4 DEF LiveGrants, Held
  <2> QED
    BY <2>1, <2>2, <2>3
<1>11. gone \in SUBSET LiveGrants
  BY DEF LiveGrants, Held
<1>12. SpentGrants' = SpentGrants
  BY <1>1 DEF SpentGrants
<1> HIDE DEF gone, new
<1>13. (granted \ (LiveGrants \cup SpentGrants))' =
         (granted \ (LiveGrants \cup SpentGrants)) \cup gone
  BY <1>1, <1>6, <1>10, <1>11, <1>12, LiveGrantFacts
<1>14. /\ new \in LiveGrants'
       /\ new \notin LiveGrants \cup SpentGrants \cup
                     (granted \ (LiveGrants \cup SpentGrants))
  BY <1>6, <1>10, LiveGrantFacts
<1> QED
  BY <1>1, <1>3, <1>10, <1>11, <1>12, <1>13, <1>14
     DEF Promise!GrantApproval, Promise!Lapse

\* A successful Consume spends the approval.
LEMMA ConsumeIsSpend ==
  ASSUME StoreInv, NEW t \in Token, NEW c \in Caller,
         NEW k \in Kinds \cup {AnyKind}, Consume(t, c, k)
  PROVE  Promise!Spend
<1> DEFINE a == GrantOf(t)
           new == [grant |-> a, by |-> c, as |-> k, at |-> clock]
<1>1. /\ pending[t] # None
      /\ clock < pending[t].expiresAt
      /\ pending[t].caller = c
      /\ pending' = [pending EXCEPT ![t] = None]
      /\ redeemed' = redeemed \cup {new}
      /\ UNCHANGED <<clock, serial, granted>>
  BY DEF Consume, Owns
<1>2. /\ pending'[t] = None
      /\ \A u \in Token : u # t => pending'[u] = pending[u]
  BY <1>1 DEF StoreInv, StoreTypeOK
<1>3. /\ a \in LiveGrants /\ a.caller = c /\ clock < a.expiresAt
  BY <1>1 DEF LiveGrants, Held, GrantOf
<1>4. LiveGrants' = LiveGrants \ {a}
  <2>1. ASSUME NEW g \in LiveGrants'
        PROVE  g \in LiveGrants /\ g # a
    <3>1. PICK u \in Token : pending'[u] # None /\ g = GrantOf(u)'
      BY <2>1 DEF LiveGrants, Held
    <3>2. u # t /\ GrantOf(u)' = GrantOf(u) /\ pending[u] # None
      BY <3>1, <1>1, <1>2 DEF GrantOf
    <3>3. g \in LiveGrants
      BY <3>1, <3>2 DEF LiveGrants, Held
    <3>4. g.token = u /\ a.token = t
      BY <3>1, <3>2 DEF GrantOf
    <3> QED
      BY <3>2, <3>3, <3>4
  <2>2. ASSUME NEW g \in LiveGrants, g # a
        PROVE  g \in LiveGrants'
    <3>1. PICK u \in Token : pending[u] # None /\ g = GrantOf(u)
      BY <2>2 DEF LiveGrants, Held
    <3>2. u # t
      BY <2>2, <3>1
    <3>3. pending'[u] # None /\ GrantOf(u)' = GrantOf(u)
      BY <3>1, <3>2, <1>1, <1>2 DEF GrantOf
    <3> QED
      BY <3>1, <3>3 DEF LiveGrants, Held
  <2> QED
    BY <2>1, <2>2
<1>n. new.grant = a /\ new.by = a.caller
  BY <1>3
<1> HIDE DEF new
<1>5. SpentGrants' = SpentGrants \cup {a}
  BY <1>1, <1>n DEF SpentGrants
<1>6. {<<r.grant, r.by>> : r \in redeemed'} =
        {<<r.grant, r.by>> : r \in redeemed} \cup {<<a, a.caller>>}
  BY <1>1, <1>n
<1> HIDE DEF a
<1>7. (granted \ (LiveGrants \cup SpentGrants))' =
        granted \ (LiveGrants \cup SpentGrants)
  BY <1>1, <1>3, <1>4, <1>5
<1> QED
  BY <1>1, <1>3, <1>4, <1>5, <1>6, <1>7 DEF Promise!Spend

\* The store implements the abstract single-use approval (store.go).
THEOREM StoreImplementsPromise == StoreSpec => ImplementsPromise
<1>1. StoreInit => Promise!Init
  BY DEF StoreInit, Promise!Init, LiveGrants, SpentGrants, Held
<1>2. StoreInv /\ DrawnInPast /\ [StoreNext]_storeVars
        => [Promise!Next]_(Promise!vars)
  <2> SUFFICES ASSUME StoreInv, DrawnInPast, [StoreNext]_storeVars
               PROVE  [Promise!Next]_(Promise!vars)
    OBVIOUS
  <2>0. StoreTypeOK
    BY DEF StoreInv
  <2>1. CASE Tick
    <3>1. /\ clock' = clock + 1
          /\ UNCHANGED <<LiveGrants, SpentGrants, granted, redeemed>>
      BY <2>1 DEF Tick, LiveGrants, SpentGrants, Held, GrantOf
    <3> QED
      BY <3>1 DEF Promise!Next, Promise!Advance
  <2>2. ASSUME UNCHANGED <<clock, pending, serial, granted, redeemed>>
        PROVE  UNCHANGED Promise!vars
    BY <2>2 DEF Promise!vars, LiveGrants, SpentGrants, Held, GrantOf
  <2>3. ASSUME NEW th \in Thread, IssueRefused(th)
        PROVE  Promise!Next
    <3>1. drawn[th] \in Call /\ drawn[th] # None /\ drawn[th].now <= clock
      BY <2>0, <2>3 DEF IssueRefused, StoreTypeOK, DrawnInPast
    <3>2. clock \in Int /\ drawn[th].now \in Int
          /\ \A t \in Token : pending[t] # None => pending[t].expiresAt \in Int
      BY <2>0, <3>1 DEF StoreTypeOK, Time, Call, Entry
    <3>3. pending' = Pruned(pending, drawn[th].now)
          /\ UNCHANGED <<clock, serial, granted, redeemed>>
      BY <2>3 DEF IssueRefused
    <3>4. \A t \in Token : pending[t] # None =>
            \/ pending'[t] = pending[t]
            \/ pending'[t] = None /\ pending[t].expiresAt <= clock
      BY <3>1, <3>2, <3>3 DEF Pruned
    <3>5. \A t \in Token : pending[t] = None => pending'[t] = None
      BY <3>3 DEF Pruned
    <3>6. Promise!DropLapsed
      BY <3>3, <3>4, <3>5, DeletionIsLapse
    <3> QED
      BY <3>6 DEF Promise!Next
  <2>4. ASSUME NEW th \in Thread, Issue(th)
        PROVE  Promise!Next
    BY <2>4, IssueIsGrant DEF Promise!Next
  <2>5. ASSUME NEW t \in Token, NEW c \in Caller, ConsumeExpired(t, c)
        PROVE  Promise!Next
    <3>1. pending \in [Token -> Entry \cup {None}] /\ clock \in Int
      BY <2>0 DEF StoreTypeOK, Time
    <3>2. pending[t] # None /\ pending[t].expiresAt \in Int
      BY <2>5, <3>1 DEF ConsumeExpired, Owns, Entry
    <3>3. Promise!DropLapsed
      BY <2>5, <3>1, <3>2, DeletionIsLapse DEF ConsumeExpired
    <3> QED
      BY <3>3 DEF Promise!Next
  <2>6. ASSUME NEW t \in Token, NEW c \in Caller,
               NEW k \in Kinds \cup {AnyKind}, Consume(t, c, k)
        PROVE  Promise!Next
    BY <2>6, ConsumeIsSpend DEF Promise!Next
  <2>7. CASE UNCHANGED storeVars
    BY <2>2, <2>7 DEF storeVars
  <2>8. ASSUME NEW th \in Thread, NEW t \in Token, NEW op \in Operation,
               NEW c \in Caller, Draw(th, t, op, c)
        PROVE  UNCHANGED Promise!vars
    BY <2>2, <2>8 DEF Draw
  <2> QED
    BY <2>1, <2>3, <2>4, <2>5, <2>6, <2>7, <2>8 DEF StoreNext
<1> QED
  BY <1>1, <1>2, StoreInvariant, DrawnInPastInvariant, PTL
     DEF StoreSpec, ImplementsPromise, Promise!Spec
=============================================================================

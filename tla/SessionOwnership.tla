-------------------------- MODULE SessionOwnership --------------------------
(***************************************************************************)
(* What the daemon processes of one configuration promise to everybody     *)
(* who calls the session owner, without phases, clients or clean-up:       *)
(* "one session owner" (docs/architecture.md).  At most one process owns   *)
(* the sessions; a process owns them once in its life, after its           *)
(* predecessor has let go; the credential that callers find is that of a   *)
(* process that published it while it was the owner, or there is none.     *)
(***************************************************************************)
CONSTANTS Process, None

VARIABLES
  owner,       \* the process that owns the sessions and listens, or None
  credential,  \* the process whose credential callers find, or None
  fresh        \* processes that have not owned the sessions and still may

ownershipVars == <<owner, credential, fresh>>

OwnershipInit ==
  /\ owner \in Process \cup {None}
  /\ credential = owner
  /\ fresh = Process \ {owner}

Acquire(p) ==
  /\ p \in fresh /\ owner = None
  /\ owner' = p
  /\ fresh' = fresh \ {p}
  /\ UNCHANGED credential

\* A start that came too late, or did not come to an end.
Renounce(p) ==
  /\ fresh' = fresh \ {p}
  /\ UNCHANGED <<owner, credential>>

Publish ==
  /\ owner # None
  /\ credential' = owner
  /\ UNCHANGED <<owner, fresh>>

\* The credential disappears: its owner rotates or removes it, or an owner that
\* has ended removes what it takes for its own.
Withdraw ==
  /\ credential' = None
  /\ UNCHANGED <<owner, fresh>>

Release ==
  /\ owner' = None
  /\ UNCHANGED <<credential, fresh>>

OwnershipNext ==
  \/ \E p \in Process : Acquire(p) \/ Renounce(p)
  \/ Publish \/ Withdraw \/ Release

OwnershipSpec == OwnershipInit /\ [][OwnershipNext]_ownershipVars
=============================================================================

------------------------- MODULE SingleUseApproval -------------------------
(***************************************************************************)
(* What the approval store promises to the guard, without tokens, mutex,   *)
(* capacity or pruning.  An approval is a record with at least a caller    *)
(* and an expiresAt.  It is granted once; from then on it is either spent, *)
(* once, by its caller and before its deadline, or it lapses, at or after  *)
(* its deadline.  Nothing else ever happens to it.                         *)
(***************************************************************************)
EXTENDS Integers

VARIABLES now,    \* time
          live,   \* approvals granted, not spent and not lapsed
          spent,  \* approvals redeemed
          lapsed, \* approvals that timed out
          spentBy \* who redeemed: a set of <<approval, caller>>

vars == <<now, live, spent, lapsed, spentBy>>

Init ==
  /\ now = 0
  /\ live = {} /\ spent = {} /\ lapsed = {} /\ spentBy = {}

\* The approvals S time out: only after their deadline.
Lapse(S) ==
  /\ \A a \in S : a.expiresAt <= now
  /\ lapsed' = lapsed \cup S

\* A new approval becomes live; others may lapse in the same step.
GrantApproval ==
  \E a \in live', S \in SUBSET live :
    /\ a \notin live \cup spent \cup lapsed
    /\ live' = (live \ S) \cup {a}
    /\ Lapse(S)
    /\ UNCHANGED <<now, spent, spentBy>>

DropLapsed ==
  \E S \in SUBSET live :
    /\ live' = live \ S
    /\ Lapse(S)
    /\ UNCHANGED <<now, spent, spentBy>>

Spend ==
  \E a \in live :
    /\ now < a.expiresAt
    /\ live' = live \ {a}
    /\ spent' = spent \cup {a}
    /\ spentBy' = spentBy \cup {<<a, a.caller>>}
    /\ UNCHANGED <<now, lapsed>>

Advance ==
  /\ now' = now + 1
  /\ UNCHANGED <<live, spent, lapsed, spentBy>>

Next == GrantApproval \/ DropLapsed \/ Spend \/ Advance

Spec == Init /\ [][Next]_vars
=============================================================================

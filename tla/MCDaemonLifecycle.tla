------------------------- MODULE MCDaemonLifecycle -------------------------
(***************************************************************************)
(* Small instance of DaemonLifecycle: an owner that runs or not, and one   *)
(* that takes its place, started by the client or by hand.                 *)
(*                                                                         *)
(* Processes and builds are interchangeable.  TLC's SYMMETRY is not sound  *)
(* for liveness, so the instance names them in a fixed order: the client's *)
(* build is the first, the owner that runs at the beginning is the first   *)
(* process, and processes are started in order.  Two bounds keep it small: *)
(* by hand a process of another build than the client's is started, and    *)
(* only in the place of an owner that let go.  What a person starts        *)
(* earlier exits when the lock is taken, as what a client starts does.     *)
(***************************************************************************)
EXTENDS DaemonLifecycle, TLC

First(S) == CHOOSE x \in S : TRUE

InitInOrder ==
  /\ Init
  /\ lock \in {None, First(Process)}
  /\ \A c \in Client : build[c] = First(Version)

\* By hand is what no client does.
StartsInOrder ==
  \A p \in Process :
    phase[p] = "off" /\ phase'[p] # "off" =>
      /\ p = First({q \in Process : phase[q] = "off"})
      /\ client' = client =>
           /\ lock = None
           /\ \E q \in Process : phase[q] \notin {"off", "started"}
           /\ version'[p] # First(Version)

\* Fairness asks for no start: a client's attempt to start may always fail.
FairSpecInOrder == InitInOrder /\ [][Next /\ StartsInOrder]_vars /\ Fairness
=============================================================================

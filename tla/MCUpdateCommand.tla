--------------------------- MODULE MCUpdateCommand ---------------------------
(***************************************************************************)
(* Small instances of UpdateCommand.  Checks and installations use         *)
(* different files, so the bound Apart follows the installations of a      *)
(* direct executable without checks and clock, and of the managed one at   *)
(* most Checkers checks at a time and the releases up to LastChecked.      *)
(***************************************************************************)
EXTENDS UpdateCommand, TLC

Symmetry == Permutations(Process)

Checkers == 2
LastChecked == 2

Apart ==
  LET checking == {p \in Process : ~CheckAt(p, "idle")}
  IN IF direct THEN clock = 0 /\ checking = {}
     ELSE Cardinality(checking) <= Checkers /\ released <= LastChecked
=============================================================================

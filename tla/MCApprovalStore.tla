-------------------------- MODULE MCApprovalStore --------------------------
(***************************************************************************)
(* Small instance of ApprovalStore: two tokens, two callers, two           *)
(* operations of different classes, two threads inside Issue at once, a    *)
(* store of capacity one and time enough for two generations of approvals. *)
(***************************************************************************)
EXTENDS ApprovalStore, TLC

CONSTANTS t1, t2, alice, bob, sendOp, moveOp, th1, th2, sendKind, moveKind

MCKind == (sendOp :> sendKind) @@ (moveOp :> moveKind)
Symmetry == Permutations(Token) \cup Permutations(Thread)
=============================================================================

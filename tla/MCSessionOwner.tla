--------------------------- MODULE MCSessionOwner ---------------------------
(***************************************************************************)
(* Small instances of SessionOwner: two accounts and operations of         *)
(* different classes on them.                                              *)
(***************************************************************************)
EXTENDS SessionOwner, TLC

CONSTANTS t1, t2, alice, bob, sendOp, moveOp, bodyOp, listOp, r1, r2, r3,
          work, home

MCKind == (sendOp :> MailSend) @@ (moveOp :> MailMove) @@
          (bodyOp :> MailBody) @@ (listOp :> MailList)
MCKindOf == [op \in Operation |-> MCKind[op]]
MCAccountOf == [op \in Operation |->
                  IF op \in {sendOp, listOp} THEN work ELSE home]
Symmetry == Permutations(Token) \cup Permutations(Request)
=============================================================================

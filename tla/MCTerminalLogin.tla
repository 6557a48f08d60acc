--------------------------- MODULE MCTerminalLogin ---------------------------
(***************************************************************************)
(* Small instances of TerminalLogin.  The observer sees any traffic of a   *)
(* visible login; while a command runs, for which the page and the owner   *)
(* matter, the bound Narrow lets Chrome send one authorised request.       *)
(***************************************************************************)
EXTENDS TerminalLogin, TLC

Symmetry == Permutations(Command) \cup Permutations(RequestID)

Authorised == [firstParty |-> TRUE, bearer |-> TRUE]

Narrow ==
  \/ cmd = [c \in Command |-> Blank("off")]
  \/ traffic = [q \in RequestID |-> <<>>]
  \/ \E q \in RequestID :
       traffic = [p \in RequestID |-> IF p = q THEN <<Authorised>> ELSE <<>>]
=============================================================================

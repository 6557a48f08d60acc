----------------------------- MODULE Operations -----------------------------
(***************************************************************************)
(* The policy that decides about the operations: internal/policy/rules.go. *)
(***************************************************************************)
EXTENDS OperationClasses

CONSTANTS
  Mode,                    \* policy.Mode of the configuration
  PreviewSensitiveReads,   \* policy.Rules
  PreviewReversibleWrites

ASSUME PolicyAssumption ==
  /\ Mode \in {"read_only", "guarded"}
  /\ PreviewSensitiveReads \in BOOLEAN
  /\ PreviewReversibleWrites \in BOOLEAN

\* Mutant of Evaluate: the switches of the configuration are not consulted.
EvaluateUnconfigured(effect) ==
  CASE effect \in Reads            -> "allow"
    [] effect = "reversible_write" -> "allow"
    [] OTHER                       -> "preview"

\* Rules.Evaluate (NewGuard refuses rules with any other mode).
Evaluate(effect) ==
  CASE effect = "read"                       -> "allow"
    [] effect = "sensitive_read"             ->
         IF PreviewSensitiveReads THEN "preview" ELSE "allow"
    [] IsWrite(effect) /\ Mode = "read_only" -> "deny"
    [] effect = "reversible_write" /\ Mode # "read_only" ->
         IF PreviewReversibleWrites THEN "preview" ELSE "allow"
    [] OTHER                                 -> "preview"
=============================================================================

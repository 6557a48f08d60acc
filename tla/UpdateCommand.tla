---------------------------- MODULE UpdateCommand ----------------------------
(***************************************************************************)
(* What the processes of one user do about updates                         *)
(* (cmd/owa/command_update.go): the notice after a command and "owa update *)
(* check" look for a release, "owa update" installs it when the executable *)
(* is a direct installation and otherwise looks for it afresh, whatever    *)
(* the cache says.  A process does one of these at a time and installs     *)
(* once.                                                                   *)
(***************************************************************************)
EXTENDS SelfUpdate

VARIABLE direct  \* the installation is no package manager's

vars == <<worldVars, checkVars, installVars, direct>>

Init ==
  /\ CheckInit /\ InstallInit
  /\ direct \in BOOLEAN

Free(p) == CheckAt(p, "idle") /\ install[p].at \in {"idle", "done"}

\* maybeNotifyUpdate and updateCheckCommand.
Look(p) ==
  /\ Free(p)
  /\ BeginCheck(p, FALSE)
  /\ UNCHANGED <<worldVars, installVars, direct>>

\* updateApplyCommand.
Apply(p) ==
  /\ Free(p)
  /\ IF direct THEN BeginInstall(p) /\ UNCHANGED checkVars
     ELSE BeginCheck(p, TRUE) /\ UNCHANGED installVars
  /\ UNCHANGED <<worldVars, direct>>

Check(p) == CheckStep(p) /\ UNCHANGED <<worldVars, installVars, direct>>
Install(p) == InstallStep(p) /\ UNCHANGED <<worldVars, checkVars, direct>>
World == (Publish \/ Tick) /\ UNCHANGED <<checkVars, installVars, direct>>

Next ==
  \/ \E p \in Process : Look(p) \/ Apply(p) \/ Check(p) \/ Install(p)
  \/ World

Spec == Init /\ [][Next]_vars

\* Cache, lock and files have their types.
UpdateTypeOK == CheckTypeOK /\ InstallTypeOK /\ direct \in BOOLEAN
=============================================================================

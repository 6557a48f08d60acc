------------------------------ MODULE SelfUpdate ------------------------------
(***************************************************************************)
(* "owa update" of a direct installation: Installer.Install                *)
(* (internal/updatecheck/selfupdate.go) and, as it calls it, Apply of      *)
(* minio/selfupdate, on the files of the executable's directory.  Any      *)
(* number of processes may update at once; each may fail or die between    *)
(* two file operations.                                                    *)
(*                                                                         *)
(* A path names a file and a rename moves the name, so a process that has  *)
(* a file open goes on writing it wherever it is named.  The file a        *)
(* process creates is named after the process; Original is the file        *)
(* installed first.  What a process downloads and verifies is in a private *)
(* temporary directory: whatever fails there changes nothing here.         *)
(***************************************************************************)
EXTENDS UpdateCheck

CONSTANT Original

\* How an installation ends.
Outcome == {"current", "updated", "failed", "rollback failed", "died"}

ASSUME OriginalAssumption ==
  /\ Original \notin Process \cup {None}
  /\ None \notin Outcome

VARIABLES
  exe,      \* the file at the path of the executable, or None
  staging,  \* the file at .owa.new, or None
  backup,   \* [release -> the file at owa.backup-<release>, or None]
  content,  \* [file -> its release, whether that is the project's and the file
            \* whole, and who truncated it last]
  install,  \* [Process -> locals of Install]
  overlap   \* history: two installations were past their inspection at once

installVars == <<exe, staging, backup, content, install, overlap>>

File == Process \cup {Original}

NoInstall == [at |-> "idle", current |-> None, latest |-> None, manifest |-> FALSE,
              archive |-> FALSE, file |-> None, found |-> None, result |-> None]

\* The first release that is out is the one installed.
InstallInit ==
  /\ exe = Original /\ staging = None
  /\ backup = [v \in Version |-> None]
  /\ content = [f \in File |-> [version |-> released, genuine |-> TRUE,
                                whole |-> f = Original, by |-> None]]
  /\ install = [p \in Process |-> NoInstall]
  /\ overlap = FALSE

At(p, at) == install[p].at = at
Go(p, at) == install' = [install EXCEPT ![p].at = at]
Finish(p, result) ==
  install' = [install EXCEPT ![p] = [NoInstall EXCEPT !.at = "done",
                                                      !.result = result]]

Whole(f) == f # None /\ content[f].whole /\ content[f].genuine

----------------------------------------------------------------------------

\* The process runs the executable: its build is what it found there.
BeginInstall(p) ==
  /\ At(p, "idle")
  /\ Whole(exe)
  /\ install' = [install EXCEPT ![p].at = "release",
                                ![p].current = content[exe].version]
  /\ UNCHANGED <<exe, staging, backup, content, overlap>>

\* Mutant of FetchRelease: what is not published as stable yet is accepted.
FetchReleaseUnstable(p) ==
  /\ At(p, "release")
  /\ install' = [install EXCEPT ![p].at = "download", ![p].latest = released + 1]
  /\ UNCHANGED <<exe, staging, backup, content, overlap>>

\* fetchRelease; never the same release again and never an older one.
FetchRelease(p) ==
  /\ At(p, "release")
  /\ IF install[p].current >= released THEN Finish(p, "current")
     ELSE install' = [install EXCEPT ![p].at = "download",
                                     ![p].latest = released]
  /\ UNCHANGED <<exe, staging, backup, content, overlap>>

\* downloadAsset: what comes need not be what the project has published.
Download(p) ==
  /\ At(p, "download")
  /\ \E manifest, archive \in BOOLEAN :
       install' = [install EXCEPT ![p].at = "provenance",
                                  ![p].manifest = manifest,
                                  ![p].archive = archive]
  /\ UNCHANGED <<exe, staging, backup, content, overlap>>

\* The manifest is signed by the release workflow of this very release.
VerifyProvenance(p) ==
  /\ At(p, "provenance")
  /\ IF install[p].manifest THEN Go(p, "checksum") ELSE Finish(p, "failed")
  /\ UNCHANGED <<exe, staging, backup, content, overlap>>

\* Mutant of VerifyChecksum: the checksum is not compared.
VerifyChecksumSkipped(p) ==
  /\ At(p, "checksum")
  /\ Go(p, "candidate")
  /\ UNCHANGED <<exe, staging, backup, content, overlap>>

\* A manifest of the project's lists its own archive only.
VerifyChecksum(p) ==
  /\ At(p, "checksum")
  /\ IF install[p].manifest => install[p].archive THEN Go(p, "candidate")
     ELSE Finish(p, "failed")
  /\ UNCHANGED <<exe, staging, backup, content, overlap>>

\* The binary is extracted, reports its version and platform, and is kept open.
ValidateCandidate(p) ==
  /\ At(p, "candidate")
  /\ Go(p, "inspect")
  /\ UNCHANGED <<exe, staging, backup, content, overlap>>

\* Past its inspection of the paths.
Replacing(p) ==
  install[p].at \in {"staging", "open", "write", "unlink", "aside", "in",
                     "rollback"}

Inspected(p) ==
  /\ install' = [install EXCEPT ![p].at = "staging", ![p].found = exe]
  /\ overlap' = (overlap \/ \E q \in Process \ {p} : Replacing(q))

\* Mutant of InspectBackup: an existing rollback copy is not refused.
InspectBackupSkipped(p) ==
  /\ At(p, "inspect")
  /\ Inspected(p)
  /\ UNCHANGED <<exe, staging, backup, content>>

InspectBackup(p) ==
  /\ At(p, "inspect")
  /\ \/ backup[install[p].current] = None /\ Inspected(p)
     \/ /\ backup[install[p].current] # None
        /\ Finish(p, "failed") /\ UNCHANGED overlap
  /\ UNCHANGED <<exe, staging, backup, content>>

InspectStaging(p) ==
  /\ At(p, "staging")
  /\ IF staging = None THEN Go(p, "open") ELSE Finish(p, "failed")
  /\ UNCHANGED <<exe, staging, backup, content, overlap>>

\* Apply opens the staging file with O_CREATE and O_TRUNC.
OpenStaging(p) ==
  LET f == IF staging = None THEN p ELSE staging
  IN /\ At(p, "open")
     /\ staging' = f
     /\ content' = [content EXCEPT ![f] = [version |-> install[p].latest,
                                           genuine |-> install[p].archive,
                                           whole |-> FALSE, by |-> p]]
     /\ install' = [install EXCEPT ![p].at = "write", ![p].file = f]
     /\ UNCHANGED <<exe, backup, overlap>>

\* Another process that writes another release to the file of p.
Mixing(p) ==
  \E q \in Process \ {p} :
    /\ At(q, "write") /\ install[q].file = install[p].file
    /\ install[q].latest # install[p].latest

\* Mutant of FinishWrite: a short write is not noticed.
FinishWriteShort(p) ==
  /\ At(p, "write")
  /\ Go(p, "unlink")
  /\ UNCHANGED <<exe, staging, backup, content, overlap>>

\* The last byte is written.  The file is whole if p truncated it last, and
\* nobody wrote another release to it; that of a process which truncated it
\* earlier may spoil it.
FinishWrite(p) ==
  LET f == install[p].file
      mine == content[f].by = p
  IN /\ At(p, "write")
     /\ \E whole \in BOOLEAN :
          /\ mine /\ ~Mixing(p) => whole
          /\ ~mine /\ whole => content[f].whole
          /\ ~mine /\ content[f].version = install[p].latest =>
               whole = content[f].whole
          /\ content' = [content EXCEPT ![f].whole = whole]
     /\ Go(p, "unlink")
     /\ UNCHANGED <<exe, staging, backup, overlap>>

\* Remove of the path of the rollback copy, if there is one by now.
UnlinkBackup(p) ==
  /\ At(p, "unlink")
  /\ backup' = [backup EXCEPT ![install[p].current] = None]
  /\ Go(p, "aside")
  /\ UNCHANGED <<exe, staging, content, overlap>>

\* Mutant of MoveAside: the rollback copy is named after the new release.
MoveAsideMisnamed(p) ==
  /\ At(p, "aside")
  /\ exe # None
  /\ backup' = [backup EXCEPT ![install[p].latest] = exe]
  /\ exe' = None
  /\ Go(p, "in")
  /\ UNCHANGED <<staging, content, overlap>>

MoveAside(p) ==
  /\ At(p, "aside")
  /\ exe # None
  /\ backup' = [backup EXCEPT ![install[p].current] = exe]
  /\ exe' = None
  /\ Go(p, "in")
  /\ UNCHANGED <<staging, content, overlap>>

MoveIn(p) ==
  /\ At(p, "in")
  /\ staging # None
  /\ exe' = staging
  /\ staging' = None
  /\ install' = [install EXCEPT ![p] = [@ EXCEPT !.at = "done", !.file = None,
                                         !.found = None, !.result = "updated"]]
  /\ UNCHANGED <<backup, content, overlap>>

\* Mutant of MoveInFails: the error is returned at once.
MoveInFailsForGood(p) ==
  /\ At(p, "in")
  /\ Finish(p, "failed")
  /\ UNCHANGED <<exe, staging, backup, content, overlap>>

\* The second rename fails, in any case when the staging file is gone.
MoveInFails(p) ==
  /\ At(p, "in")
  /\ Go(p, "rollback")
  /\ UNCHANGED <<exe, staging, backup, content, overlap>>

Rollback(p) ==
  LET copy == backup[install[p].current]
  IN /\ At(p, "rollback")
     /\ \/ /\ copy # None
           /\ exe' = copy
           /\ backup' = [backup EXCEPT ![install[p].current] = None]
           /\ Finish(p, "failed")
        \/ Finish(p, "rollback failed") /\ UNCHANGED <<exe, backup>>
     /\ UNCHANGED <<staging, content, overlap>>

\* An error of a download, a verification or a file operation before the first
\* rename has succeeded.  The staging file is not removed.
InstallFails(p) ==
  /\ install[p].at \in {"release", "download", "candidate", "inspect", "staging",
                        "open", "write", "aside"}
  /\ Finish(p, "failed")
  /\ UNCHANGED <<exe, staging, backup, content, overlap>>

CrashInInstall(p) ==
  /\ install[p].at \notin {"idle", "done"}
  /\ Finish(p, "died")
  /\ UNCHANGED <<exe, staging, backup, content, overlap>>

InstallStep(p) ==
  \/ FetchRelease(p)  \/ Download(p)
  \/ VerifyProvenance(p) \/ VerifyChecksum(p) \/ ValidateCandidate(p)
  \/ InspectBackup(p) \/ InspectStaging(p)
  \/ OpenStaging(p)   \/ FinishWrite(p) \/ UnlinkBackup(p)
  \/ MoveAside(p)     \/ MoveIn(p)      \/ MoveInFails(p)
  \/ Rollback(p)      \/ InstallFails(p) \/ CrashInInstall(p)

----------------------------------------------------------------------------

InstallTypeOK ==
  /\ exe \in File \cup {None}
  /\ staging \in File \cup {None}
  /\ backup \in [Version -> File \cup {None}]
  /\ content \in [File -> [version: Version, genuine: BOOLEAN,
                           whole: BOOLEAN, by: Process \cup {None}]]
  /\ install \in [Process ->
       [at: {"idle", "release", "download", "provenance", "checksum", "candidate",
             "inspect", "staging", "open", "write", "unlink", "aside", "in",
             "rollback", "done"},
        current: Version \cup {None}, latest: Version \cup {None},
        manifest: BOOLEAN, archive: BOOLEAN,
        file: File \cup {None}, found: File \cup {None},
        result: Outcome \cup {None}]]
  /\ overlap \in BOOLEAN

\* Unless two installations overlapped, the executable is a whole program that
\* the project has published, or it is absent and a rollback copy that carries
\* the name of its release is one ("recover from", selfupdate.go:253), wherever
\* installations failed or died.
ExecutableOrBackup ==
  ~overlap =>
    \/ Whole(exe)
    \/ exe = None /\ \E v \in Version : Whole(backup[v])
                                        /\ content[backup[v]].version = v

\* "The previous executable is retained beside the installation"
\* (docs/install.md:238): for good, also when other installations, from the
\* same release or a later one, follow or fail; unless two overlapped.
PreviousRetained ==
  ~overlap =>
    \A p \in Process :
      install[p].result = "updated" =>
        LET copy == backup[install[p].current]
        IN Whole(copy) /\ content[copy].version = install[p].current

\* Existing paths "and every failed verification leave the installed executable
\* unchanged" (docs/adr/0007-verified-direct-self-update.md:46), and "original
\* was restored" (selfupdate.go:258): an installation that fails leaves the
\* file it found at the executable's path there, unless two overlapped.
FailureKeepsExecutable ==
  [][\A p \in Process :
       Replacing(p) /\ install'[p].result = "failed" /\ ~overlap =>
         exe' = install[p].found]_<<exe, install, overlap>>

\* "It never installs a prerelease or downgrade" (selfupdate.go:110): an
\* installation that began before another one ended does not undo it, unless
\* two overlapped.
NeverDowngrades ==
  ~overlap =>
    \A p \in Process :
      install[p].result = "updated" /\ exe # None =>
        content[exe].version >= install[p].latest
=============================================================================

------------------------------ MODULE Sandbox ------------------------------
(***************************************************************************)
(* One sandbox session of an embedded daemon: host files are copied in,    *)
(* commands run on the copies, results are registered as versions and      *)
(* written back.  Every call holds the registry's mutex from its first     *)
(* check to its last write, except a command, which only reads the         *)
(* session's environment under it.  The mutex orders calls; it does not    *)
(* hold back the user editing the host file, a running command, or a copy  *)
(* failing half way, so a commit is taken step by step.                    *)
(*                                                                         *)
(* A file is its content (0: no file, -1: half copied); a version's id is  *)
(* the hash of the content it was registered with.                         *)
(***************************************************************************)
EXTENDS Integers

CONSTANTS FileRefs,     \* host files by reference; a sandbox copy each
          SaveTargets,  \* save-as paths
          Contents,     \* positive integers
          Modes,        \* permission modes; "full" among them
          MaxEdits      \* bound: edits by the user and by commands (none starts after
                        \* it), and sessions replaced

(* Contents are told from no file (0) and a half-copied one (-1); host     *)
(* files exist at the start.                                               *)
ASSUME SandboxAssumption ==
    /\ Contents \subseteq Nat \ {0}
    /\ 1 \in Contents
    /\ "none" \notin FileRefs \cup SaveTargets

VARIABLES sbMode,     \* PermissionSnapshot.mode
          sbRefs,     \* host_file_refs and imported_files
          sbRuntime,  \* a runtime is registered
          sbRunning,  \* a command is running on the environment it was given
          sbFiles,    \* [FileRefs -> content] in the workspace
          hostFiles,  \* [FileRefs \cup SaveTargets -> content]
          sbVersions, \* [Bytes -> NoVersion or [file, src, status]]
          backups,    \* {<<target, content>>} in the workspace
          commit,     \* the commit holding the mutex, or NoCommit
          sbEdits     \* of MaxEdits

sandboxVars == <<sbMode, sbRefs, sbRuntime, sbRunning, sbFiles, hostFiles,
                 sbVersions, backups, commit, sbEdits>>

NoSource == "none"
NoVersion == [file |-> NoSource, src |-> NoSource, status |-> "none"]
NoCommit == [pc |-> "free", kind |-> "none", id |-> 0, target |-> NoSource, raced |-> FALSE]

Bytes == Contents \cup {-1}
NoVersions == [c \in Bytes |-> NoVersion]

SandboxInit ==
    /\ sbMode \in Modes
    /\ sbRefs = {}
    /\ sbRuntime = FALSE
    /\ sbRunning = FALSE
    /\ sbFiles = [f \in FileRefs |-> 0]
    /\ hostFiles = [t \in FileRefs \cup SaveTargets |-> IF t \in FileRefs THEN 1 ELSE 0]
    /\ sbVersions = NoVersions
    /\ backups = {}
    /\ commit = NoCommit
    /\ sbEdits = 0

Free == commit.pc = "free"
Disk == <<sbFiles, hostFiles, backups, sbEdits>>
Session == <<sbMode, sbRefs, sbRuntime, sbVersions>>

----------------------------------------------------------------------------
(* create_session under an id in use replaces the session: what it knew of *)
(* references and versions goes, the workspace stays.                      *)
CreateSession(m) ==
    /\ Free
    /\ sbEdits < MaxEdits
    /\ sbEdits' = sbEdits + 1
    /\ sbMode' = m
    /\ sbRefs' = {}
    /\ sbRuntime' = FALSE
    /\ sbVersions' = NoVersions
    /\ UNCHANGED <<sbRunning, commit, sbFiles, hostFiles, backups>>

(* Mutant: the mode is changed without the registry's mutex.               *)
MutUpdatePermission(m) ==
    /\ sbMode' = m
    /\ UNCHANGED <<sbRefs, sbRuntime, sbVersions, sbRunning, commit>> /\ UNCHANGED Disk

UpdatePermission(m) ==
    /\ Free
    /\ sbMode' = m
    /\ UNCHANGED <<sbRefs, sbRuntime, sbVersions, sbRunning, commit>> /\ UNCHANGED Disk

RegisterRuntime ==
    /\ Free
    /\ sbRuntime' = TRUE
    /\ UNCHANGED <<sbMode, sbRefs, sbVersions, sbRunning, commit>> /\ UNCHANGED Disk

(* import_file: the host file is copied in and both maps note it.          *)
ImportFile(r) ==
    /\ Free
    /\ hostFiles[r] # 0
    /\ sbFiles' = [sbFiles EXCEPT ![r] = hostFiles[r]]
    /\ sbRefs' = sbRefs \cup {r}
    /\ UNCHANGED <<sbMode, sbRuntime, sbVersions, sbRunning, commit, hostFiles, backups, sbEdits>>

(* The executable is looked for where registered runtimes are.             *)
resolve_executable == sbRuntime

(* execute_sandbox_command reads the environment under the mutex; the      *)
(* session may change or go while the command runs.                        *)
ExecuteCommand ==
    /\ Free
    /\ resolve_executable
    /\ ~sbRunning
    /\ sbEdits < MaxEdits
    /\ sbRunning' = TRUE
    /\ UNCHANGED commit /\ UNCHANGED Session /\ UNCHANGED Disk

CommandWrites(f, c) ==
    /\ sbRunning
    /\ sbEdits < MaxEdits
    /\ sbFiles' = [sbFiles EXCEPT ![f] = c]
    /\ sbEdits' = sbEdits + 1
    /\ UNCHANGED <<sbRunning, commit, hostFiles, backups>> /\ UNCHANGED Session

(* It exits or its timeout kills it.                                       *)
CommandEnds ==
    /\ sbRunning
    /\ sbRunning' = FALSE
    /\ UNCHANGED commit /\ UNCHANGED Session /\ UNCHANGED Disk

(* A path of the workspace that names a file.                              *)
resolve_existing_sandbox_path(f) == sbFiles[f] # 0

(* register_file_version: the id is the hash, so equal content under any   *)
(* path or source replaces the entry, as a candidate again.  The source is *)
(* what the caller says it is.                                             *)
RegisterVersion(f, src) ==
    /\ Free
    /\ resolve_existing_sandbox_path(f)
    /\ sbVersions' = [sbVersions EXCEPT ![sbFiles[f]] =
                         [file |-> f, src |-> src, status |-> "candidate"]]
    /\ UNCHANGED <<sbMode, sbRefs, sbRuntime, sbRunning, commit>> /\ UNCHANGED Disk

(* A commit needs full permission, a confirmed overwrite and a save-as do  *)
(* not.                                                                    *)
RequiresFull(kind) == kind = "commit"

(* A save-as goes where it says; the others to the version's source, which *)
(* the session must have imported.                                         *)
CommitTarget(id, kind, target) ==
    IF kind = "saveAs" THEN target \in SaveTargets
    ELSE target = sbVersions[id].src /\ target \in sbRefs

(* commit_registered_version up to the copy.                               *)
CommitStart(id, kind, target) ==
    /\ Free
    /\ RequiresFull(kind) => sbMode = "full"
    /\ sbVersions[id] # NoVersion
    /\ CommitTarget(id, kind, target)
    /\ commit' = [pc |-> "backup", kind |-> kind, id |-> id, target |-> target,
                  raced |-> FALSE]
    /\ UNCHANGED sbRunning /\ UNCHANGED Session /\ UNCHANGED Disk

(* create_backup when the target exists; a failure ends the call.          *)
CommitBackup ==
    /\ commit.pc = "backup"
    /\ \/ /\ backups' = IF hostFiles[commit.target] = 0 THEN backups
                        ELSE backups \cup {<<commit.target, hostFiles[commit.target]>>}
          /\ commit' = [commit EXCEPT !.pc = "copy"]
       \/ commit' = NoCommit /\ UNCHANGED backups
    /\ UNCHANGED <<sbRunning, sbFiles, hostFiles, sbEdits>> /\ UNCHANGED Session

(* fs::copy opens and truncates the target before the bytes are there.     *)
CommitTruncate ==
    /\ commit.pc = "copy"
    /\ sbFiles[sbVersions[commit.id].file] # 0
    /\ hostFiles' = [hostFiles EXCEPT ![commit.target] = -1]
    /\ commit' = [commit EXCEPT !.pc = "fill"]
    /\ UNCHANGED <<sbRunning, sbFiles, backups, sbEdits>> /\ UNCHANGED Session

(* The version is committed, and unless this was a save-as the other       *)
(* candidates of its source are superseded.                                *)
mark_version_committed(id, kind) ==
    [c \in Bytes |->
        IF c = id THEN [sbVersions[id] EXCEPT !.status = "committed"]
        ELSE IF /\ kind # "saveAs"
                /\ sbVersions[c].src = sbVersions[id].src
                /\ sbVersions[c].status = "candidate"
             THEN [sbVersions[c] EXCEPT !.status = "superseded"]
        ELSE sbVersions[c]]

(* The bytes are the sandbox file's of now, not those of the registration. *)
CommitFill ==
    /\ commit.pc = "fill"
    /\ hostFiles' = [hostFiles EXCEPT ![commit.target] = sbFiles[sbVersions[commit.id].file]]
    /\ sbVersions' = mark_version_committed(commit.id, commit.kind)
    /\ commit' = NoCommit
    /\ UNCHANGED <<sbMode, sbRefs, sbRuntime, sbRunning, sbFiles, backups, sbEdits>>

(* The copy fails, before or after the target was truncated: the error is  *)
(* returned and no status changes.                                         *)
CommitFails ==
    /\ commit.pc \in {"copy", "fill"}
    /\ commit' = NoCommit
    /\ UNCHANGED sbRunning /\ UNCHANGED Session /\ UNCHANGED Disk

(* The user saves the host file in another program.                        *)
UserEdits(r, c) ==
    /\ sbEdits < MaxEdits
    /\ hostFiles' = [hostFiles EXCEPT ![r] = c]
    /\ sbEdits' = sbEdits + 1
    /\ commit' = IF commit.target = r /\ commit.pc = "copy"
                 THEN [commit EXCEPT !.raced = TRUE] ELSE commit
    /\ UNCHANGED <<sbRunning, sbFiles, backups>> /\ UNCHANGED Session

----------------------------------------------------------------------------
SandboxNext ==
    \/ \E m \in Modes : CreateSession(m) \/ UpdatePermission(m)
    \/ RegisterRuntime \/ ExecuteCommand \/ CommandEnds
    \/ \E r \in FileRefs : ImportFile(r)
    \/ \E f \in FileRefs, c \in Contents : CommandWrites(f, c) \/ UserEdits(f, c)
    \/ \E f \in FileRefs, src \in FileRefs \cup {NoSource} : RegisterVersion(f, src)
    \/ \E id \in Bytes, kind \in {"commit", "confirm", "saveAs"},
          t \in FileRefs \cup SaveTargets : CommitStart(id, kind, t)
    \/ CommitBackup \/ CommitTruncate \/ CommitFill \/ CommitFails

SandboxSpec == SandboxInit /\ [][SandboxNext]_sandboxVars

----------------------------------------------------------------------------
(* A host file's content is overwritten only when a backup holds it,       *)
(* unless the user saved between the backup and the copy.                  *)
BackedUp ==
    \A t \in DOMAIN hostFiles :
        (commit.pc = "copy" /\ hostFiles'[t] = -1 /\ hostFiles[t] > 0) =>
            <<t, hostFiles[t]>> \in backups \/ commit.raced

(* An unconfirmed commit has full permission until its last byte: the mode *)
(* cannot be lowered between the check and the copy.                       *)
FullToTheEnd == commit.kind = "commit" => sbMode = "full"

(* A half-copied host file can be put back: its last content is in a       *)
(* backup, or the user saved during the commit, or there was none.         *)
Restorable ==
    \A t \in FileRefs : hostFiles[t] = -1 =>
        (\E b \in backups : b[1] = t) \/ commit.raced

(* After a commit to its source no other candidate of that source is left. *)
OthersSuperseded ==
    (commit.pc = "fill" /\ commit'.pc = "free" /\ commit.kind # "saveAs"
     /\ sbVersions' # sbVersions) =>
        \A c \in Bytes \ {commit.id} :
            sbVersions'[c].src = sbVersions[commit.id].src =>
                sbVersions'[c].status # "candidate"

(* What the sandbox's file lifecycle promises about the user's files.      *)
SandboxKeepsFiles ==
    [][BackedUp /\ FullToTheEnd' /\ Restorable' /\ OthersSuperseded]_sandboxVars
=============================================================================

------------------------------ MODULE Upgrade ------------------------------
(***************************************************************************)
(* One machine's installed binaries, version marker, admin files and pid   *)
(* file, and the processes that change them: `ahandctl` commands (start,   *)
(* stop, restart, upgrade) and the daemons, each of which may update       *)
(* itself when the hub says so.  They share files, not locks, and any of   *)
(* them may die between two steps.                                         *)
(*                                                                         *)
(* A binary is [v, is]: its version and whether the file is "whole",       *)
(* "torn" (half written) or "bad" (a corrupt download that no checksum was *)
(* there to refuse).  The Unix arm; ahandctl's own binary is swapped the   *)
(* same way as ahandd's and is not tracked apart.                          *)
(***************************************************************************)
EXTENDS Naturals

CONSTANTS Pids,        \* process ids of daemons, each launched once
          FirstPid,    \* the daemon running at the start
          CtlAsks,     \* per ahandctl process, the commands it may be given
          Versions,    \* release versions, naturals
          MaxRetries,  \* UpdateParams.max_retries
          MaxUpdates   \* bound: updates the hub asks for

VARIABLES binary,    \* bin/ahandd
          tmpFile,   \* bin/ahandd.update.tmp, or NoFile
          marker,    \* the version file
          dist,      \* admin/dist: "old", "new" or "none"
          pidFile,   \* data/daemon.pid: a pid, or 0
          proc,      \* per pid: off, boot, up, told (signalled), dead; version
          upd,       \* per pid: the update task
          ctl,       \* per ahandctl process: command, pc, pid read, bytes
          asks,      \* updates asked for so far
          overlap,   \* history: two installers were at work at once
          crossed,   \* history: a daemon launched beside a live one, or its
                     \* pid file removed by a command about another
          spaDied    \* history: an upgrade died or failed inside the dist swap

machineVars == <<binary, tmpFile, marker, dist, pidFile, proc, upd, ctl, asks,
                 overlap, crossed, spaDied>>

Ctls == DOMAIN CtlAsks
NoFile == [v |-> 0, is |-> "none"]
NoUpdate == [pc |-> "none", v |-> 0, tries |-> 0, is |-> "whole"]
NoCommand == [pc |-> "idle", cmd |-> "none", pid |-> 0, v |-> 0, is |-> "whole"]

Live(p) == proc[p].st \in {"boot", "up", "told"}

(* Between opening the temp file and renaming it.                          *)
Swapping(u) == u.pc \in {"write", "rename"}

UpgradeInit ==
    /\ binary = [v |-> 1, is |-> "whole"]
    /\ tmpFile = NoFile
    /\ marker = 1
    /\ dist = "old"
    /\ pidFile = FirstPid
    /\ proc = [p \in Pids |-> IF p = FirstPid THEN [st |-> "up", v |-> 1]
                              ELSE [st |-> "off", v |-> 0]]
    /\ upd = [p \in Pids |-> NoUpdate]
    /\ ctl = [c \in Ctls |-> NoCommand]
    /\ asks = 0
    /\ overlap = FALSE
    /\ crossed = FALSE
    /\ spaDied = FALSE

OnDisk == <<binary, tmpFile, marker, dist>>
History == <<overlap, crossed, spaDied>>

----------------------------------------------------------------------------
(* swap_binary_into, shared by both installers.                            *)

(* fs::write opens and truncates the one temp path there is.               *)
OpenTemp(v) ==
    /\ tmpFile' = [v |-> v, is |-> "torn"]
    /\ overlap' = (overlap \/ (\E p \in Pids : Swapping(upd[p]))
                           \/ (\E c \in Ctls : Swapping(ctl[c])))
    /\ UNCHANGED <<binary, marker, dist, crossed, spaDied>>

(* The write ends; if another installer renamed the file meanwhile, the    *)
(* bytes went to where it now is.                                          *)
FillTemp(v, is) ==
    /\ IF tmpFile = NoFile
       THEN /\ binary' = [v |-> v, is |-> is]
            /\ UNCHANGED tmpFile
       ELSE /\ tmpFile' = [v |-> v, is |-> is]
            /\ UNCHANGED binary
    /\ UNCHANGED <<marker, dist>> /\ UNCHANGED History

RenameTemp ==
    /\ tmpFile # NoFile
    /\ binary' = tmpFile
    /\ tmpFile' = NoFile
    /\ UNCHANGED <<marker, dist>> /\ UNCHANGED History

----------------------------------------------------------------------------
(* The daemon process.                                                     *)

(* main: the pid file is written once the configuration is loaded.         *)
Boot(p) ==
    /\ proc[p].st = "boot"
    /\ proc' = [proc EXCEPT ![p].st = "up"]
    /\ pidFile' = p
    /\ UNCHANGED <<upd, ctl, asks>> /\ UNCHANGED OnDisk /\ UNCHANGED History

(* The shutdown signal, or the main loop ending: the pid file is removed,  *)
(* whoever's it is, and the process is gone with its update task.          *)
Exit(p) ==
    /\ proc[p].st \in {"up", "told"}
    /\ proc' = [proc EXCEPT ![p].st = "dead"]
    /\ upd' = [upd EXCEPT ![p] = NoUpdate]
    /\ pidFile' = 0
    /\ UNCHANGED <<ctl, asks>> /\ UNCHANGED OnDisk /\ UNCHANGED History

(* Killed, or a crash: nothing is cleaned up.                              *)
Killed(p) ==
    /\ proc' = [proc EXCEPT ![p].st = "dead"]
    /\ upd' = [upd EXCEPT ![p] = NoUpdate]

DaemonDies(p) ==
    /\ Live(p)
    /\ Killed(p)
    /\ UNCHANGED <<pidFile, ctl, asks>> /\ UNCHANGED OnDisk /\ UNCHANGED History

----------------------------------------------------------------------------
(* The daemon's update task.                                               *)

UpdRest == UNCHANGED <<pidFile, proc, ctl, asks>>
UpdGoto(p, pc) == upd' = [upd EXCEPT ![p].pc = pc]

(* spawn_update: newer than what runs, and the slot is free.               *)
SpawnUpdate(p, v) ==
    /\ proc[p].st = "up"
    /\ asks < MaxUpdates
    /\ asks' = asks + 1
    /\ upd' = IF v > proc[p].v /\ upd[p].pc \in {"none", "failed"}
              THEN [upd EXCEPT ![p] = [NoUpdate EXCEPT !.pc = "download", !.v = v]]
              ELSE upd
    /\ UNCHANGED <<pidFile, proc, ctl>> /\ UNCHANGED OnDisk /\ UNCHANGED History

(* A retriable failure: back off and start over, or give up.               *)
Retry(p) ==
    upd' = [upd EXCEPT ![p].tries = @ + 1,
                       ![p].pc = IF upd[p].tries + 1 >= MaxRetries THEN "failed" ELSE "download"]

(* download_binary and verify_checksum: what passes the checksum is whole; *)
(* an update without one is not checked.                                   *)
Downloads == {is \in {"whole", "bad"} : \E checked \in BOOLEAN : checked => is = "whole"}

UpdDownload(p) ==
    /\ upd[p].pc = "download"
    /\ \/ Retry(p)
       \/ \E is \in Downloads : upd' = [upd EXCEPT ![p].pc = "open", ![p].is = is]
    /\ UpdRest /\ UNCHANGED OnDisk /\ UNCHANGED History

(* verify_signature fails: the update ends, no retry.                      *)
UpdSignature(p) ==
    /\ upd[p].pc = "open"
    /\ UpdGoto(p, "failed")
    /\ UpdRest /\ UNCHANGED OnDisk /\ UNCHANGED History

UpdOpen(p) ==
    /\ upd[p].pc = "open"
    /\ OpenTemp(upd[p].v)
    /\ UpdGoto(p, "write")
    /\ UpdRest

UpdWrite(p) ==
    /\ upd[p].pc = "write"
    /\ FillTemp(upd[p].v, upd[p].is)
    /\ UpdGoto(p, "rename")
    /\ UpdRest

(* The write, the chmod or the directory fails: the temp file stays.       *)
UpdWriteFails(p) ==
    /\ upd[p].pc = "write"
    /\ Retry(p)
    /\ UpdRest /\ UNCHANGED OnDisk /\ UNCHANGED History

UpdRename(p) ==
    /\ upd[p].pc = "rename"
    /\ RenameTemp
    /\ UpdGoto(p, "mark")
    /\ UpdRest

(* The rename fails; the temp file is removed.                             *)
UpdRenameFails(p) ==
    /\ upd[p].pc = "rename"
    /\ tmpFile' = NoFile
    /\ Retry(p)
    /\ UNCHANGED <<binary, marker, dist>> /\ UNCHANGED History
    /\ UpdRest

UpdMark(p) ==
    /\ upd[p].pc = "mark"
    /\ marker' = upd[p].v
    /\ UpdGoto(p, "exec")
    /\ UNCHANGED <<binary, tmpFile, dist>> /\ UNCHANGED History
    /\ UpdRest

(* exec keeps the pid and starts over with the binary that is there now;   *)
(* a binary that does not run leaves the old process, which retries.       *)
UpdExec(p) ==
    /\ upd[p].pc = "exec"
    /\ IF binary.is = "whole"
       THEN /\ proc' = [proc EXCEPT ![p] = [st |-> "boot", v |-> binary.v]]
            /\ upd' = [upd EXCEPT ![p] = NoUpdate]
       ELSE Retry(p) /\ UNCHANGED proc
    /\ UNCHANGED <<pidFile, ctl, asks>> /\ UNCHANGED OnDisk /\ UNCHANGED History

----------------------------------------------------------------------------
(* ahandctl.                                                               *)

CtlGoto(c, pc) == ctl' = [ctl EXCEPT ![c].pc = pc]
CtlRest == UNCHANGED <<pidFile, proc, upd, asks>>
Still == UNCHANGED OnDisk /\ UNCHANGED History

Command(c, cmd, v) ==
    /\ ctl[c].pc = "idle"
    /\ ctl' = [ctl EXCEPT ![c] = [NoCommand EXCEPT
                   !.cmd = cmd, !.v = IF cmd = "upgrade" THEN v ELSE 0,
                   !.pc = IF cmd = "upgrade" THEN "fetch" ELSE "read"]]
    /\ CtlRest /\ Still

(* perform_upgrade downloads and verifies everything before it stops the   *)
(* daemon; without a checksum file nothing is verified.                    *)
Fetch(c) ==
    /\ ctl[c].pc = "fetch"
    /\ \/ CtlGoto(c, "failed")
       \/ \E is \in Downloads : ctl' = [ctl EXCEPT ![c].pc = "read", ![c].is = is]
    /\ CtlRest /\ Still

(* Where a command goes when no daemon is running, or no longer is.        *)
NoDaemon(c) ==
    CASE ctl[c].cmd = "start" -> "launch"
      [] ctl[c].cmd = "stop" -> "ok"
      [] ctl[c].cmd = "restart" -> "again"
      [] ctl[c].cmd = "upgrade" -> "open"

(* read_running_pid_at: a live pid, none, or a stale one.                  *)
ReadPid(c) ==
    /\ ctl[c].pc = "read"
    /\ ctl' = [ctl EXCEPT
           ![c].pid = IF pidFile # 0 /\ Live(pidFile) THEN pidFile ELSE 0,
           ![c].pc = IF pidFile = 0 THEN NoDaemon(c)
                     ELSE IF ~Live(pidFile) THEN "stale"
                     ELSE IF ctl[c].cmd = "start" THEN "ok" ELSE "signal"]
    /\ CtlRest /\ Still

(* remove_file on the pid path, whoever's pid it holds by now.             *)
DropPidFile(mine) ==
    /\ pidFile' = 0
    /\ crossed' = (crossed \/ (pidFile \notin {0, mine} /\ Live(pidFile)))
    /\ UNCHANGED <<overlap, spaDied>> /\ UNCHANGED OnDisk

DropStale(c) ==
    /\ ctl[c].pc = "stale"
    /\ DropPidFile(0)
    /\ CtlGoto(c, NoDaemon(c))
    /\ UNCHANGED <<proc, upd, asks>>

(* Start spawns the installed binary; 500 ms later it only looks whether   *)
(* the process is still there.                                             *)
Launch(c, p) ==
    /\ ctl[c].pc = "launch"
    /\ proc[p].st = "off"
    /\ proc' = [proc EXCEPT ![p] =
           [st |-> IF binary.is = "whole" THEN "boot" ELSE "dead", v |-> binary.v]]
    /\ crossed' = (crossed \/ (binary.is = "whole" /\ \E q \in Pids : Live(q)))
    /\ CtlGoto(c, "ok")
    /\ UNCHANGED <<pidFile, upd, asks, overlap, spaDied>> /\ UNCHANGED OnDisk

(* SIGTERM: a daemon past its start shuts down in its own time; before     *)
(* that nothing catches the signal.                                        *)
Signal(c) ==
    /\ ctl[c].pc = "signal"
    /\ LET p == ctl[c].pid IN
       CASE proc[p].st = "up" -> proc' = [proc EXCEPT ![p].st = "told"] /\ UNCHANGED upd
         [] proc[p].st = "boot" -> Killed(p)
         [] OTHER -> UNCHANGED <<proc, upd>>
    /\ CtlGoto(c, "wait")
    /\ UNCHANGED <<pidFile, asks>> /\ Still

(* Mutant: ten seconds pass and the command goes on regardless.            *)
MutWaitGone(c) ==
    /\ ctl[c].pc = "wait"
    /\ CtlGoto(c, NoDaemon(c))
    /\ DropPidFile(ctl[c].pid)
    /\ UNCHANGED <<proc, upd, asks>>

(* It exited, or ten seconds passed and it is killed; then the pid file is *)
(* removed if there is one, whoever's it is.                               *)
WaitGone(c) ==
    /\ ctl[c].pc = "wait"
    /\ IF Live(ctl[c].pid) THEN Killed(ctl[c].pid) ELSE UNCHANGED <<proc, upd>>
    /\ CtlGoto(c, NoDaemon(c))
    /\ DropPidFile(ctl[c].pid)
    /\ UNCHANGED asks

(* restart is stop and then start: the pid file is read again.             *)
StartAgain(c) ==
    /\ ctl[c].pc = "again"
    /\ ctl' = [ctl EXCEPT ![c].pc = "read", ![c].cmd = "start"]
    /\ CtlRest /\ Still

CtlOpen(c) ==
    /\ ctl[c].pc = "open"
    /\ OpenTemp(ctl[c].v)
    /\ CtlGoto(c, "write")
    /\ CtlRest

CtlWrite(c) ==
    /\ ctl[c].pc = "write"
    /\ FillTemp(ctl[c].v, ctl[c].is)
    /\ CtlGoto(c, "rename")
    /\ CtlRest

CtlRename(c) ==
    /\ ctl[c].pc = "rename"
    /\ RenameTemp
    /\ \E spa \in BOOLEAN : CtlGoto(c, IF spa THEN "aside" ELSE "mark")
    /\ CtlRest

CtlRenameFails(c) ==
    /\ ctl[c].pc = "rename"
    /\ tmpFile' = NoFile
    /\ CtlGoto(c, "failed")
    /\ UNCHANGED <<binary, marker, dist>> /\ UNCHANGED History
    /\ CtlRest

(* extract_admin_spa, once the archive is unpacked beside it: the old      *)
(* directory is renamed aside, or the archive was refused before that.     *)
SpaAside(c) ==
    /\ ctl[c].pc = "aside"
    /\ \/ dist' = "none" /\ CtlGoto(c, "spa")
       \/ UNCHANGED dist /\ CtlGoto(c, "failed")
    /\ UNCHANGED <<binary, tmpFile, marker>> /\ UNCHANGED History
    /\ CtlRest

(* The new one is renamed in; on failure the old one is put back, which    *)
(* may fail as well.                                                       *)
SpaIn(c) ==
    /\ ctl[c].pc = "spa"
    /\ \/ dist' = "new" /\ CtlGoto(c, "mark") /\ UNCHANGED spaDied
       \/ dist' = "old" /\ CtlGoto(c, "failed") /\ UNCHANGED spaDied
       \/ UNCHANGED dist /\ CtlGoto(c, "failed") /\ spaDied' = TRUE
    /\ UNCHANGED <<binary, tmpFile, marker, overlap, crossed>>
    /\ CtlRest

CtlMark(c) ==
    /\ ctl[c].pc = "mark"
    /\ marker' = ctl[c].v
    /\ CtlGoto(c, "ok")
    /\ UNCHANGED <<binary, tmpFile, dist>> /\ UNCHANGED History
    /\ CtlRest

(* Killed, or a step fails with nothing to undo: a download, a write, the  *)
(* swap of ahandctl itself.                                                *)
CtlDies(c) ==
    /\ ctl[c].pc \notin {"idle", "ok", "failed"}
    /\ CtlGoto(c, "failed")
    /\ spaDied' = (spaDied \/ ctl[c].pc = "spa")
    /\ UNCHANGED <<overlap, crossed>> /\ UNCHANGED OnDisk
    /\ CtlRest

----------------------------------------------------------------------------
UpgradeNext ==
    \/ \E p \in Pids :
          \/ Boot(p) \/ Exit(p) \/ DaemonDies(p)
          \/ \E v \in Versions : SpawnUpdate(p, v)
          \/ UpdDownload(p) \/ UpdSignature(p) \/ UpdOpen(p) \/ UpdWrite(p)
          \/ UpdWriteFails(p) \/ UpdRename(p) \/ UpdRenameFails(p) \/ UpdMark(p) \/ UpdExec(p)
    \/ \E c \in Ctls :
          \/ \E cmd \in CtlAsks[c], v \in Versions : Command(c, cmd, v)
          \/ Fetch(c) \/ ReadPid(c) \/ (\E p \in Pids : Launch(c, p))
          \/ DropStale(c) \/ Signal(c) \/ WaitGone(c) \/ StartAgain(c)
          \/ CtlOpen(c) \/ CtlWrite(c) \/ CtlRename(c) \/ CtlRenameFails(c)
          \/ SpaAside(c) \/ SpaIn(c) \/ CtlMark(c) \/ CtlDies(c)

UpgradeSpec == UpgradeInit /\ [][UpgradeNext]_machineVars

----------------------------------------------------------------------------
(* The installed daemon is never half written: a crash at any step leaves  *)
(* the old file or the new one, unless two installers shared the temp file. *)
InstalledWhole == binary.is = "torn" => overlap

(* The marker only ever moves to the version that is installed, so after a *)
(* crash it may lag behind the binary and never runs ahead of it.          *)
MarkerFollows == marker' # marker => marker' = binary.v \/ overlap

(* An upgrade puts no binary in place under a running daemon it could have *)
(* found: one that has written its pid file, was not launched beside       *)
(* another and did not start after the stop.                               *)
StoppedFirst ==
    \A c \in Ctls : (ctl[c].cmd = "upgrade" /\ ctl[c].pid # 0
                     /\ ctl[c].pc \in {"open", "write", "rename", "mark"}) =>
        ~Live(ctl[c].pid)

(* A running daemon is the one the pid file names, so that stop, restart   *)
(* and upgrade find it and start does not launch a second; only commands   *)
(* that cross each other, or a start before the last daemon wrote its pid, *)
(* undo that.                                                              *)
PidKnown ==
    \A p \in Pids : proc[p].st = "up" /\ ~crossed => pidFile = p

(* The admin files are missing only after an upgrade stopped between its   *)
(* two renames, or its roll back failed as well.                           *)
DistKept ==
    (dist = "none" /\ \A c \in Ctls : ctl[c].pc # "spa") => spaDied

(* What start, stop, restart, upgrade and self-update keep of the machine. *)
UpgradeSound ==
    [][InstalledWhole' /\ DistKept' /\ StoppedFirst' /\ PidKnown'
       /\ MarkerFollows]_machineVars
=============================================================================

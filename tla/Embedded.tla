------------------------------ MODULE Embedded ------------------------------
(***************************************************************************)
(* The daemon as a library: public_api::spawn loads or creates the device  *)
(* identity, reserves the device in the process-wide table and starts one  *)
(* task that connects for ever and reports a status.  Several callers, in  *)
(* one process or several, share an identity directory.  Files are shared  *)
(* between processes, the table is not; a process may die at any step.     *)
(***************************************************************************)
EXTENDS Naturals

CONSTANTS Spawners,     \* callers of spawn, positive numbers; a key is its maker's number
          ProcessOf,    \* [Spawners -> processes]
          AuthModes,    \* how many ways hello is tried: 1, or 2 with a token
          MaxSpawns     \* bound: calls of spawn per caller

VARIABLES idFile,    \* the key in the identity file, 0: no file
          idLock,    \* the creation lock file exists
          spawner,   \* per caller: [pc, key, task, status, mode]
          activeSet, \* ACTIVE_DAEMONS of each process: {<<process, key>>}
          spawns     \* per caller: calls so far

embeddedVars == <<idFile, idLock, spawner, activeSet, spawns>>

NoHandle == [pc |-> "idle", key |-> 0, task |-> "none", status |-> "none", mode |-> 1]

EmbeddedInit ==
    /\ idFile = 0
    /\ idLock = FALSE
    /\ spawner = [s \in Spawners |-> NoHandle]
    /\ activeSet = {}
    /\ spawns = [s \in Spawners |-> 0]

At(s, pc) == spawner[s].pc = pc
Moves(s, pc) == spawner' = [spawner EXCEPT ![s].pc = pc]
Guard(s) == <<ProcessOf[s], spawner[s].key>>

----------------------------------------------------------------------------
SpawnDaemon(s) ==
    /\ At(s, "idle")
    /\ spawns[s] < MaxSpawns
    /\ spawns' = [spawns EXCEPT ![s] = @ + 1]
    /\ Moves(s, "look")
    /\ UNCHANGED <<idFile, idLock, activeSet>>

Loaded(s, pc) == spawner' = [spawner EXCEPT ![s].pc = pc, ![s].key = idFile]

(* load_or_create: a file that exists is read; it is written by rename, so *)
(* it is never seen half written.                                          *)
LoadIdentity(s) ==
    /\ At(s, "look")
    /\ IF idFile # 0 THEN Loaded(s, "reserve") ELSE Moves(s, "lock")
    /\ UNCHANGED <<idFile, idLock, activeSet, spawns>>

(* acquire_creation_lock: create_new, or the lock is someone's: then look  *)
(* again after a pause.                                                    *)
LockIdentity(s) ==
    /\ At(s, "lock")
    /\ IF idLock
       THEN /\ Moves(s, "look")
            /\ UNCHANGED idLock
       ELSE /\ Moves(s, "locked")
            /\ idLock' = TRUE
    /\ UNCHANGED <<idFile, activeSet, spawns>>

(* Mutant: the file is not looked for again under the lock.                *)
MutCreateIdentity(s) ==
    /\ At(s, "locked")
    /\ idFile' = s
    /\ spawner' = [spawner EXCEPT ![s].pc = "reserve", ![s].key = s]
    /\ idLock' = FALSE
    /\ UNCHANGED <<activeSet, spawns>>

(* Under the lock: someone else's file is taken, otherwise a new key is    *)
(* generated and saved; the lock file goes when the guard is dropped.      *)
CreateIdentity(s) ==
    /\ At(s, "locked")
    /\ IF idFile # 0
       THEN Loaded(s, "reserve") /\ UNCHANGED idFile
       ELSE /\ idFile' = s
            /\ spawner' = [spawner EXCEPT ![s].pc = "reserve", ![s].key = s]
    /\ idLock' = FALSE
    /\ UNCHANGED <<activeSet, spawns>>

(* The save fails: spawn returns the error, the guard removes the lock.    *)
SaveFails(s) ==
    /\ At(s, "locked")
    /\ idFile = 0
    /\ spawner' = [spawner EXCEPT ![s] = NoHandle]
    /\ idLock' = FALSE
    /\ UNCHANGED <<idFile, activeSet, spawns>>

(* reserve_active_daemon: refused while a daemon of this process has the   *)
(* device; otherwise the task starts with the guard.                       *)
ReserveActive(s) ==
    /\ At(s, "reserve")
    /\ IF Guard(s) \in activeSet
       THEN spawner' = [spawner EXCEPT ![s] = NoHandle] /\ UNCHANGED activeSet
       ELSE /\ activeSet' = activeSet \cup {Guard(s)}
            /\ spawner' = [spawner EXCEPT ![s].pc = "held", ![s].task = "dial",
                                          ![s].status = "connecting"]
    /\ UNCHANGED <<idFile, idLock, spawns>>

----------------------------------------------------------------------------
TaskOf(s, t) == spawner[s].task = t
Reports(s, task, status, mode) ==
    /\ spawner' = [spawner EXCEPT ![s].task = task, ![s].status = status, ![s].mode = mode]
    /\ UNCHANGED <<idFile, idLock, activeSet, spawns>>

(* connect_reporting: the hello is accepted and reported ...               *)
HelloAccepted(s) == TaskOf(s, "dial") /\ Reports(s, "up", "online", spawner[s].mode)

(* ... or rejected, and the next mode is tried; when every mode was        *)
(* rejected that is reported.                                              *)
HelloRejected(s) ==
    /\ TaskOf(s, "dial")
    /\ IF spawner[s].mode < AuthModes
       THEN Reports(s, "dial", spawner[s].status, spawner[s].mode + 1)
       ELSE Reports(s, "pause", "error", 1)

(* Dialling, the handshake or the session fails: reported, no other mode.  *)
SessionFails(s) ==
    /\ TaskOf(s, "dial") \/ TaskOf(s, "up")
    /\ Reports(s, "pause", "error", 1)

(* The session ends cleanly.                                               *)
SessionCloses(s) == TaskOf(s, "up") /\ Reports(s, "pause", "connecting", 1)

(* The backoff passes.  The status stays what was last reported.           *)
DialAgain(s) == TaskOf(s, "pause") /\ Reports(s, "dial", spawner[s].status, 1)

(* shutdown, or the handle dropped: the client is dropped wherever it is   *)
(* and Offline is sent ...                                                 *)
Shutdown(s) ==
    /\ At(s, "held")
    /\ spawner[s].task \in {"dial", "up", "pause"}
    /\ Reports(s, "ending", "offline", 1)

(* ... and the guard goes with the task, which shutdown waits for.         *)
TaskEnds(s) ==
    /\ TaskOf(s, "ending")
    /\ activeSet' = activeSet \ {Guard(s)}
    /\ spawner' = [spawner EXCEPT ![s] = NoHandle]
    /\ UNCHANGED <<idFile, idLock, spawns>>

(* The process dies with everything in it; its lock file stays.            *)
ProcessDies(p) ==
    /\ \E s \in Spawners : ProcessOf[s] = p /\ ~At(s, "idle")
    /\ spawner' = [s \in Spawners |-> IF ProcessOf[s] = p THEN NoHandle ELSE spawner[s]]
    /\ activeSet' = {g \in activeSet : g[1] # p}
    /\ UNCHANGED <<idFile, idLock, spawns>>

EmbeddedNext ==
    \/ \E s \in Spawners :
          \/ SpawnDaemon(s) \/ LoadIdentity(s) \/ LockIdentity(s) \/ CreateIdentity(s)
          \/ SaveFails(s) \/ ReserveActive(s) \/ HelloAccepted(s) \/ HelloRejected(s)
          \/ SessionFails(s) \/ SessionCloses(s) \/ DialAgain(s) \/ Shutdown(s) \/ TaskEnds(s)
    \/ \E s \in Spawners : ProcessDies(ProcessOf[s])

EmbeddedSpec == EmbeddedInit /\ [][EmbeddedNext]_embeddedVars

----------------------------------------------------------------------------
(* Whoever has a key has the one in the file, whichever callers raced to   *)
(* create it and whoever died meanwhile: a device keeps its identity.      *)
OneIdentity == \A s \in Spawners : spawner[s].key # 0 => spawner[s].key = idFile

(* One process never runs two clients of one device.                       *)
OneClient ==
    \A s, t \in Spawners :
        (s # t /\ ProcessOf[s] = ProcessOf[t] /\ ~TaskOf(s, "none") /\ ~TaskOf(t, "none"))
            => spawner[s].key # spawner[t].key

(* The status says online exactly while a session is up.                   *)
StatusTrue == \A s \in Spawners : (spawner[s].status = "online") = TaskOf(s, "up")

(* What an embedding application may rely on.                              *)
EmbeddedSound == [][(OneIdentity /\ OneClient /\ StatusTrue)']_embeddedVars
=============================================================================

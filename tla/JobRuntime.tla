----------------------------- MODULE JobRuntime -----------------------------
(***************************************************************************)
(* The hub's JobRuntime for one device: create_job, cancel_job, frames     *)
(* from the device, the timeout and disconnect-grace tasks, and the        *)
(* connect and disconnect handlers, on every hub replica.  They share the  *)
(* job row (transition_status is one row-locked transaction, and refuses   *)
(* to leave a terminal status), the row's exit fields (update_terminal     *)
(* overwrites them) and the output stream.                                 *)
(*                                                                         *)
(* An activity is a kind of work on one job at one replica.  Each await on *)
(* the store or on the device separates two steps.  All ways to finish a   *)
(* job share the last three: transition the row, record the exit fields,   *)
(* push the finished event.                                                *)
(***************************************************************************)
EXTENDS Naturals

CONSTANTS Jobs, Replicas, None,
          Clients,     \* replicas that get the HTTP requests
          Reports,     \* ways the device ends a job, among AllReports
          MaxLinks,    \* bound: connections the device makes
          MaxFaults    \* bound: abandoned HTTP requests and replica crashes

(* JobFinished without an error, with one, with the error "cancelled", or  *)
(* JobRejected.                                                            *)
AllReports == {"ok", "error", "cancelled", "rejected"}

ASSUME RuntimeAssumption ==
    /\ None \notin Replicas
    /\ Clients \subseteq Replicas
    /\ Reports \subseteq AllReports
    /\ MaxLinks \in Nat
    /\ MaxFaults \in Nat

VARIABLES status,   \* jobs row: status
          result,   \* jobs row: exit fields, as the cause that wrote them
          pushed,   \* the causes told in finished events on the output stream
          act,      \* per job, kind and replica: where the activity is
          link,     \* replica the device is connected to, or None
          joining,  \* replicas where device_connected has yet to run
          leaving,  \* replicas where device_disconnected has yet to list jobs
          scan,     \* per replica: jobs it listed, with the status it saw
          dev,      \* per job: the device's side
          links, faults

vars == <<status, result, pushed, act, link, joining, leaving, scan, dev,
          links, faults>>

Terminal == {"finished", "failed", "cancelled"}
Statuses == {"none", "pending", "sent", "running"} \cup Terminal
Kinds == {"create", "cancel", "frame", "timeout", "disconnect", "cleanup"}
Acts == Kinds \X Replicas
Points == {"idle", "mark", "send", "arm", "check", "begin", "running", "sleep",
           "notify", "grace", "expired", "transition", "record", "push"}

(* The cause an activity finishes a job with, and the status it asks for.  *)
Cause(j, a) ==
    CASE a[1] = "create" -> "dispatch"
      [] a[1] = "cancel" -> "cancelled"
      [] a[1] = "timeout" -> "timeout"
      [] a[1] \in {"disconnect", "cleanup"} -> "disconnected"
      [] OTHER -> dev[j]

StatusOf(cause) ==
    CASE cause = "ok" -> "finished"
      [] cause = "cancelled" -> "cancelled"
      [] OTHER -> "failed"

Causes == AllReports \cup {"dispatch", "timeout", "disconnected"}

(* The shape of the rows, activities and timers.                           *)
TypeOK ==
    /\ status \in [Jobs -> Statuses]
    /\ result \in [Jobs -> Causes \cup {"none"}]
    /\ pushed \in [Jobs -> SUBSET Causes]
    /\ act \in [Jobs -> [Acts -> Points]]
    /\ link \in Replicas \cup {None}
    /\ joining \in SUBSET Replicas
    /\ leaving \in SUBSET Replicas
    /\ scan \in [Replicas -> SUBSET (Jobs \X Statuses)]
    /\ dev \in [Jobs -> {"none", "has", "cancelling"} \cup AllReports]
    /\ links \in 0..MaxLinks
    /\ faults \in 0..MaxFaults

Init ==
    /\ status = [j \in Jobs |-> "none"]
    /\ result = [j \in Jobs |-> "none"]
    /\ pushed = [j \in Jobs |-> {}]
    /\ act = [j \in Jobs |-> [a \in Acts |-> "idle"]]
    /\ link = None
    /\ scan = [r \in Replicas |-> {}]
    /\ joining = {}
    /\ leaving = {}
    /\ dev = [j \in Jobs |-> "none"]
    /\ links = 0
    /\ faults = 0

rowVars == <<status, result, pushed>>
linkVars == <<link, joining, leaving, scan, links>>

At(j, a, p) == act[j][a] = p
Go(j, a, p) == act' = [act EXCEPT ![j][a] = p]

(* clear_timeout_task, clear_disconnect_task: a task still in the map is   *)
(* aborted; a task that took itself out of the map runs on.                *)
ClearTimeout(f, r) ==
    [f EXCEPT ![<<"timeout", r>>] = IF @ \in {"sleep", "notify", "grace"} THEN "idle" ELSE @]
ClearDisconnect(f, r) ==
    [f EXCEPT ![<<"disconnect", r>>] = IF @ \in {"sleep", "expired"} THEN "idle" ELSE @]
ClearTasks(f, r) == ClearDisconnect(ClearTimeout(f, r), r)

(* replace_task: a new task takes the place of one still in the map; one   *)
(* that is finishing the job runs on, and the new one would find the job   *)
(* over.                                                                   *)
ReplaceTask(f, a) ==
    [f EXCEPT ![a] = IF @ \in {"transition", "record", "push"} THEN @ ELSE "sleep"]

(* Mutant: a terminal status may be replaced by another.                   *)
MutLegalAny(current, requested) == current = requested \/ requested # "pending"

(* resolve_status_transition: legal moves; asking for the present status   *)
(* is allowed and changes nothing.                                         *)
Legal(current, requested) ==
    \/ current = requested
    \/ current \in {"pending", "sent"} /\ requested \in {"running"} \cup Terminal
    \/ current = "pending" /\ requested = "sent"
    \/ current = "running" /\ requested \in Terminal

----------------------------------------------------------------------------
(* The last three steps of every way to finish a job.  A refused           *)
(* transition ends the activity before anything is recorded; in the        *)
(* disconnect handler the error also ends the handler's loop.              *)
Transition(j, a) ==
    /\ At(j, a, "transition")
    /\ LET to == StatusOf(Cause(j, a)) IN
          IF Legal(status[j], to)
          THEN /\ status' = [status EXCEPT ![j] = to]
               /\ Go(j, a, "record")
               /\ UNCHANGED scan
          ELSE /\ Go(j, a, "idle")
               /\ scan' = IF a[1] = "cleanup" THEN [scan EXCEPT ![a[2]] = {}] ELSE scan
               /\ UNCHANGED status
    /\ UNCHANGED <<result, pushed, link, joining, leaving, dev, links, faults>>

(* update_terminal.                                                        *)
Record(j, a) ==
    /\ At(j, a, "record")
    /\ result' = [result EXCEPT ![j] = Cause(j, a)]
    /\ Go(j, a, "push")
    /\ UNCHANGED <<status, pushed, linkVars, dev, faults>>

(* output_stream.push_finished.                                            *)
PushFinished(j, a) ==
    /\ At(j, a, "push")
    /\ pushed' = [pushed EXCEPT ![j] = @ \cup {Cause(j, a)}]
    /\ Go(j, a, "idle")
    /\ UNCHANGED <<status, result, linkVars, dev, faults>>

(* finish_job: an already terminal row only clears the tasks.              *)
FinishJob(j, a) ==
    /\ At(j, a, "check")
    /\ act' = [act EXCEPT ![j] =
                 [ClearTasks(@, a[2]) EXCEPT
                    ![a] = IF status[j] \in Terminal THEN "idle" ELSE "transition"]]
    /\ UNCHANGED <<rowVars, linkVars, dev, faults>>

----------------------------------------------------------------------------
(* create_job at replica r: the row is inserted once the device was seen   *)
(* online (a read of the device row, stale by the time of the insert) ...  *)
CreateJob(j, r) ==
    /\ status[j] = "none"
    /\ r \in Clients
    /\ links > 0
    /\ At(j, <<"create", r>>, "idle")
    /\ status' = [status EXCEPT ![j] = "pending"]
    /\ Go(j, <<"create", r>>, "mark")
    /\ UNCHANGED <<result, pushed, linkVars, dev, faults>>

(* ... marked sent (or found failed by the disconnect handler) ...         *)
MarkSent(j, r) ==
    /\ At(j, <<"create", r>>, "mark")
    /\ IF Legal(status[j], "sent")
       THEN status' = [status EXCEPT ![j] = "sent"] /\ Go(j, <<"create", r>>, "send")
       ELSE UNCHANGED status /\ Go(j, <<"create", r>>, "idle")
    /\ UNCHANGED <<result, pushed, linkVars, dev, faults>>

(* A request the device has, or is done with, is a duplicate to it.        *)
Received(d) == IF d = "none" THEN "has" ELSE d

(* ... and dispatched.  send works only where the device is connected; it  *)
(* can also fail after the request reached the outbox.                     *)
Dispatch(j, r) ==
    /\ At(j, <<"create", r>>, "send")
    /\ \/ /\ link = r
          /\ dev' = [dev EXCEPT ![j] = Received(@)]
          /\ \E p \in {"arm", "transition"} : Go(j, <<"create", r>>, p)
       \/ UNCHANGED dev /\ Go(j, <<"create", r>>, "transition")
    /\ UNCHANGED <<rowVars, linkVars, faults>>

(* Mutant: create_job schedules no timeout.                                *)
MutNoTimeout(j, r) ==
    /\ At(j, <<"create", r>>, "arm")
    /\ Go(j, <<"create", r>>, "idle")
    /\ UNCHANGED <<rowVars, linkVars, dev, faults>>

(* schedule_timeout.                                                       *)
ScheduleTimeout(j, r) ==
    /\ At(j, <<"create", r>>, "arm")
    /\ act' = [act EXCEPT ![j] =
                 ReplaceTask([@ EXCEPT ![<<"create", r>>] = "idle"], <<"timeout", r>>)]
    /\ UNCHANGED <<rowVars, linkVars, dev, faults>>

(* cancel_job at replica r.                                                *)
CancelJob(j, r) ==
    /\ r \in Clients
    /\ status[j] \notin Terminal \cup {"none"}
    /\ At(j, <<"cancel", r>>, "idle")
    /\ Go(j, <<"cancel", r>>, "send")
    /\ UNCHANGED <<rowVars, linkVars, dev, faults>>

ToldToCancel(d) == IF d = "has" THEN "cancelling" ELSE d

(* The CancelJob frame is sent, or send fails (before or after the frame   *)
(* reached the outbox) and the row is left alone.                          *)
SendCancel(j, r) ==
    /\ At(j, <<"cancel", r>>, "send")
    /\ \/ /\ link = r
          /\ dev' = [dev EXCEPT ![j] = ToldToCancel(@)]
          /\ \E p \in {"check", "idle"} : Go(j, <<"cancel", r>>, p)
       \/ UNCHANGED dev /\ Go(j, <<"cancel", r>>, "idle")
    /\ UNCHANGED <<rowVars, linkVars, faults>>

----------------------------------------------------------------------------
FrameIdle(r) == \A j \in Jobs : act[j][<<"frame", r>>] = "idle"

(* JobEvent: the disconnect task is cleared; a live job becomes running.   *)
JobEvent(j, r) ==
    /\ link = r
    /\ FrameIdle(r)
    /\ dev[j] \in {"has", "cancelling"}
    /\ act' = [act EXCEPT ![j] =
                 [ClearDisconnect(@, r) EXCEPT
                    ![<<"frame", r>>] = IF status[j] \in Terminal THEN "idle" ELSE "running"]]
    /\ UNCHANGED <<rowVars, linkVars, dev, faults>>

(* JobFinished or JobRejected, or its replay over a later connection.  A   *)
(* live job that finished is first made running.                           *)
JobFinished(j, r) ==
    /\ link = r
    /\ FrameIdle(r)
    /\ \E o \in Reports :
          /\ dev[j] \in {"has", "cancelling", o}
          /\ o = "cancelled" => dev[j] # "has"
          /\ dev' = [dev EXCEPT ![j] = o]
          /\ act' = [act EXCEPT ![j] =
                       [ClearDisconnect(@, r) EXCEPT
                          ![<<"frame", r>>] =
                             IF status[j] \in Terminal THEN "idle"
                             ELSE IF o = "rejected" \/ status[j] = "running"
                             THEN "check" ELSE "begin"]]
    /\ UNCHANGED <<rowVars, linkVars, faults>>

(* transition_job(Running) for either; a row that became terminal in the   *)
(* meantime makes the frame stale.                                         *)
MarkRunning(j, r) ==
    /\ act[j][<<"frame", r>>] \in {"running", "begin"}
    /\ IF Legal(status[j], "running")
       THEN /\ status' = [status EXCEPT ![j] = "running"]
            /\ Go(j, <<"frame", r>>, IF At(j, <<"frame", r>>, "begin") THEN "check" ELSE "idle")
       ELSE /\ UNCHANGED status
            /\ Go(j, <<"frame", r>>, "idle")
    /\ UNCHANGED <<result, pushed, linkVars, dev, faults>>

----------------------------------------------------------------------------
(* handle_job_timeout: after the job's timeout a live job is told to       *)
(* cancel, ...                                                             *)
TimeoutFires(j, r) ==
    /\ At(j, <<"timeout", r>>, "sleep")
    /\ Go(j, <<"timeout", r>>, IF status[j] \in Terminal THEN "idle" ELSE "notify")
    /\ UNCHANGED <<rowVars, linkVars, dev, faults>>

(* ... as far as it can be reached from here ...                           *)
TimeoutNotifies(j, r) ==
    /\ At(j, <<"timeout", r>>, "notify")
    /\ \/ link = r /\ dev' = [dev EXCEPT ![j] = ToldToCancel(@)]
       \/ UNCHANGED dev
    /\ Go(j, <<"timeout", r>>, "grace")
    /\ UNCHANGED <<rowVars, linkVars, faults>>

(* ... and after the grace period failed, the task out of the map.         *)
TimeoutGraceEnds(j, r) ==
    /\ At(j, <<"timeout", r>>, "grace")
    /\ act' = [act EXCEPT ![j] =
                 IF status[j] \in Terminal THEN [@ EXCEPT ![<<"timeout", r>>] = "idle"]
                 ELSE [ClearDisconnect(@, r) EXCEPT ![<<"timeout", r>>] = "transition"]]
    /\ UNCHANGED <<rowVars, linkVars, dev, faults>>

(* handle_disconnect_expired: is_connected looks at this replica only.     *)
DisconnectFires(j, r) ==
    /\ At(j, <<"disconnect", r>>, "sleep")
    /\ Go(j, <<"disconnect", r>>, IF link = r THEN "idle" ELSE "expired")
    /\ UNCHANGED <<rowVars, linkVars, dev, faults>>

(* A sent or running job is failed, the task out of the map.               *)
DisconnectExpires(j, r) ==
    /\ At(j, <<"disconnect", r>>, "expired")
    /\ act' = [act EXCEPT ![j] =
                 IF status[j] \notin {"sent", "running"}
                 THEN [@ EXCEPT ![<<"disconnect", r>>] = "idle"]
                 ELSE [ClearTimeout(@, r) EXCEPT ![<<"disconnect", r>>] = "transition"]]
    /\ UNCHANGED <<rowVars, linkVars, dev, faults>>

----------------------------------------------------------------------------
(* The device connects to replica r, leaving the replica it was at.        *)
Connect(r) ==
    /\ link # r
    /\ links < MaxLinks
    /\ links' = links + 1
    /\ link' = r
    /\ joining' = joining \cup {r}
    /\ leaving' = leaving \cup ({link} \ {None})
    /\ UNCHANGED <<rowVars, act, scan, dev, faults>>

(* The connection ends.                                                    *)
Disconnect ==
    /\ link # None
    /\ link' = None
    /\ leaving' = leaving \cup {link}
    /\ UNCHANGED <<rowVars, act, joining, scan, dev, links, faults>>

(* handle_device_connected.                                                *)
HandleConnected(r) ==
    /\ r \in joining
    /\ joining' = joining \ {r}
    /\ act' = [j \in Jobs |-> IF status[j] \in {"sent", "running"}
                              THEN ClearDisconnect(act[j], r) ELSE act[j]]
    /\ UNCHANGED <<rowVars, link, leaving, scan, dev, links, faults>>

(* handle_device_disconnected lists the device's jobs ...                  *)
ListJobs(r) ==
    /\ r \in leaving
    /\ scan[r] = {}
    /\ leaving' = leaving \ {r}
    /\ scan' = [scan EXCEPT ![r] = {<<j, status[j]>> : j \in {i \in Jobs : status[i] # "none"}}]
    /\ UNCHANGED <<rowVars, act, link, joining, dev, links, faults>>

(* ... and goes through the list: a pending job is finished before the     *)
(* next is looked at, a sent or running one gets a grace-period task.      *)
HandleDisconnected(r) ==
    /\ \A j \in Jobs : At(j, <<"cleanup", r>>, "idle")
    /\ \E e \in scan[r] :
          /\ scan' = [scan EXCEPT ![r] = @ \ {e}]
          /\ CASE e[2] = "pending" -> Go(e[1], <<"cleanup", r>>, "check")
               [] e[2] \in {"sent", "running"} ->
                     act' = [act EXCEPT ![e[1]] = ReplaceTask(@, <<"disconnect", r>>)]
               [] OTHER -> UNCHANGED act
    /\ UNCHANGED <<rowVars, link, joining, leaving, dev, links, faults>>

----------------------------------------------------------------------------
(* The HTTP client of create or cancel goes away and the handler's future  *)
(* is dropped at an await.                                                 *)
RequestDropped(j, a) ==
    /\ faults < MaxFaults
    /\ faults' = faults + 1
    /\ a[1] \in {"create", "cancel"}
    /\ ~At(j, a, "idle")
    /\ Go(j, a, "idle")
    /\ UNCHANGED <<rowVars, linkVars, dev>>

(* A replica stops: its tasks and its connection are gone.                 *)
Crash(r) ==
    /\ faults < MaxFaults
    /\ faults' = faults + 1
    /\ act' = [j \in Jobs |-> [a \in Acts |-> IF a[2] = r THEN "idle" ELSE act[j][a]]]
    /\ link' = IF link = r THEN None ELSE link
    /\ joining' = joining \ {r}
    /\ leaving' = leaving \ {r}
    /\ scan' = [scan EXCEPT ![r] = {}]
    /\ UNCHANGED <<rowVars, dev, links>>

----------------------------------------------------------------------------
Finishing(j, a) ==
    FinishJob(j, a) \/ Transition(j, a) \/ Record(j, a) \/ PushFinished(j, a)

Create(j, r) == CreateJob(j, r) \/ MarkSent(j, r) \/ Dispatch(j, r) \/ ScheduleTimeout(j, r)

Cancel(j, r) == CancelJob(j, r) \/ SendCancel(j, r)

Frame(j, r) == JobEvent(j, r) \/ JobFinished(j, r) \/ MarkRunning(j, r)

Timers(j, r) ==
    \/ TimeoutFires(j, r) \/ TimeoutNotifies(j, r) \/ TimeoutGraceEnds(j, r)
    \/ DisconnectFires(j, r) \/ DisconnectExpires(j, r)

Connection(r) == Connect(r) \/ HandleConnected(r) \/ ListJobs(r) \/ HandleDisconnected(r)

Next ==
    \/ \E j \in Jobs, a \in Acts : Finishing(j, a) \/ RequestDropped(j, a)
    \/ \E j \in Jobs, r \in Replicas :
          Create(j, r) \/ Cancel(j, r) \/ Frame(j, r) \/ Timers(j, r)
    \/ \E r \in Replicas : Connection(r) \/ Crash(r)
    \/ Disconnect

Spec == Init /\ [][Next]_vars

(* A started handler is polled to its end and every timer fires.  Nobody   *)
(* has to connect, send a frame, create or cancel.                         *)
FairSpec ==
    /\ Spec
    /\ \A j \in Jobs, a \in Acts : WF_vars(Finishing(j, a))
    /\ \A j \in Jobs, r \in Replicas :
          /\ WF_vars(MarkSent(j, r) \/ Dispatch(j, r) \/ ScheduleTimeout(j, r))
          /\ WF_vars(SendCancel(j, r))
          /\ WF_vars(MarkRunning(j, r))
          /\ WF_vars(TimeoutFires(j, r) \/ TimeoutNotifies(j, r) \/ TimeoutGraceEnds(j, r))
          /\ WF_vars(DisconnectFires(j, r) \/ DisconnectExpires(j, r))
    /\ \A r \in Replicas :
          WF_vars(HandleConnected(r) \/ ListJobs(r) \/ HandleDisconnected(r))

----------------------------------------------------------------------------
(* The exit fields of a job's row and every finished event its readers     *)
(* were sent agree with its status: however a cancel, a report from the    *)
(* device, a timeout and a lost connection race on any replicas,           *)
(* transition_job refuses all but one verdict before it is written.        *)
ReportsAgree ==
    \A j \in Jobs :
        /\ result[j] # "none" => StatusOf(result[j]) = status[j]
        /\ \A c \in pushed[j] : StatusOf(c) = status[j]

(* While no request is dropped and no replica stops, a job that is over,   *)
(* with no activity left, has its exit fields and a finished event: no     *)
(* abort of a timer task can hit it between transition and push, because   *)
(* handle_job_timeout and handle_disconnect_expired leave the map first.   *)
FinishedTold ==
    \A j \in Jobs :
        /\ faults = 0
        /\ status[j] \in Terminal
        /\ \A a \in Acts : At(j, a, "idle")
        => result[j] # "none" /\ pushed[j] # {}

(* Unless a request is dropped or a replica stops, every job that was      *)
(* inserted ends: schedule_timeout, the dispatch failure path or the       *)
(* disconnect handler sees to it, even if the device never answers.        *)
JobsTerminate ==
    \A j \in Jobs :
        status[j] = "pending" ~> (status[j] \in Terminal \/ faults > 0)
=============================================================================

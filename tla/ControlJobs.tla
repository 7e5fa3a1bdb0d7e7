---------------------------- MODULE ControlJobs -----------------------------
(***************************************************************************)
(* The control plane's job tracker of one hub replica: POST /jobs with an  *)
(* optional correlation id, the device's reports, the timeout task, and    *)
(* the event streams of GET /jobs/{id}/stream.                             *)
(*                                                                         *)
(* Each access to a DashMap is a step: the handlers run on the threads of  *)
(* one runtime.  A job is named by the POST that mints its id.  One user   *)
(* and one device: correlation_key keeps users apart, and requests refused *)
(* before register (scope, ownership, rate limit, offline) change nothing. *)
(* The records the output stream is given before a publish or a finalize   *)
(* are modelled by the waiting alone: a failure to write one is logged.    *)
(***************************************************************************)
EXTENDS Naturals, Sequences

CONSTANTS Posts,     \* POST /jobs requests
          Cids,      \* correlation ids
          cid,       \* the correlation id of each, or NoJob
          Streams,   \* GET /stream requests
          StreamCapacity,  \* JOB_EVENT_CHANNEL_CAPACITY
          NoJob

ASSUME ControlAssumption ==
    /\ cid \in [Posts -> Cids \cup {NoJob}]
    /\ StreamCapacity \in Nat \ {0}
    /\ NoJob \notin Cids \cup Posts \cup {"output", "finished", "closed"}

VARIABLES jobs,     \* live entries
          index,    \* correlation_index
          postAt,   \* per POST: where its handler is
          found,    \* per POST: the job id it read from the index
          knows,    \* jobs some client has been answered with
          timer,    \* per job: its timeout task
          fin,      \* per job: how far finalize is
          told,     \* per job: the terminal event finalize publishes
          has,      \* jobs the device was sent
          loop,     \* the frame the device's inbound loop is working on
          sub,      \* per stream: its job, its receiver and how it ended
          raced     \* history: correlation ids whose activities overlapped

mapVars == <<jobs, index>>
postVars == <<postAt, found, knows>>
jobVars == <<fin, told>>
controlVars == <<mapVars, postVars, jobVars, timer, has, loop, sub, raced>>

Outputs == {"output"}
Reports == {"finished"}
Terminal == Reports \cup {"timeout", "dispatch_failed"}

Resting == [ev |-> NoJob, job |-> NoJob]
NoStream == [at |-> "idle", job |-> NoJob, queue |-> <<>>, lag |-> FALSE, late |-> FALSE, end |-> NoJob]

ControlInit ==
    /\ jobs = {}
    /\ index = [c \in Cids |-> NoJob]
    /\ postAt = [p \in Posts |-> "idle"]
    /\ found = [p \in Posts |-> NoJob]
    /\ knows = {}
    /\ timer = [p \in Posts |-> "none"]
    /\ fin = [p \in Posts |-> "no"]
    /\ told = [p \in Posts |-> NoJob]
    /\ has = {}
    /\ loop = Resting
    /\ sub = [s \in Streams |-> NoStream]
    /\ raced = {}

----------------------------------------------------------------------------
(* An id is busy while a POST is between its lookup and its insertion, or  *)
(* while finalize runs for one of its jobs.                                *)
Busy(c) == \E p \in Posts : cid[p] = c /\ (postAt[p] \in {"check", "stale", "index", "insert"} \/
                                           fin[p] \in {"send", "look", "unindex"})

Overlaps(p) == raced' = raced \cup {c \in {cid[p]} \ {NoJob} : Busy(c)}

PostGoto(p, where) == postAt' = [postAt EXCEPT ![p] = where]

(* create_job: find_by_correlation reads the index, ...                    *)
Find(p) ==
    /\ postAt[p] = "idle"
    /\ Overlaps(p)
    /\ IF cid[p] = NoJob \/ index[cid[p]] = NoJob
       THEN PostGoto(p, "index") /\ UNCHANGED found
       ELSE PostGoto(p, "check") /\ found' = [found EXCEPT ![p] = index[cid[p]]]
    /\ UNCHANGED <<mapVars, knows, jobVars, timer, has, loop, sub>>

(* ... answers 200 with a live job, ...                                    *)
Check(p) ==
    /\ postAt[p] = "check"
    /\ IF found[p] \in jobs
       THEN PostGoto(p, "answered") /\ knows' = knows \cup {found[p]}
       ELSE PostGoto(p, "stale") /\ UNCHANGED knows
    /\ UNCHANGED <<mapVars, found, jobVars, timer, has, loop, sub, raced>>

(* ... and takes out a pointer to one that is gone.                        *)
DropStale(p) ==
    /\ postAt[p] = "stale"
    /\ index' = [index EXCEPT ![cid[p]] = NoJob]
    /\ PostGoto(p, "index")
    /\ UNCHANGED <<jobs, found, knows, jobVars, timer, has, loop, sub, raced>>

(* register: the index first, ...                                          *)
Index(p) ==
    /\ postAt[p] = "index"
    /\ index' = [c \in Cids |-> IF c = cid[p] THEN p ELSE index[c]]
    /\ PostGoto(p, "insert")
    /\ UNCHANGED <<jobs, found, knows, jobVars, timer, has, loop, sub, raced>>

(* ... then the job.                                                       *)
InsertJob(p) ==
    /\ postAt[p] = "insert"
    /\ jobs' = jobs \cup {p}
    /\ PostGoto(p, "send")
    /\ UNCHANGED <<index, found, knows, jobVars, timer, has, loop, sub, raced>>

(* send_envelope, which may fail with the frame on its way all the same;   *)
(* the client may leave while it is awaited.                               *)
SendEnvelope(p) ==
    /\ postAt[p] = "send"
    /\ \/ PostGoto(p, "spawn") /\ has' = has \cup {p}
       \/ PostGoto(p, "rollback") /\ has' \in {has, has \cup {p}}
       \/ PostGoto(p, "dropped") /\ has' \in {has, has \cup {p}}
    /\ UNCHANGED <<mapVars, found, knows, jobVars, timer, loop, sub, raced>>

(* spawn_control_job_timeout, and the 202.                                 *)
Spawn(p) ==
    /\ postAt[p] = "spawn"
    /\ timer' = [timer EXCEPT ![p] = "armed"]
    /\ knows' = knows \cup {p}
    /\ PostGoto(p, "answered")
    /\ UNCHANGED <<mapVars, found, jobVars, has, loop, sub, raced>>

----------------------------------------------------------------------------
(* Mutant: the entry is read, not removed.                                 *)
MutFinalize(j, ev) ==
    IF j \in jobs
    THEN /\ fin' = [fin EXCEPT ![j] = "send"]
         /\ told' = [told EXCEPT ![j] = ev]
         /\ Overlaps(j)
         /\ UNCHANGED jobs
    ELSE UNCHANGED <<jobs, jobVars, raced>>

(* finalize: whoever removes the entry publishes, the others return.       *)
Finalize(j, ev) ==
    IF j \in jobs
    THEN /\ jobs' = jobs \ {j}
         /\ fin' = [fin EXCEPT ![j] = "send"]
         /\ told' = [told EXCEPT ![j] = ev]
         /\ Overlaps(j)
    ELSE UNCHANGED <<jobs, jobVars, raced>>

Rollback(p) ==
    /\ postAt[p] = "rollback"
    /\ Finalize(p, "dispatch_failed")
    /\ PostGoto(p, "answered")
    /\ UNCHANGED <<index, found, knows, timer, has, loop, sub>>

(* Sending to a broadcast channel: every receiver, unless it fell behind.  *)
Sent(j, ev) ==
    [s \in Streams |->
        IF sub[s].at # "open" \/ sub[s].job # j THEN sub[s]
        ELSE IF Len(sub[s].queue) = StreamCapacity THEN [sub[s] EXCEPT !.lag = TRUE]
        ELSE [sub[s] EXCEPT !.queue = Append(@, ev)]]

Publish(j) ==
    /\ fin[j] = "send"
    /\ sub' = Sent(j, told[j])
    /\ fin' = [fin EXCEPT ![j] = "look"]
    /\ UNCHANGED <<mapVars, postVars, told, timer, has, loop, raced>>

(* The pointer is taken out in two accesses, the guard of the first being  *)
(* dropped before the second.                                              *)
Look(j) ==
    /\ fin[j] = "look"
    /\ fin' = [fin EXCEPT ![j] = IF cid[j] # NoJob /\ index[cid[j]] = j THEN "unindex" ELSE "over"]
    /\ UNCHANGED <<mapVars, postVars, told, timer, has, loop, sub, raced>>

Unindex(j) ==
    /\ fin[j] = "unindex"
    /\ index' = [index EXCEPT ![cid[j]] = NoJob]
    /\ fin' = [fin EXCEPT ![j] = "over"]
    /\ UNCHANGED <<jobs, postVars, told, timer, has, loop, sub, raced>>

----------------------------------------------------------------------------
(* The timeout task looks the job up; it sends a CancelJob and records the *)
(* end in the output stream, ...                                           *)
TimerFires(j) ==
    /\ timer[j] = "armed"
    /\ timer' = [timer EXCEPT ![j] = IF j \in jobs THEN "sends" ELSE "over"]
    /\ UNCHANGED <<mapVars, postVars, jobVars, has, loop, sub, raced>>

(* Mutant: the task ends when the CancelJob cannot be sent.                *)
MutTimerFinalizes(j) ==
    /\ timer[j] = "sends"
    /\ Finalize(j, "timeout") \/ UNCHANGED <<jobs, jobVars, raced>>
    /\ timer' = [timer EXCEPT ![j] = "over"]
    /\ UNCHANGED <<index, postVars, has, loop, sub>>

(* ... then finalizes.                                                     *)
TimerFinalizes(j) ==
    /\ timer[j] = "sends"
    /\ Finalize(j, "timeout")
    /\ timer' = [timer EXCEPT ![j] = "over"]
    /\ UNCHANGED <<index, postVars, has, loop, sub>>

----------------------------------------------------------------------------
(* dispatch_control_plane_event takes a frame of a job it tracks (any      *)
(* other is consumed or passed on); the device may repeat a report.  It    *)
(* writes to the output stream, ...                                        *)
Frame(j, ev) ==
    /\ loop = Resting
    /\ j \in has \cap jobs
    /\ loop' = [ev |-> ev, job |-> j]
    /\ UNCHANGED <<mapVars, postVars, jobVars, timer, has, sub, raced>>

(* ... then publishes output, holding the entry if it is still there, ...  *)
LoopPublish ==
    /\ loop.ev \in Outputs
    /\ sub' = IF loop.job \in jobs THEN Sent(loop.job, loop.ev) ELSE sub
    /\ loop' = Resting
    /\ UNCHANGED <<mapVars, postVars, jobVars, timer, has, raced>>

(* ... or finalizes on JobFinished or JobRejected.                         *)
LoopFinalizes ==
    /\ loop.ev \in Reports
    /\ Finalize(loop.job, loop.ev)
    /\ loop' = Resting
    /\ UNCHANGED <<index, postVars, timer, has, sub>>

----------------------------------------------------------------------------
(* stream_job clones the entry's Arc, or answers 404, ...                  *)
StreamGet(s, j) ==
    /\ sub[s].at = "idle"
    /\ j \in knows
    /\ sub' = [sub EXCEPT ![s].job = j,
                          ![s].at = IF j \in jobs THEN "got" ELSE "ended",
                          ![s].end = IF j \in jobs THEN NoJob ELSE "404"]
    /\ UNCHANGED <<mapVars, postVars, jobVars, timer, has, loop, raced>>

(* ... subscribes and drops the Arc.                                       *)
Subscribe(s) ==
    /\ sub[s].at = "got"
    /\ sub' = [sub EXCEPT ![s].at = "open",
                          ![s].late = fin[sub[s].job] \notin {"no", "send"}]
    /\ UNCHANGED <<mapVars, postVars, jobVars, timer, has, loop, raced>>

(* The last Arc is gone: of the map, of finalize, of a JobFinished handler *)
(* that looked the job up, of a stream about to subscribe.                 *)
Closed(j) ==
    /\ j \notin jobs
    /\ fin[j] = "over"
    /\ ~(loop.job = j /\ loop.ev = "finished")
    /\ \A s \in Streams : ~(sub[s].at = "got" /\ sub[s].job = j)

End(s, how) == sub' = [sub EXCEPT ![s].at = "ended", ![s].end = how]

(* recv: a lag is reported once and ends the stream, as a terminal event   *)
(* and a closed channel do.                                                *)
Recv(s) ==
    /\ sub[s].at = "open"
    /\ LET q == sub[s].queue IN
       \/ sub[s].lag /\ End(s, "lagged")
       \/ /\ ~sub[s].lag /\ q # <<>>
          /\ IF Head(q) \in Terminal THEN End(s, "terminal")
             ELSE sub' = [sub EXCEPT ![s].queue = Tail(q)]
       \/ ~sub[s].lag /\ q = <<>> /\ Closed(sub[s].job) /\ End(s, "closed")
    /\ UNCHANGED <<mapVars, postVars, jobVars, timer, has, loop, raced>>

----------------------------------------------------------------------------
Create(p) ==
    \/ Check(p) \/ DropStale(p) \/ Index(p) \/ InsertJob(p) \/ SendEnvelope(p) \/ Spawn(p) \/ Rollback(p)

Job(j) ==
    \/ Publish(j) \/ Look(j) \/ Unindex(j)
    \/ TimerFires(j) \/ TimerFinalizes(j)

Loop == LoopPublish \/ LoopFinalizes

ControlNext ==
    \/ \E p \in Posts : Find(p) \/ Create(p) \/ Job(p)
    \/ \E j \in Posts, ev \in Outputs \cup Reports : Frame(j, ev)
    \/ Loop
    \/ \E s \in Streams : (\E j \in Posts : StreamGet(s, j)) \/ Subscribe(s) \/ Recv(s)

ControlSpec == ControlInit /\ [][ControlNext]_controlVars

----------------------------------------------------------------------------
(* A receiver holds at most one terminal event, as its last, and it is the *)
(* one every other stream of the job is told, whoever finalizes.           *)
TerminalLast ==
    \A s \in Streams : \A i \in DOMAIN sub[s].queue :
        sub[s].queue[i] \in Terminal => i = Len(sub[s].queue) /\ sub[s].queue[i] = told[sub[s].job]

(* A stream ends without a word only when it subscribed after the terminal *)
(* event was sent ("shouldn't happen in normal flow").                     *)
SilentOnlyLate ==
    \A s \in Streams : sub[s].end = "closed" => sub[s].late

(* Idempotency: unless a POST overlapped another one or the end of a job   *)
(* under its correlation id, the id has at most one live job and the index *)
(* leads to it.                                                            *)
QuietIdsUnique ==
    \A c \in Cids \ raced : \A j \in jobs : cid[j] = c => index[c] = j

(* A live job has someone who will end it whatever the device does: its    *)
(* POST or its timeout task; unless the client left during the send.       *)
SomeoneWillEnd ==
    \A j \in jobs :
        \/ postAt[j] \in {"send", "spawn", "rollback", "dropped"}
        \/ timer[j] \in {"armed", "sends"}

(* The control plane's jobs end once, are found under their id, and are    *)
(* never without someone who will end them (ControlJobs, create_job).      *)
JobsEndOnce == TerminalLast /\ SilentOnlyLate /\ QuietIdsUnique /\ SomeoneWillEnd

(* Every stream ends, unless its job's POST was abandoned during the send. *)
StreamsEnd ==
    \A s \in Streams :
        sub[s].at = "open" ~> (sub[s].at = "ended" \/ sub[s].job \in {p \in Posts : postAt[p] = "dropped"})
=============================================================================

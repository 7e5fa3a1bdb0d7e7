----------------------------- MODULE DaemonJobs -----------------------------
(***************************************************************************)
(* Jobs inside the daemon.  Receive loops (the cloud connection and local  *)
(* IPC connections) handle JobRequest, CancelJob, ApprovalResponse and     *)
(* SetSessionMode one message at a time, each with its own caller; they    *)
(* share the JobRegistry, the ApprovalManager and the SessionManager.      *)
(* Every accepted request becomes a run: possibly an approval waiter, then *)
(* a task that waits for a permit, executes, and leaves the registry.      *)
(*                                                                         *)
(* An await on a lock or channel separates two steps.  The only operation  *)
(* that keeps the registry's jobs mutex across an await is cancel, which   *)
(* sends on a channel of capacity 1 while holding it.                      *)
(***************************************************************************)
EXTENDS Naturals, Sequences, FiniteSets

CONSTANTS Loops,          \* receive loops; each is also a caller uid
          Ids,            \* job ids
          Runs,           \* bound: runs the daemon ever starts
          None,
          Modes,          \* session modes callers may be put in
          MaxConcurrent,  \* permits of the semaphore
          MaxCompleted,   \* results kept for idempotency
          MaxCancels      \* bound: CancelJob messages the daemon gets

ASSUME JobsAssumption ==
    /\ None \notin Loops \cup Ids \cup Runs
    /\ IsFiniteSet(Runs)
    /\ Modes \subseteq {"inactive", "strict", "trust", "auto"}
    /\ MaxConcurrent \in Nat \ {0}
    /\ MaxCompleted \in Nat
    /\ MaxCancels \in Nat

VARIABLES loop,       \* per loop: what it is doing and to what
          jobsLock,   \* holder of the jobs mutex across an await, or None
          handle,     \* registry.jobs: per id, the run whose cancel_tx it is
          permits,
          completed,  \* ids of finished jobs, oldest first
          pending,    \* approval_mgr.pending: per id, the waiting run
          mode,       \* per caller; "expired" is trust past its deadline
          run,        \* per run: how far it is
          jid,        \* per run: its job id
          cancelBuf,  \* per run: messages in its cancel channel (0 or 1)
          answer,     \* per run: what its approval oneshot holds
          refusals,   \* per run: refusal log entries made for it
          outcome,    \* per run: the error of its JobFinished
          cancels     \* CancelJob messages so far

vars == <<loop, jobsLock, handle, permits, completed, pending, mode, run, jid,
          cancelBuf, answer, refusals, outcome, cancels>>

Idle == [at |-> "idle", of |-> None]
RunStates == {"free", "approval", "expiring", "rejected", "accepted", "registered",
              "queued", "running", "draining", "exited", "removed", "done"}

Holding == {r \in Runs : run[r] \in {"running", "draining", "exited", "removed"}}

Init ==
    /\ loop = [l \in Loops |-> Idle]
    /\ jobsLock = None
    /\ handle = [i \in Ids |-> None]
    /\ permits = MaxConcurrent
    /\ completed = <<>>
    /\ pending = [i \in Ids |-> None]
    /\ mode \in [Loops -> Modes]
    /\ run = [r \in Runs |-> "free"]
    /\ jid = [r \in Runs |-> None]
    /\ cancelBuf = [r \in Runs |-> 0]
    /\ answer = [r \in Runs |-> "none"]
    /\ refusals = [r \in Runs |-> 0]
    /\ outcome = [r \in Runs |-> "none"]
    /\ cancels = 0

registryVars == <<jobsLock, handle, permits, completed>>
approvalVars == <<pending, answer, refusals>>

Goto(l, at, of) == loop' = [loop EXCEPT ![l] = [at |-> at, of |-> of]]
Done(l) == loop' = [loop EXCEPT ![l] = Idle]

----------------------------------------------------------------------------
(* handle_job_request.  The request passed the capability check (one that  *)
(* does not is rejected without touching any of this state).               *)
JobRequest(l, i) ==
    /\ loop[l] = Idle
    /\ Goto(l, "known", i)
    /\ UNCHANGED <<registryVars, approvalVars, mode, run, jid, cancelBuf, outcome, cancels>>

(* Mutant: only the completed list is consulted.                           *)
MutSkipRunning(l) ==
    /\ loop[l].at = "known"
    /\ jobsLock = None
    /\ Goto(l, "completed", loop[l].of)
    /\ UNCHANGED <<registryVars, approvalVars, mode, run, jid, cancelBuf, outcome, cancels>>

(* is_known, first half: a registered job is ignored as a duplicate.       *)
CheckRunning(l) ==
    /\ loop[l].at = "known"
    /\ jobsLock = None
    /\ IF handle[loop[l].of] # None THEN Done(l) ELSE Goto(l, "completed", loop[l].of)
    /\ UNCHANGED <<registryVars, approvalVars, mode, run, jid, cancelBuf, outcome, cancels>>

InCompleted(i) == \E k \in DOMAIN completed : completed[k] = i

(* is_known, second half: a completed job's result is sent again.          *)
CheckCompleted(l) ==
    /\ loop[l].at = "completed"
    /\ IF InCompleted(loop[l].of) THEN Done(l) ELSE Goto(l, "session", loop[l].of)
    /\ UNCHANGED <<registryVars, approvalVars, mode, run, jid, cancelBuf, outcome, cancels>>

(* session_mgr.check: inactive and expired trust reject.                   *)
SessionDeny(l) ==
    /\ loop[l].at = "session"
    /\ mode[l] \in {"inactive", "expired"}
    /\ mode' = [mode EXCEPT ![l] = "inactive"]
    /\ Done(l)
    /\ UNCHANGED <<registryVars, approvalVars, run, jid, cancelBuf, outcome, cancels>>

(* Trust and auto-accept start the job at once.                            *)
SessionAllow(l) ==
    /\ loop[l].at = "session"
    /\ mode[l] \in {"trust", "auto"}
    /\ \E r \in Runs :
          /\ run[r] = "free"
          /\ run' = [run EXCEPT ![r] = "accepted"]
          /\ jid' = [jid EXCEPT ![r] = loop[l].of]
          /\ Goto(l, "spawn", r)
    /\ UNCHANGED <<registryVars, approvalVars, mode, cancelBuf, outcome, cancels>>

(* Mutant: submit keeps an entry that is already there.                    *)
MutSubmitKeeps(l) ==
    /\ loop[l].at = "session"
    /\ mode[l] = "strict"
    /\ LET i == loop[l].of IN \E r \in Runs :
          /\ run[r] = "free"
          /\ run' = [run EXCEPT ![r] = "approval"]
          /\ jid' = [jid EXCEPT ![r] = i]
          /\ pending' = [pending EXCEPT ![i] = IF @ = None THEN r ELSE @]
    /\ Done(l)
    /\ UNCHANGED <<registryVars, answer, refusals, mode, cancelBuf, outcome, cancels>>

(* Strict: approval_mgr.submit replaces whatever was pending under this    *)
(* id, dropping its oneshot sender; a waiter task is spawned.              *)
SessionNeedsApproval(l) ==
    /\ loop[l].at = "session"
    /\ mode[l] = "strict"
    /\ LET i == loop[l].of IN \E r \in Runs :
          /\ run[r] = "free"
          /\ run' = [run EXCEPT ![r] = "approval"]
          /\ jid' = [jid EXCEPT ![r] = i]
          /\ pending' = [pending EXCEPT ![i] = r]
          /\ answer' = IF pending[i] = None THEN answer
                       ELSE [answer EXCEPT ![pending[i]] = "dropped"]
    /\ Done(l)
    /\ UNCHANGED <<registryVars, refusals, mode, cancelBuf, outcome, cancels>>

(* Mutant: the handle is not inserted.                                     *)
MutRegisterNothing(r) ==
    /\ run[r] = "accepted"
    /\ jobsLock = None
    /\ run' = [run EXCEPT ![r] = "registered"]
    /\ UNCHANGED <<loop, registryVars, approvalVars, mode, jid, cancelBuf, outcome, cancels>>

(* spawn_job, first await: registry.register.                              *)
Register(r) ==
    /\ run[r] = "accepted"
    /\ jobsLock = None
    /\ handle' = [handle EXCEPT ![jid[r]] = r]
    /\ run' = [run EXCEPT ![r] = "registered"]
    /\ UNCHANGED <<loop, jobsLock, permits, completed, approvalVars, mode, jid, cancelBuf,
                   outcome, cancels>>

(* Second await: active_count; then the task is spawned and a loop that    *)
(* got here goes back to reading.                                          *)
Spawn(r) ==
    /\ run[r] = "registered"
    /\ jobsLock = None
    /\ run' = [run EXCEPT ![r] = "queued"]
    /\ loop' = [l \in Loops |-> IF loop[l] = [at |-> "spawn", of |-> r] THEN Idle ELSE loop[l]]
    /\ UNCHANGED <<registryVars, approvalVars, mode, jid, cancelBuf, outcome, cancels>>

----------------------------------------------------------------------------
(* The spawned task: acquire_permit, then the child process.               *)
AcquirePermit(r) ==
    /\ run[r] = "queued"
    /\ permits > 0
    /\ permits' = permits - 1
    /\ run' = [run EXCEPT ![r] = "running"]
    /\ UNCHANGED <<loop, jobsLock, handle, completed, approvalVars, mode, jid, cancelBuf,
                   outcome, cancels>>

(* The select of run_job: the child exits, times out or never started...   *)
ChildEnds(r) ==
    /\ run[r] = "running"
    /\ run' = [run EXCEPT ![r] = "draining"]
    /\ \E o \in {"ok", "timeout", "error"} : outcome' = [outcome EXCEPT ![r] = o]
    /\ UNCHANGED <<loop, registryVars, approvalVars, mode, jid, cancelBuf, cancels>>

(* ... or a cancel message is received and the child is killed.            *)
Cancelled(r) ==
    /\ run[r] = "running"
    /\ cancelBuf[r] = 1
    /\ cancelBuf' = [cancelBuf EXCEPT ![r] = 0]
    /\ run' = [run EXCEPT ![r] = "draining"]
    /\ outcome' = [outcome EXCEPT ![r] = "cancelled"]
    /\ UNCHANGED <<loop, registryVars, approvalVars, mode, jid, cancels>>

(* The output streams end, JobFinished is sent and run_job returns, which  *)
(* drops the cancel receiver.                                              *)
Finish(r) ==
    /\ run[r] = "draining"
    /\ run' = [run EXCEPT ![r] = "exited"]
    /\ cancelBuf' = [cancelBuf EXCEPT ![r] = 0]
    /\ UNCHANGED <<loop, registryVars, approvalVars, mode, jid, outcome, cancels>>

(* registry.remove takes whatever handle the id has.                       *)
RemoveJob(r) ==
    /\ run[r] = "exited"
    /\ jobsLock = None
    /\ handle' = [handle EXCEPT ![jid[r]] = None]
    /\ run' = [run EXCEPT ![r] = "removed"]
    /\ UNCHANGED <<loop, jobsLock, permits, completed, approvalVars, mode, jid, cancelBuf,
                   outcome, cancels>>

(* Mutant: the permit is not given back.                                   *)
MutKeepPermit(r) ==
    /\ run[r] = "removed"
    /\ run' = [run EXCEPT ![r] = "done"]
    /\ completed' = IF MaxCompleted = 0 THEN <<>>
                    ELSE Append(IF Len(completed) = MaxCompleted THEN Tail(completed)
                                ELSE completed, jid[r])
    /\ UNCHANGED <<loop, jobsLock, handle, permits, approvalVars, mode, jid, cancelBuf,
                   outcome, cancels>>

(* mark_completed evicts the oldest result over the cap; the task ends and *)
(* its permit drops.                                                       *)
MarkCompleted(r) ==
    /\ run[r] = "removed"
    /\ run' = [run EXCEPT ![r] = "done"]
    /\ permits' = permits + 1
    /\ completed' = IF MaxCompleted = 0 THEN <<>>
                    ELSE Append(IF Len(completed) = MaxCompleted THEN Tail(completed)
                                ELSE completed, jid[r])
    /\ UNCHANGED <<loop, jobsLock, handle, approvalVars, mode, jid, cancelBuf, outcome, cancels>>

----------------------------------------------------------------------------
ReceiverAlive(r) == run[r] \in {"accepted", "registered", "queued", "running", "draining"}

CancelJob(l, i) ==
    /\ loop[l] = Idle
    /\ cancels < MaxCancels
    /\ cancels' = cancels + 1
    /\ Goto(l, "cancel", i)
    /\ UNCHANGED <<registryVars, approvalVars, mode, run, jid, cancelBuf, outcome>>

(* registry.cancel takes the jobs mutex.  No handle or a closed channel:   *)
(* only a warning.  Room in the channel: the signal is sent.  No room: it  *)
(* waits in send, holding the mutex.                                       *)
CancelLocks(l) ==
    /\ loop[l].at = "cancel"
    /\ jobsLock = None
    /\ LET r == handle[loop[l].of] IN
          \/ /\ (r = None \/ (r # None /\ ~ReceiverAlive(r)))
             /\ Done(l)
             /\ UNCHANGED <<jobsLock, cancelBuf>>
          \/ /\ r # None /\ ReceiverAlive(r) /\ cancelBuf[r] = 0
             /\ cancelBuf' = [cancelBuf EXCEPT ![r] = 1]
             /\ Done(l)
             /\ UNCHANGED jobsLock
          \/ /\ r # None /\ ReceiverAlive(r) /\ cancelBuf[r] = 1
             /\ jobsLock' = l
             /\ Goto(l, "cancelling", r)
             /\ UNCHANGED cancelBuf
    /\ UNCHANGED <<handle, permits, completed, approvalVars, mode, run, jid, outcome, cancels>>

(* The send completes: room again, or the receiver is gone.                *)
CancelSent(l) ==
    /\ loop[l].at = "cancelling"
    /\ LET r == loop[l].of IN
          /\ ~(ReceiverAlive(r) /\ cancelBuf[r] = 1)
          /\ cancelBuf' = [cancelBuf EXCEPT ![r] = IF ReceiverAlive(r) THEN 1 ELSE 0]
    /\ jobsLock' = None
    /\ Done(l)
    /\ UNCHANGED <<handle, permits, completed, approvalVars, mode, run, jid, outcome, cancels>>

----------------------------------------------------------------------------
(* apply_approval_response: resolve takes the entry and answers its        *)
(* waiter; a denial with a reason ("refuse") is logged.                    *)
ApprovalResponse(l, i, a) ==
    /\ loop[l] = Idle
    /\ pending[i] # None
    /\ pending' = [pending EXCEPT ![i] = None]
    /\ answer' = [answer EXCEPT ![pending[i]] = IF run[pending[i]] = "approval" THEN a ELSE @]
    /\ refusals' = [refusals EXCEPT ![pending[i]] = IF a = "refuse" THEN @ + 1 ELSE @]
    /\ UNCHANGED <<loop, registryVars, mode, run, jid, cancelBuf, outcome, cancels>>

(* The waiter: approved jobs are spawned.                                  *)
WaiterApproved(r) ==
    /\ run[r] = "approval"
    /\ answer[r] = "approve"
    /\ run' = [run EXCEPT ![r] = "accepted"]
    /\ UNCHANGED <<loop, registryVars, approvalVars, mode, jid, cancelBuf, outcome, cancels>>

(* Denied (logged once more when a reason was given), timed out, or the    *)
(* oneshot was dropped.                                                    *)
WaiterGivesUp(r) ==
    /\ run[r] = "approval"
    /\ answer[r] # "approve"
    /\ run' = [run EXCEPT ![r] = "expiring"]
    /\ refusals' = [refusals EXCEPT ![r] = IF answer[r] = "refuse" THEN @ + 1 ELSE @]
    /\ UNCHANGED <<loop, registryVars, pending, answer, mode, jid, cancelBuf, outcome, cancels>>

(* approval_mgr.expire takes whatever is pending under the id; JobRejected *)
(* is sent.                                                                *)
Expire(r) ==
    /\ run[r] = "expiring"
    /\ run' = [run EXCEPT ![r] = "rejected"]
    /\ pending' = [pending EXCEPT ![jid[r]] = None]
    /\ answer' = IF pending[jid[r]] \in Runs \ {r}
                 THEN [answer EXCEPT ![pending[jid[r]]] = "dropped"] ELSE answer
    /\ UNCHANGED <<loop, registryVars, refusals, mode, jid, cancelBuf, outcome, cancels>>

(* SetSessionMode for any caller; trust runs out.                          *)
SetSessionMode(l, c, m) ==
    /\ loop[l] = Idle
    /\ mode[c] # m
    /\ mode' = [mode EXCEPT ![c] = m]
    /\ UNCHANGED <<loop, registryVars, approvalVars, run, jid, cancelBuf, outcome, cancels>>

TrustExpires(c) ==
    /\ mode[c] = "trust"
    /\ mode' = [mode EXCEPT ![c] = "expired"]
    /\ UNCHANGED <<loop, registryVars, approvalVars, run, jid, cancelBuf, outcome, cancels>>

----------------------------------------------------------------------------
Handle(l) ==
    CheckRunning(l) \/ CheckCompleted(l) \/ SessionDeny(l) \/ SessionAllow(l)
        \/ SessionNeedsApproval(l) \/ CancelLocks(l) \/ CancelSent(l)

Task(r) ==
    Register(r) \/ Spawn(r) \/ AcquirePermit(r) \/ ChildEnds(r) \/ Cancelled(r)
        \/ Finish(r) \/ RemoveJob(r) \/ MarkCompleted(r)

Waiter(r) == WaiterApproved(r) \/ WaiterGivesUp(r) \/ Expire(r)

Receive(l) ==
    \/ \E i \in Ids : JobRequest(l, i) \/ CancelJob(l, i)
    \/ \E i \in Ids, a \in {"approve", "deny", "refuse"} : ApprovalResponse(l, i, a)
    \/ \E c \in Loops, m \in Modes : SetSessionMode(l, c, m)

Next ==
    \/ \E l \in Loops : Receive(l) \/ Handle(l) \/ TrustExpires(l)
    \/ \E r \in Runs : Task(r) \/ Waiter(r)

Spec == Init /\ [][Next]_vars

(* The runtime polls every task that can proceed, children end (by         *)
(* themselves, by their timeout or killed), and approvals end by their     *)
(* timeout.  Semaphore and mutex serve in order of arrival: a run that     *)
(* keeps seeing a permit, or the mutex, free gets it.                      *)
FairSpec ==
    /\ Spec
    /\ \A l \in Loops : WF_vars(Handle(l))
    /\ \A r \in Runs : SF_vars(Task(r)) /\ WF_vars(Waiter(r))
----------------------------------------------------------------------------
Executing(r) == run[r] \in {"running", "draining"}

(* A job id never has two children at the same time: a request for an id   *)
(* that is registered is dropped by is_known.                              *)
NoConcurrentRuns ==
    \A r, s \in Runs : r # s /\ Executing(r) /\ Executing(s) => jid[r] # jid[s]

(* CancelJob can reach every run that waits for a permit or executes: the  *)
(* registry's handle for its id is its own.                                *)
CancelReaches ==
    \A r \in Runs : run[r] \in {"queued", "running"} => handle[jid[r]] = r

(* No lost approval: a waiter that has no answer yet is the pending entry  *)
(* of its id, so a response can still reach it, and every pending entry    *)
(* has a waiter that has not finished.                                     *)
WaiterReachable ==
    /\ \A r \in Runs : run[r] = "approval" /\ answer[r] = "none" => pending[jid[r]] = r
    /\ \A i \in Ids : pending[i] # None =>
          jid[pending[i]] = i /\ run[pending[i]] \in {"approval", "expiring"}

Accepted(r) == run[r] \in {"accepted", "registered", "queued"} \/ r \in Holding

(* Every accepted job gets a permit, ends and leaves the registry: among   *)
(* boundedly many requests a time comes when none is left in the daemon.   *)
JobsLeave == (\E r \in Runs : Accepted(r)) ~> (\A r \in Runs : ~Accepted(r))
=============================================================================

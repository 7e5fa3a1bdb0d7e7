------------------------- MODULE DaemonJobsProofs ---------------------------
(***************************************************************************)
(* What holds of the daemon's jobs for any number of receive loops, ids    *)
(* and runs: approvals are never orphaned, permits are never lost; and,    *)
(* for the daemon of one loop without strict sessions, a job id has one    *)
(* child at a time and a CancelJob finds it.  Then two parts that live in  *)
(* the daemon's process beside them: the embedding library's spawn, and    *)
(* the BrowserManager.                                                     *)
(***************************************************************************)
EXTENDS DaemonJobs, Embedded, Browser, FiniteSetTheorems, TLAPS

LoopStates == {"idle", "known", "completed", "session", "spawn", "cancel", "cancelling"}
Answers == {"none", "dropped", "approve", "deny", "refuse"}

JobsTypes ==
    /\ loop \in [Loops -> [at : LoopStates, of : Ids \cup Runs \cup {None}]]
    /\ handle \in [Ids -> Runs \cup {None}]
    /\ pending \in [Ids -> Runs \cup {None}]
    /\ mode \in [Loops -> Modes \cup {"inactive", "expired"}]
    /\ run \in [Runs -> RunStates]
    /\ jid \in [Runs -> Ids \cup {None}]
    /\ answer \in [Runs -> Answers]
    /\ refusals \in [Runs -> Nat]
    /\ \A l \in Loops :
          loop[l].at \in {"known", "completed", "session", "cancel"} => loop[l].of \in Ids
    /\ \A r \in Runs : run[r] # "free" => jid[r] \in Ids

(* A pending entry belongs to a waiter without an answer, and conversely.  *)
WaiterInv ==
    /\ \A r \in Runs : run[r] = "free" => answer[r] = "none"
    /\ \A i \in Ids : pending[i] # None =>
          /\ jid[pending[i]] = i
          /\ run[pending[i]] \in {"approval", "expiring"}
          /\ answer[pending[i]] = "none"
    /\ \A r \in Runs : run[r] = "approval" /\ answer[r] = "none" => pending[jid[r]] = r

ApprovalInv == JobsTypes /\ WaiterInv

----------------------------------------------------------------------------
(* No waiter, no entry.                                                    *)
LEMMA ApprovalInit == Init => ApprovalInv
  BY JobsAssumption DEF Init, ApprovalInv, JobsTypes, WaiterInv, Idle, LoopStates, Answers, RunStates

(* What the loops do, message by message.                                  *)
LEMMA ReceiveKeepsWaiters ==
    ASSUME ApprovalInv, NEW l \in Loops, Receive(l)
    PROVE  ApprovalInv'
  <1> USE JobsAssumption DEF ApprovalInv
  <1>1. CASE \E i \in Ids : JobRequest(l, i) \/ CancelJob(l, i)
    <2>1. PICK i \in Ids, a \in {"known", "cancel"} : Goto(l, a, i)
      BY <1>1, Zenon DEF JobRequest, CancelJob
    <2>2. UNCHANGED <<handle, approvalVars, mode, run, jid>>
      BY <1>1, Zenon DEF JobRequest, CancelJob, registryVars
    <2> QED BY <2>1, <2>2 DEF Goto, JobsTypes, WaiterInv, approvalVars, LoopStates
  <1>2. CASE \E i \in Ids, a \in {"approve", "deny", "refuse"} : ApprovalResponse(l, i, a)
    <2>1. PICK i \in Ids, a \in {"approve", "deny", "refuse"} : ApprovalResponse(l, i, a)
      BY <1>2, Zenon
    <2>2. pending[i] \in Runs
      BY <2>1, Zenon DEF ApprovalResponse, JobsTypes
    <2>3. JobsTypes'
      BY <2>1, <2>2 DEF ApprovalResponse, JobsTypes, registryVars, Answers
    <2>4. WaiterInv'
      BY <2>1, <2>2 DEF ApprovalResponse, JobsTypes, WaiterInv, Answers
    <2> QED BY <2>3, <2>4, Zenon
  <1>3. CASE \E c \in Loops, m \in Modes : SetSessionMode(l, c, m)
    BY <1>3 DEF SetSessionMode, JobsTypes, WaiterInv, registryVars, approvalVars
  <1> QED BY <1>1, <1>2, <1>3, Zenon DEF Receive

(* The rest of a message's handling.                                       *)
LEMMA HandleKeepsWaiters ==
    ASSUME ApprovalInv, NEW l \in Loops, Handle(l)
    PROVE  ApprovalInv'
  <1> USE JobsAssumption DEF ApprovalInv
  <1>1. CASE CheckRunning(l) \/ CheckCompleted(l) \/ SessionDeny(l)
    <2>1. Done(l) \/ \E a \in {"completed", "session"} : Goto(l, a, loop[l].of)
      BY <1>1, Zenon DEF CheckRunning, CheckCompleted, SessionDeny
    <2>2. loop[l].of \in Ids
      BY <1>1, Zenon DEF CheckRunning, CheckCompleted, SessionDeny, JobsTypes
    <2>3. /\ UNCHANGED <<handle, approvalVars, run, jid>>
          /\ mode' \in [Loops -> Modes \cup {"inactive", "expired"}]
      BY <1>1, Zenon DEF CheckRunning, CheckCompleted, SessionDeny, registryVars, JobsTypes
    <2>4. WaiterInv'
      BY <2>3, Zenon DEF WaiterInv, approvalVars
    <2>5. CASE Done(l)
      BY <2>3, <2>4, <2>5 DEF Done, Idle, JobsTypes, approvalVars, LoopStates
    <2>6. ASSUME NEW a \in {"completed", "session"}, Goto(l, a, loop[l].of) PROVE JobsTypes'
      BY <2>2, <2>3, <2>6, Zenon DEF Goto, JobsTypes, approvalVars, LoopStates
    <2> QED BY <2>1, <2>4, <2>5, <2>6, Zenon
  <1>2. CASE SessionAllow(l)
    BY <1>2 DEF SessionAllow, JobsTypes, WaiterInv, Goto, registryVars, approvalVars, LoopStates,
                RunStates
  <1>3. CASE SessionNeedsApproval(l)
    <2> DEFINE i == loop[l].of
    <2>1. PICK r \in Runs :
             /\ run[r] = "free"
             /\ run' = [run EXCEPT ![r] = "approval"]
             /\ jid' = [jid EXCEPT ![r] = i]
             /\ pending' = [pending EXCEPT ![i] = r]
             /\ answer' = IF pending[i] = None THEN answer
                          ELSE [answer EXCEPT ![pending[i]] = "dropped"]
      BY <1>3, Zenon DEF SessionNeedsApproval
    <2>2. i \in Ids /\ UNCHANGED <<handle, mode, refusals>> /\ Done(l)
      BY <1>3, Zenon DEF SessionNeedsApproval, JobsTypes, registryVars
    <2>3. JobsTypes'
      BY <2>1, <2>2 DEF JobsTypes, Done, Idle, LoopStates, RunStates, Answers
    <2>4. WaiterInv'
      BY <2>1, <2>2 DEF JobsTypes, WaiterInv
    <2> QED BY <2>3, <2>4, Zenon
  <1>4. CASE CancelLocks(l)
    <2>1. loop' \in [Loops -> [at : LoopStates, of : Ids \cup Runs \cup {None}]]
      BY <1>4 DEF CancelLocks, JobsTypes, Done, Goto, Idle, LoopStates
    <2>2. \A k \in Loops : loop'[k].at \in {"known", "completed", "session", "cancel"} =>
                              loop'[k] = loop[k]
      BY <1>4 DEF CancelLocks, JobsTypes, Done, Goto, Idle
    <2> QED BY <1>4, <2>1, <2>2 DEF CancelLocks, JobsTypes, WaiterInv, approvalVars
  <1>5. CASE CancelSent(l)
    BY <1>5 DEF CancelSent, JobsTypes, WaiterInv, Done, Idle, approvalVars, LoopStates
  <1> QED BY <1>1, <1>2, <1>3, <1>4, <1>5, Zenon DEF Handle

(* The task of a run touches no approval; its waiter touches its own.      *)
LEMMA RunKeepsWaiters ==
    ASSUME ApprovalInv, NEW r \in Runs, Task(r) \/ Waiter(r)
    PROVE  ApprovalInv'
  <1> USE JobsAssumption DEF ApprovalInv
  <1>1. CASE Register(r) \/ RemoveJob(r)
    <2>1. jid[r] \in Ids
      BY <1>1, Zenon DEF Register, RemoveJob, JobsTypes
    <2> QED BY <1>1, <2>1, SMTT(40) DEF Register, RemoveJob, JobsTypes, WaiterInv, approvalVars, RunStates
  <1>2. CASE Spawn(r)
    BY <1>2 DEF Spawn, JobsTypes, WaiterInv, Idle, registryVars, approvalVars, RunStates, LoopStates
  <1>3. CASE AcquirePermit(r) \/ ChildEnds(r) \/ Cancelled(r) \/ Finish(r) \/ MarkCompleted(r)
    <2>1. PICK x \in {"running", "draining", "exited", "done"} : run' = [run EXCEPT ![r] = x]
      BY <1>3, Zenon DEF AcquirePermit, ChildEnds, Cancelled, Finish, MarkCompleted
    <2>2. run[r] \notin {"free", "approval", "expiring"}
      BY <1>3, Zenon DEF AcquirePermit, ChildEnds, Cancelled, Finish, MarkCompleted
    <2>3. UNCHANGED <<loop, handle, approvalVars, mode, jid>>
      BY <1>3, Zenon DEF AcquirePermit, ChildEnds, Cancelled, Finish, MarkCompleted, registryVars
    <2> QED BY <2>1, <2>2, <2>3 DEF JobsTypes, WaiterInv, approvalVars, RunStates
  <1>4. CASE WaiterApproved(r)
    BY <1>4 DEF WaiterApproved, JobsTypes, WaiterInv, registryVars, approvalVars, RunStates
  <1>5. CASE WaiterGivesUp(r)
    BY <1>5 DEF WaiterGivesUp, JobsTypes, WaiterInv, registryVars, RunStates
  <1>6. CASE Expire(r)
    <2>1. jid[r] \in Ids
      BY <1>6, Zenon DEF Expire, JobsTypes
    <2>2. JobsTypes'
      BY <1>6, <2>1, Zenon DEF Expire, JobsTypes, registryVars, RunStates, Answers
    <2>3. WaiterInv'
      BY <1>6, <2>1 DEF Expire, JobsTypes, WaiterInv
    <2> QED BY <2>2, <2>3, Zenon
  <1> QED BY <1>1, <1>2, <1>3, <1>4, <1>5, <1>6, Zenon DEF Task, Waiter

(* Every step of loops, runs and waiters keeps entries and waiters         *)
(* together.                                                               *)
LEMMA ApprovalStep == ApprovalInv /\ [Next]_vars => ApprovalInv'
  <1> SUFFICES ASSUME ApprovalInv, [Next]_vars PROVE ApprovalInv'
    BY Zenon
  <1>1. ASSUME NEW l \in Loops, Receive(l) \/ Handle(l) PROVE ApprovalInv'
    BY <1>1, ReceiveKeepsWaiters, HandleKeepsWaiters, Zenon
  <1>2. ASSUME NEW l \in Loops, TrustExpires(l) PROVE ApprovalInv'
    BY <1>2, Zenon DEF TrustExpires, ApprovalInv, JobsTypes, WaiterInv, registryVars, approvalVars
  <1>3. ASSUME NEW r \in Runs, Task(r) \/ Waiter(r) PROVE ApprovalInv'
    BY <1>3, RunKeepsWaiters, Zenon
  <1>4. CASE UNCHANGED vars
    BY <1>4, Zenon DEF vars, ApprovalInv, JobsTypes, WaiterInv
  <1> QED BY <1>1, <1>2, <1>3, <1>4, Zenon DEF Next

(* ApprovalManager never orphans a waiter: submit, resolve and expire each *)
(* take out whatever they find under the id, and still a waiter without an *)
(* answer is the entry a response would reach.                             *)
THEOREM WaitersStayReachable == Spec => []WaiterReachable
  <1>1. ApprovalInv => WaiterReachable
    BY Zenon DEF ApprovalInv, WaiterInv, WaiterReachable
  <1> QED BY <1>1, ApprovalInit, ApprovalStep, PTL DEF Spec

----------------------------------------------------------------------------
(* Every permit is free or held by one run between acquire_permit and the  *)
(* end of its task.                                                        *)
PermitInv == permits \in Nat /\ permits + Cardinality(Holding) = MaxConcurrent

(* All permits are free.                                                   *)
LEMMA PermitInit == Init => PermitInv
  <1> SUFFICES ASSUME Init PROVE PermitInv
    BY Zenon
  <1>1. Holding = {}
    BY Zenon DEF Init, Holding
  <1> QED BY <1>1, FS_EmptySet, JobsAssumption DEF Init, PermitInv

(* A permit is taken and given back by the run that holds it.              *)
LEMMA PermitStep == ApprovalInv /\ PermitInv /\ [Next]_vars => PermitInv'
  <1> SUFFICES ASSUME ApprovalInv, PermitInv, [Next]_vars PROVE PermitInv'
    BY Zenon
  <1>1. IsFiniteSet(Holding) /\ Cardinality(Holding) \in Nat
    BY JobsAssumption, FS_Subset, FS_CardinalityType, Zenon DEF Holding
  <1>2. ASSUME NEW r \in Runs, AcquirePermit(r) PROVE PermitInv'
    <2>1. r \notin Holding /\ Holding' = Holding \cup {r}
      BY <1>2, Zenon DEF AcquirePermit, Holding, ApprovalInv, JobsTypes
    <2>2. Cardinality(Holding') = Cardinality(Holding) + 1
      BY <1>1, <2>1, FS_AddElement, Zenon
    <2> QED BY <1>1, <1>2, <2>2 DEF AcquirePermit, PermitInv
  <1>3. ASSUME NEW r \in Runs, MarkCompleted(r) PROVE PermitInv'
    <2>1. r \in Holding /\ Holding' = Holding \ {r}
      BY <1>3, Zenon DEF MarkCompleted, Holding, ApprovalInv, JobsTypes
    <2>2. Cardinality(Holding') = Cardinality(Holding) - 1
      BY <1>1, <2>1, FS_RemoveElement, Zenon
    <2> QED BY <1>1, <1>3, <2>2 DEF MarkCompleted, PermitInv
  <1>4. ASSUME Holding' = Holding, permits' = permits PROVE PermitInv'
    BY <1>4, Zenon DEF PermitInv
  <1>5. ASSUME NEW l \in Loops, Receive(l) \/ TrustExpires(l) PROVE PermitInv'
    BY <1>4, <1>5, Zenon DEF Receive, TrustExpires, JobRequest, CancelJob, ApprovalResponse, SetSessionMode,
       registryVars, Holding
  <1>6. ASSUME NEW l \in Loops, Handle(l) PROVE PermitInv'
    <2>1. CASE SessionAllow(l) \/ SessionNeedsApproval(l)
      BY <1>4, <2>1 DEF SessionAllow, SessionNeedsApproval, registryVars, Holding, ApprovalInv, JobsTypes
    <2>2. CASE ~(SessionAllow(l) \/ SessionNeedsApproval(l))
      BY <1>4, <1>6, <2>2, Zenon DEF Handle, CheckRunning, CheckCompleted, SessionDeny, CancelLocks,
         CancelSent, registryVars, Holding
    <2> QED BY <2>1, <2>2, Zenon
  <1>7. ASSUME NEW r \in Runs,
               \/ Register(r) \/ Spawn(r) \/ ChildEnds(r) \/ Cancelled(r) \/ Finish(r)
               \/ RemoveJob(r) \/ Waiter(r)
        PROVE  PermitInv'
    <2>1. permits' = permits
      BY <1>7, Zenon DEF Register, Spawn, ChildEnds, Cancelled, Finish, RemoveJob, Waiter, WaiterApproved,
         WaiterGivesUp, Expire, registryVars
    <2>2. PICK x : run' = [run EXCEPT ![r] = x] /\ (r \in Holding <=> x \in {"running", "draining", "exited", "removed"})
      BY <1>7 DEF Register, Spawn, ChildEnds, Cancelled, Finish, RemoveJob, Waiter, WaiterApproved,
         WaiterGivesUp, Expire, Holding
    <2>3. Holding' = Holding
      BY <2>2, Zenon DEF Holding, ApprovalInv, JobsTypes
    <2> QED BY <1>4, <2>1, <2>3, Zenon
  <1>8. CASE UNCHANGED vars
    BY <1>4, <1>8, Zenon DEF vars, Holding
  <1> QED BY <1>2, <1>3, <1>5, <1>6, <1>7, <1>8, Zenon DEF Next, Task

(* The daemon never runs more children than its semaphore has permits, and *)
(* no path through a run loses or duplicates one: not a cancel, not an     *)
(* approval that is denied, not a run whose handle was taken by another.   *)
THEOREM PermitsBalance == Spec => [](Cardinality(Holding) <= MaxConcurrent /\ PermitInv)
  <1>1. ApprovalInv /\ PermitInv => Cardinality(Holding) <= MaxConcurrent
    BY JobsAssumption, FS_Subset, FS_CardinalityType DEF PermitInv, Holding
  <1> QED BY <1>1, ApprovalInit, ApprovalStep, PermitInit, PermitStep, PTL DEF Spec

----------------------------------------------------------------------------
(* One receive loop and no approvals: the id of every run on its way from  *)
(* its acceptance to its removal is its own, and a request past is_known   *)
(* is for an id without such a run.                                        *)
Live(r) == run[r] \in {"accepted", "registered", "queued", "running", "draining", "exited"}

AloneInv ==
    /\ \A r \in Runs : run[r] \notin {"approval", "expiring", "rejected"}
    /\ \A r \in Runs : Live(r) /\ run[r] # "accepted" => handle[jid[r]] = r
    /\ \A r, s \in Runs : Live(r) /\ Live(s) /\ jid[r] = jid[s] => r = s
    /\ \A l \in Loops, r \in Runs :
          loop[l].at \in {"completed", "session"} /\ Live(r) => jid[r] # loop[l].of
    /\ \A l \in Loops, r \in Runs :
          run[r] = "accepted" => loop[l].at = "spawn" /\ loop[l].of = r

OneLoop == \A k, l \in Loops : k = l
NoStrict == "strict" \notin Modes

(* No run has begun.                                                       *)
LEMMA AloneInit == Init => AloneInv
  BY DEF Init, AloneInv, Live, Idle

(* The one loop finishes accepting a request before it looks at the next.  *)
LEMMA AloneHandle ==
    ASSUME OneLoop, NoStrict, ApprovalInv, AloneInv, NEW l \in Loops, Handle(l)
    PROVE  AloneInv'
  <1> USE JobsAssumption DEF ApprovalInv
  <1>1. CASE CheckRunning(l)
    <2>1. \A r \in Runs : run[r] # "accepted"
      BY <1>1, Zenon DEF CheckRunning, AloneInv
    <2>2. handle[loop[l].of] = None => \A r \in Runs : Live(r) => jid[r] # loop[l].of
      BY <2>1 DEF AloneInv, JobsTypes
    <2>3. UNCHANGED <<run, jid, handle>> /\ loop[l].of \in Ids
      BY <1>1, Zenon DEF CheckRunning, registryVars, JobsTypes
    <2>4. loop' = [loop EXCEPT ![l] = IF handle[loop[l].of] # None THEN Idle
                                      ELSE [at |-> "completed", of |-> loop[l].of]]
      BY <1>1, Zenon DEF CheckRunning, Done, Goto
    <2> QED BY <2>1, <2>2, <2>3, <2>4 DEF AloneInv, JobsTypes, Live, Idle, OneLoop
  <1>2. CASE CheckCompleted(l)
    BY <1>2 DEF CheckCompleted, AloneInv, JobsTypes, Live, Done, Goto, Idle, registryVars, OneLoop
  <1>3. CASE SessionDeny(l)
    BY <1>3 DEF SessionDeny, AloneInv, JobsTypes, Live, Done, Idle, registryVars, OneLoop
  <1>4. CASE SessionAllow(l)
    <2>1. PICK r \in Runs :
             /\ run[r] = "free"
             /\ run' = [run EXCEPT ![r] = "accepted"]
             /\ jid' = [jid EXCEPT ![r] = loop[l].of]
             /\ loop' = [loop EXCEPT ![l] = [at |-> "spawn", of |-> r]]
      BY <1>4, Zenon DEF SessionAllow, Goto
    <2>2. UNCHANGED handle /\ loop[l].at = "session"
      BY <1>4, Zenon DEF SessionAllow, registryVars
    <2>3. \A s \in Runs : run[s] # "accepted"
      BY <2>2, Zenon DEF AloneInv
    <2> QED BY <2>1, <2>2, <2>3 DEF AloneInv, JobsTypes, Live, OneLoop
  <1>5. ~SessionNeedsApproval(l)
    BY DEF SessionNeedsApproval, JobsTypes, NoStrict
  <1>6. CASE CancelLocks(l) \/ CancelSent(l)
    <2>1. UNCHANGED <<run, jid, handle>> /\ loop[l].at \in {"cancel", "cancelling"}
      BY <1>6, Zenon DEF CancelLocks, CancelSent
    <2>2. PICK r : loop' = [loop EXCEPT ![l] = Idle] \/ loop' = [loop EXCEPT ![l] = [at |-> "cancelling", of |-> r]]
      BY <1>6, Zenon DEF CancelLocks, CancelSent, Done, Goto
    <2> QED BY <2>1, <2>2 DEF AloneInv, JobsTypes, Live, Idle, OneLoop
  <1> QED BY <1>1, <1>2, <1>3, <1>4, <1>5, <1>6, Zenon DEF Handle

(* A run removes itself from the table only when its child is gone.        *)
LEMMA AloneRun ==
    ASSUME OneLoop, ApprovalInv, AloneInv, NEW r \in Runs, Task(r) \/ Waiter(r)
    PROVE  AloneInv'
  <1> USE JobsAssumption DEF ApprovalInv
  <1>1. CASE Register(r)
    <2>1. jid[r] \in Ids
      BY <1>1, Zenon DEF Register, JobsTypes
    <2> QED BY <1>1, <2>1 DEF Register, AloneInv, JobsTypes, Live
  <1>2. CASE Spawn(r)
    BY <1>2 DEF Spawn, AloneInv, JobsTypes, Live, Idle, registryVars, OneLoop
  <1>3. CASE AcquirePermit(r) \/ ChildEnds(r) \/ Cancelled(r) \/ Finish(r) \/ MarkCompleted(r)
    <2>1. PICK x \in {"running", "draining", "exited", "done"} : run' = [run EXCEPT ![r] = x]
      BY <1>3, Zenon DEF AcquirePermit, ChildEnds, Cancelled, Finish, MarkCompleted
    <2>2. run[r] \in {"queued", "running", "draining", "removed"} /\ (run[r] = "removed" => run'[r] = "done")
      BY <1>3, Zenon DEF AcquirePermit, ChildEnds, Cancelled, Finish, MarkCompleted, JobsTypes
    <2>3. UNCHANGED <<loop, handle, jid>>
      BY <1>3, Zenon DEF AcquirePermit, ChildEnds, Cancelled, Finish, MarkCompleted, registryVars
    <2> QED BY <2>1, <2>2, <2>3 DEF AloneInv, JobsTypes, Live
  <1>4. CASE RemoveJob(r)
    <2>1. jid[r] \in Ids
      BY <1>4, Zenon DEF RemoveJob, JobsTypes
    <2> QED BY <1>4, <2>1 DEF RemoveJob, AloneInv, JobsTypes, Live
  <1>5. ~Waiter(r)
    BY Zenon DEF Waiter, WaiterApproved, WaiterGivesUp, Expire, AloneInv
  <1> QED BY <1>1, <1>2, <1>3, <1>4, <1>5 DEF Task

(* With one loop and no strict session every step keeps an id to one live  *)
(* run.                                                                    *)
LEMMA AloneStep ==
    ASSUME OneLoop, NoStrict
    PROVE  ApprovalInv /\ AloneInv /\ [Next]_vars => AloneInv'
  <1> SUFFICES ASSUME ApprovalInv, AloneInv, [Next]_vars PROVE AloneInv'
    BY Zenon
  <1>1. ASSUME NEW l \in Loops, Receive(l) PROVE AloneInv'
    <2>1. UNCHANGED <<run, jid, handle>>
      BY <1>1, Zenon DEF Receive, JobRequest, CancelJob, ApprovalResponse, SetSessionMode, registryVars
    <2>2. loop[l] = Idle
      BY <1>1, Zenon DEF Receive, JobRequest, CancelJob, ApprovalResponse, SetSessionMode
    <2>3. PICK x : loop' = [loop EXCEPT ![l] = x] /\ x.at \in {"idle", "known", "cancel"}
      <3>1. CASE loop' = loop
        BY <2>2, <3>1 DEF Idle, ApprovalInv, JobsTypes
      <3>2. ASSUME NEW i \in Ids, NEW a \in {"known", "cancel"}, Goto(l, a, i)
            PROVE  \E x : loop' = [loop EXCEPT ![l] = x] /\ x.at \in {"idle", "known", "cancel"}
        <4> WITNESS [at |-> a, of |-> i]
        <4> QED BY <3>2, Zenon DEF Goto
      <3> QED BY <1>1, <3>1, <3>2, Zenon DEF Receive, JobRequest, CancelJob, ApprovalResponse, SetSessionMode
    <2> QED BY <2>1, <2>2, <2>3 DEF AloneInv, Live, Idle, OneLoop, ApprovalInv, JobsTypes
  <1>2. ASSUME NEW l \in Loops, Handle(l) PROVE AloneInv'
    BY <1>2, AloneHandle, Zenon
  <1>3. ASSUME NEW l \in Loops, TrustExpires(l) PROVE AloneInv'
    BY <1>3 DEF TrustExpires, AloneInv, Live, registryVars
  <1>4. ASSUME NEW r \in Runs, Task(r) \/ Waiter(r) PROVE AloneInv'
    BY <1>4, AloneRun, Zenon
  <1>5. CASE UNCHANGED vars
    BY <1>5 DEF vars, AloneInv, Live
  <1> QED BY <1>1, <1>2, <1>3, <1>4, <1>5, Zenon DEF Next

(* With one receive loop and no strict sessions, is_known is enough: no    *)
(* job id ever has two children, although its two halves and register are  *)
(* separate steps.  (Two loops, or an approval that outlives its request,  *)
(* can break this: the assumptions are needed.)                            *)
THEOREM OneChildPerId ==
    ASSUME OneLoop, NoStrict
    PROVE  Spec => []NoConcurrentRuns
  <1>1. AloneInv => NoConcurrentRuns
    BY DEF AloneInv, NoConcurrentRuns, Executing, Live
  <1> QED BY <1>1, ApprovalInit, ApprovalStep, AloneInit, AloneStep, PTL DEF Spec

(* Under the same assumptions the handle of a job that waits for its       *)
(* permit or executes is its own, although remove and register take and    *)
(* overwrite whatever is under the id: a CancelJob finds its run.          *)
THEOREM CancelFindsItsRun ==
    ASSUME OneLoop, NoStrict
    PROVE  Spec => []CancelReaches
  <1>1. AloneInv => CancelReaches
    BY Zenon DEF AloneInv, CancelReaches, Live
  <1> QED BY <1>1, ApprovalInit, ApprovalStep, AloneInit, AloneStep, PTL DEF Spec

----------------------------------------------------------------------------
(* The embedding library: spawn, its table of devices and its tasks.       *)

(* What a caller of spawn can have in its hands.                           *)
Handles == [pc : {"idle", "look", "lock", "locked", "reserve", "held"},
            key : {0} \cup Spawners,
            task : {"none", "dial", "up", "pause", "ending"},
            status : {"none", "connecting", "online", "error", "offline"},
            mode : Nat]

(* A task runs under a handle and its device is in its process's table.    *)
TasksListed ==
    \A s \in Spawners : ~TaskOf(s, "none") => At(s, "held") /\ Guard(s) \in activeSet

EmbeddedInv ==
    /\ idFile \in {0} \cup Spawners
    /\ spawner \in [Spawners -> Handles]
    /\ OneIdentity /\ OneClient /\ StatusTrue /\ TasksListed

(* NoHandle is a handle without a key or a task.                           *)
LEMMA NoHandleIs ==
    /\ NoHandle \in Handles /\ NoHandle.key = 0 /\ NoHandle.task = "none"
    /\ NoHandle.status = "none"
  BY SMT DEF NoHandle, Handles

(* One caller's step keeps the invariant when the key it then has is the   *)
(* file's, its status tells of its task, a task it starts finds its device *)
(* unlisted and lists it, and only its own device is struck from the table.*)
LEMMA OneCaller ==
    ASSUME EmbeddedInv, NEW s \in Spawners, NEW h \in Handles,
           spawner' \in [Spawners -> Handles], h = spawner'[s],
           \A t \in Spawners : t # s => spawner'[t] = spawner[t],
           idFile' \in {0} \cup Spawners, idFile' = idFile \/ idFile = 0,
           h.key # 0 => h.key = idFile',
           h.status = "online" <=> h.task = "up",
           h.task # "none" =>
              /\ h.pc = "held" /\ <<ProcessOf[s], h.key>> \in activeSet'
              /\ \/ ~TaskOf(s, "none") /\ h.key = spawner[s].key
                 \/ <<ProcessOf[s], h.key>> \notin activeSet,
           \A g \in activeSet : g \in activeSet' \/ (h.task = "none" /\ ~TaskOf(s, "none") /\ g = Guard(s))
    PROVE  EmbeddedInv'
  <1>1. spawner'[s] = h /\ \A t \in Spawners : t # s => spawner'[t] = spawner[t]
    BY Zenon
  <1>2. spawner' \in [Spawners -> Handles]
    BY Zenon
  <1>3. OneIdentity'
    BY <1>1, Zenon DEF EmbeddedInv, OneIdentity
  <1>4. StatusTrue'
    <2> SUFFICES ASSUME NEW t \in Spawners PROVE (spawner'[t].status = "online") <=> (spawner'[t].task = "up")
      BY Zenon DEF StatusTrue, TaskOf
    <2>1. CASE t = s
      BY <1>1, <2>1, Zenon
    <2>2. CASE t # s
      BY <1>1, <2>2, Zenon DEF EmbeddedInv, StatusTrue, TaskOf
    <2> QED BY <2>1, <2>2, Zenon
  <1>5. TasksListed'
    <2> SUFFICES ASSUME NEW t \in Spawners, ~TaskOf(t, "none")' PROVE (At(t, "held") /\ Guard(t) \in activeSet)'
      BY Zenon DEF TasksListed
    <2>1. CASE t = s
      BY <1>1, <2>1, Zenon DEF At, Guard, TaskOf
    <2>2. CASE t # s
      <3>1. ~TaskOf(t, "none") /\ At(t, "held") /\ Guard(t) \in activeSet /\ Guard(t)' = Guard(t) /\ At(t, "held")'
        BY <1>1, <2>2, Zenon DEF EmbeddedInv, TasksListed, TaskOf, At, Guard
      <3>2. ~TaskOf(s, "none") => Guard(t) # Guard(s)
        BY <2>2, <3>1, SMT DEF EmbeddedInv, OneClient, Guard
      <3> QED BY <3>1, <3>2, Zenon
    <2> QED BY <2>1, <2>2, Zenon
  <1>6. OneClient'
    <2>1. ASSUME NEW t \in Spawners, t # s, ProcessOf[t] = ProcessOf[s], ~TaskOf(t, "none"), h.task # "none"
          PROVE  spawner[t].key # h.key
      <3>1. Guard(t) \in activeSet
        BY <2>1, Zenon DEF EmbeddedInv, TasksListed
      <3>2. ~TaskOf(s, "none") => spawner[t].key # spawner[s].key
        BY <2>1, Zenon DEF EmbeddedInv, OneClient
      <3> QED BY <2>1, <3>1, <3>2, Zenon DEF Guard
    <2> SUFFICES ASSUME NEW t \in Spawners, NEW u \in Spawners, t # u, ProcessOf[t] = ProcessOf[u],
                        ~TaskOf(t, "none")', ~TaskOf(u, "none")'
                 PROVE  spawner'[t].key # spawner'[u].key
      BY Zenon DEF OneClient
    <2>2. CASE t = s
      BY <1>1, <2>1, <2>2, Zenon DEF TaskOf
    <2>3. CASE u = s
      BY <1>1, <2>1, <2>3, Zenon DEF TaskOf
    <2>4. CASE t # s /\ u # s
      BY <1>1, <2>4, Zenon DEF EmbeddedInv, OneClient, TaskOf
    <2> QED BY <2>2, <2>3, <2>4, Zenon
  <1> QED BY <1>2, <1>3, <1>4, <1>5, <1>6, Zenon DEF EmbeddedInv

(* A caller that only moves, without a task before and after.              *)
LEMMA Moving ==
    ASSUME EmbeddedInv, NEW s \in Spawners, TaskOf(s, "none"), idFile' = idFile, activeSet' = activeSet,
           spawner' \in [Spawners -> Handles],
           \A t \in Spawners : t # s => spawner'[t] = spawner[t],
           spawner'[s].key # 0 => spawner'[s].key = idFile,
           spawner'[s].task = spawner[s].task, spawner'[s].status = spawner[s].status
    PROVE  EmbeddedInv'
  <1>1. PICK h \in Handles : h = spawner'[s]
    BY Zenon
  <1>2. h.key # 0 => h.key = idFile'
    BY <1>1, Zenon
  <1>3. h.task = "none"
    BY <1>1, Zenon DEF TaskOf
  <1>4. h.status = "online" <=> h.task = "up"
    BY <1>1, Zenon DEF EmbeddedInv, StatusTrue, TaskOf
  <1>5. idFile' \in {0} \cup Spawners
    BY Zenon DEF EmbeddedInv
  <1> QED BY <1>1, <1>2, <1>3, <1>4, <1>5, OneCaller, Zenon

(* A task that reports: it and its status change together.                 *)
LEMMA Reporting ==
    ASSUME EmbeddedInv, NEW s \in Spawners, ~TaskOf(s, "none"),
           NEW t \in {"dial", "up", "pause", "ending"},
           NEW st \in {"connecting", "online", "error", "offline", "none"}, st = "online" <=> t = "up",
           NEW m \in Nat, Reports(s, t, st, m)
    PROVE  EmbeddedInv'
  <1>1. /\ spawner \in [Spawners -> Handles] /\ spawner[s] \in Handles
        /\ At(s, "held") /\ Guard(s) \in activeSet
    BY Zenon DEF EmbeddedInv, TasksListed
  <1>2. spawner' \in [Spawners -> Handles]
    BY <1>1, Zenon DEF Handles, Reports
  <1>3. PICK h \in Handles : h = spawner'[s]
    BY <1>2, Zenon
  <1>4. h.key = spawner[s].key /\ h.task = t /\ h.status = st /\ h.pc = spawner[s].pc
    <2>1. h = [spawner[s] EXCEPT !.task = t, !.status = st, !.mode = m]
      BY <1>1, <1>3, Zenon DEF Reports
    <2> QED BY <1>1, <2>1, SMT DEF Handles
  <1>8. h.pc = "held"
    BY <1>1, <1>4, Zenon DEF At
  <1>9. \A u \in Spawners : u # s => spawner'[u] = spawner[u]
    BY <1>1, Zenon DEF Reports
  <1>5. idFile' = idFile /\ activeSet' = activeSet /\ idFile' \in {0} \cup Spawners
    BY Zenon DEF EmbeddedInv, Reports
  <1>6. h.key # 0 => h.key = idFile'
    BY <1>4, <1>5, Zenon DEF EmbeddedInv, OneIdentity
  <1>7. <<ProcessOf[s], h.key>> \in activeSet'
    BY <1>1, <1>4, <1>5, Zenon DEF Guard
  <1> QED BY <1>2, <1>3, <1>4, <1>5, <1>6, <1>7, <1>8, <1>9, OneCaller, Zenon

(* Every step of the callers, of their tasks and of their processes.       *)
LEMMA EmbeddedStep == EmbeddedInv /\ [EmbeddedNext]_embeddedVars => EmbeddedInv'
  <1> SUFFICES ASSUME EmbeddedInv, [EmbeddedNext]_embeddedVars PROVE EmbeddedInv'
    BY Zenon
  <1>t. ASSUME NEW s \in Spawners
        PROVE  /\ spawner[s] \in Handles
               /\ spawner[s].key \in {0} \cup Spawners /\ spawner[s].mode \in Nat
               /\ spawner[s].status \in {"connecting", "online", "error", "offline", "none"}
               /\ spawner[s].key # 0 => spawner[s].key = idFile
    <2>1. spawner[s] \in Handles
      BY Zenon DEF EmbeddedInv
    <2> QED BY <2>1, Zenon DEF EmbeddedInv, Handles, OneIdentity
  <1>o. \A s \in Spawners : ~At(s, "held") => TaskOf(s, "none")
    BY Zenon DEF EmbeddedInv, TasksListed
  <1>m. ASSUME NEW s \in Spawners, TaskOf(s, "none"), idFile' = idFile, activeSet' = activeSet,
               NEW pc \in {"look", "lock", "locked", "reserve"}, Moves(s, pc)
        PROVE  EmbeddedInv'
    <2>1. spawner[s] \in Handles /\ spawner \in [Spawners -> Handles]
      BY Zenon DEF EmbeddedInv
    <2>2. spawner' \in [Spawners -> Handles]
      BY <1>m, <2>1, Zenon DEF Moves, Handles
    <2>3. /\ spawner'[s].key = spawner[s].key /\ spawner'[s].task = spawner[s].task
          /\ spawner'[s].status = spawner[s].status
      BY <1>m, <2>1, Zenon DEF Moves, Handles
    <2>4. \A t \in Spawners : t # s => spawner'[t] = spawner[t]
      BY <1>m, <2>1, Zenon DEF Moves
    <2> QED BY <1>m, <1>t, <2>2, <2>3, <2>4, Moving, Zenon
  <1>k. ASSUME NEW s \in Spawners, TaskOf(s, "none"), idFile' = idFile, activeSet' = activeSet,
               Loaded(s, "reserve")
        PROVE  EmbeddedInv'
    <2>1. /\ spawner[s] \in Handles /\ spawner \in [Spawners -> Handles]
          /\ idFile \in {0} \cup Spawners
      BY Zenon DEF EmbeddedInv
    <2>2. spawner' \in [Spawners -> Handles]
      BY <1>k, <2>1, Zenon DEF Loaded, Handles
    <2>3. /\ spawner'[s].key = idFile /\ spawner'[s].task = spawner[s].task
          /\ spawner'[s].status = spawner[s].status
      BY <1>k, <2>1, Zenon DEF Loaded, Handles
    <2>4. \A t \in Spawners : t # s => spawner'[t] = spawner[t]
      BY <1>k, <2>1, Zenon DEF Loaded
    <2> QED BY <1>k, <2>2, <2>3, <2>4, Moving, Zenon
  <1>n. ASSUME NEW s \in Spawners, spawner' = [spawner EXCEPT ![s] = NoHandle], idFile' = idFile,
               activeSet' = activeSet \/ (~TaskOf(s, "none") /\ activeSet' = activeSet \ {Guard(s)})
        PROVE  EmbeddedInv'
    <2>1. idFile' \in {0} \cup Spawners /\ spawner' \in [Spawners -> Handles]
      BY <1>n, NoHandleIs, Zenon DEF EmbeddedInv
    <2>2. NoHandle = spawner'[s] /\ \A t \in Spawners : t # s => spawner'[t] = spawner[t]
      BY <1>n, Zenon DEF EmbeddedInv
    <2> QED BY <1>n, <2>1, <2>2, NoHandleIs, OneCaller, Zenon
  <1>1. ASSUME NEW s \in Spawners, SpawnDaemon(s) PROVE EmbeddedInv'
    <2>1. ~At(s, "held") /\ Moves(s, "look") /\ idFile' = idFile /\ activeSet' = activeSet
      BY <1>1, Zenon DEF SpawnDaemon, At
    <2>3. TaskOf(s, "none")
      BY <1>o, <2>1, Zenon
    <2> QED BY <1>m, <2>1, <2>3, Zenon
  <1>2. ASSUME NEW s \in Spawners, LoadIdentity(s) PROVE EmbeddedInv'
    <2>1. ~At(s, "held") /\ idFile' = idFile /\ activeSet' = activeSet
      BY <1>2, Zenon DEF LoadIdentity, At
    <2>2. Loaded(s, "reserve") \/ Moves(s, "lock")
      BY <1>2, Zenon DEF LoadIdentity
    <2>3. TaskOf(s, "none")
      BY <1>o, <2>1, Zenon
    <2> QED BY <1>k, <1>m, <2>1, <2>2, <2>3, Zenon
  <1>3. ASSUME NEW s \in Spawners, LockIdentity(s) PROVE EmbeddedInv'
    <2>1. ~At(s, "held") /\ idFile' = idFile /\ activeSet' = activeSet
      BY <1>3, Zenon DEF LockIdentity, At
    <2>2. Moves(s, "look") \/ Moves(s, "locked")
      BY <1>3, Zenon DEF LockIdentity
    <2>3. TaskOf(s, "none")
      BY <1>o, <2>1, Zenon
    <2> QED BY <1>m, <2>1, <2>2, <2>3, Zenon
  <1>4. ASSUME NEW s \in Spawners, CreateIdentity(s) PROVE EmbeddedInv'
    <2>0. ~At(s, "held")
      BY <1>4, Zenon DEF CreateIdentity, At
    <2>1. TaskOf(s, "none") /\ activeSet' = activeSet /\ idFile \in {0} \cup Spawners
      BY <1>4, <1>o, <2>0, Zenon DEF CreateIdentity, EmbeddedInv
    <2>2. CASE idFile # 0
      BY <1>4, <1>k, <2>1, <2>2, Zenon DEF CreateIdentity
    <2>3. CASE idFile = 0
      <3>1. idFile' = s /\ spawner' = [spawner EXCEPT ![s].pc = "reserve", ![s].key = s]
        BY <1>4, <2>3, Zenon DEF CreateIdentity
      <3>2. spawner[s] \in Handles /\ spawner \in [Spawners -> Handles]
        BY Zenon DEF EmbeddedInv
      <3>3. spawner' \in [Spawners -> Handles]
        BY <3>1, <3>2, Zenon DEF Handles
      <3>4. PICK h \in Handles : h = spawner'[s]
        BY <3>3, Zenon
      <3>5. /\ h.key = s /\ h.task = "none" /\ h.status = spawner[s].status
            /\ \A t \in Spawners : t # s => spawner'[t] = spawner[t]
        BY <2>1, <3>1, <3>2, <3>4, Zenon DEF Handles, TaskOf
      <3>6. h.status = "online" <=> h.task = "up"
        BY <2>1, <3>5, Zenon DEF EmbeddedInv, StatusTrue, TaskOf
      <3> QED BY <2>1, <2>3, <3>1, <3>3, <3>4, <3>5, <3>6, OneCaller, Zenon
    <2> QED BY <2>2, <2>3, Zenon
  <1>5. ASSUME NEW s \in Spawners, SaveFails(s) PROVE EmbeddedInv'
    BY <1>5, <1>n, Zenon DEF SaveFails
  <1>6. ASSUME NEW s \in Spawners, ReserveActive(s) PROVE EmbeddedInv'
    <2>1. idFile' = idFile /\ idFile \in {0} \cup Spawners
      BY <1>6, Zenon DEF ReserveActive, EmbeddedInv
    <2>2. CASE Guard(s) \in activeSet
      BY <1>6, <1>n, <2>2, Zenon DEF ReserveActive
    <2>3. CASE Guard(s) \notin activeSet
      <3>1. /\ activeSet' = activeSet \cup {Guard(s)}
            /\ spawner' = [spawner EXCEPT ![s].pc = "held", ![s].task = "dial", ![s].status = "connecting"]
        BY <1>6, <2>3, Zenon DEF ReserveActive
      <3>2. spawner[s] \in Handles /\ spawner \in [Spawners -> Handles]
        BY Zenon DEF EmbeddedInv
      <3>3. spawner' \in [Spawners -> Handles]
        BY <3>1, <3>2, Zenon DEF Handles
      <3>4. PICK h \in Handles : h = spawner'[s]
        BY <3>3, Zenon
      <3>5. /\ h.key = spawner[s].key /\ h.task = "dial" /\ h.status = "connecting" /\ h.pc = "held"
            /\ \A t \in Spawners : t # s => spawner'[t] = spawner[t]
        <4>1. /\ h = [spawner[s] EXCEPT !.pc = "held", !.task = "dial", !.status = "connecting"]
              /\ \A t \in Spawners : t # s => spawner'[t] = spawner[t]
          BY <3>1, <3>2, <3>4, Zenon
        <4> QED BY <3>2, <4>1, SMT DEF Handles
      <3>6. <<ProcessOf[s], h.key>> = Guard(s)
        BY <3>5, Zenon DEF Guard
      <3>7. h.key # 0 => h.key = idFile'
        BY <1>t, <2>1, <3>5, Zenon
      <3>8. /\ <<ProcessOf[s], h.key>> \in activeSet' /\ <<ProcessOf[s], h.key>> \notin activeSet
            /\ \A g \in activeSet : g \in activeSet'
        BY <2>3, <3>1, <3>6, Zenon
      <3> QED BY <2>1, <3>3, <3>4, <3>5, <3>7, <3>8, OneCaller, Zenon
    <2> QED BY <2>2, <2>3, Zenon
  <1>7. ASSUME NEW s \in Spawners,
               \/ HelloAccepted(s) \/ HelloRejected(s) \/ SessionFails(s) \/ SessionCloses(s)
               \/ DialAgain(s) \/ Shutdown(s)
        PROVE  EmbeddedInv'
    <2>1. ~TaskOf(s, "none")
      BY <1>7, Zenon DEF HelloAccepted, HelloRejected, SessionFails, SessionCloses, DialAgain, Shutdown, TaskOf
    <2>2. spawner[s].status = "online" <=> TaskOf(s, "up")
      BY Zenon DEF EmbeddedInv, StatusTrue
    <2>3. 1 \in Nat /\ spawner[s].mode + 1 \in Nat
      BY <1>t, SMT
    <2>4. CASE HelloAccepted(s)
      BY <1>t, <2>1, <2>4, Reporting, Zenon DEF HelloAccepted
    <2>5. CASE HelloRejected(s)
      <3>1. CASE Reports(s, "dial", spawner[s].status, spawner[s].mode + 1)
        BY <1>t, <2>1, <2>2, <2>3, <2>5, <3>1, Reporting, Zenon DEF HelloRejected, TaskOf
      <3>2. CASE Reports(s, "pause", "error", 1)
        BY <2>1, <2>3, <3>2, Reporting, Zenon
      <3> QED BY <2>5, <3>1, <3>2, Zenon DEF HelloRejected
    <2>6. CASE SessionFails(s)
      BY <2>1, <2>3, <2>6, Reporting, Zenon DEF SessionFails
    <2>7. CASE SessionCloses(s)
      BY <2>1, <2>3, <2>7, Reporting, Zenon DEF SessionCloses
    <2>8. CASE DialAgain(s)
      BY <1>t, <2>1, <2>2, <2>3, <2>8, Reporting, Zenon DEF DialAgain, TaskOf
    <2>9. CASE Shutdown(s)
      BY <2>1, <2>3, <2>9, Reporting, Zenon DEF Shutdown
    <2> QED BY <1>7, <2>4, <2>5, <2>6, <2>7, <2>8, <2>9, Zenon
  <1>8. ASSUME NEW s \in Spawners, TaskEnds(s) PROVE EmbeddedInv'
    BY <1>8, <1>n, Zenon DEF TaskEnds, TaskOf
  <1>9. ASSUME NEW p, ProcessDies(p) PROVE EmbeddedInv'
    <2>1. /\ idFile' = idFile /\ activeSet' = {g \in activeSet : g[1] # p}
          /\ spawner' = [s \in Spawners |-> IF ProcessOf[s] = p THEN NoHandle ELSE spawner[s]]
      BY <1>9, Zenon DEF ProcessDies
    <2>2. \A s \in Spawners : \/ ProcessOf[s] = p /\ spawner'[s] = NoHandle
                              \/ ProcessOf[s] # p /\ spawner'[s] = spawner[s]
      BY <2>1, Zenon
    <2>3. spawner' \in [Spawners -> Handles]
      BY <2>1, NoHandleIs, Zenon DEF EmbeddedInv
    <2>4. OneIdentity' /\ OneClient' /\ StatusTrue'
      BY <2>1, <2>2, NoHandleIs, Zenon DEF EmbeddedInv, OneIdentity, OneClient, StatusTrue, TaskOf
    <2>5. TasksListed'
      <3> SUFFICES ASSUME NEW s \in Spawners, ~TaskOf(s, "none")'
                   PROVE  (At(s, "held") /\ Guard(s) \in activeSet)'
        BY Zenon DEF TasksListed
      <3>1. ProcessOf[s] # p /\ spawner'[s] = spawner[s]
        BY <2>2, NoHandleIs, Zenon DEF TaskOf
      <3>2. At(s, "held") /\ Guard(s) \in activeSet /\ Guard(s)' = Guard(s) /\ At(s, "held")'
        BY <3>1, Zenon DEF EmbeddedInv, TasksListed, TaskOf, At, Guard
      <3>3. Guard(s)[1] # p
        BY <3>1, SMT DEF Guard
      <3> QED BY <2>1, <3>2, <3>3, Zenon
    <2> QED BY <2>1, <2>3, <2>4, <2>5, Zenon DEF EmbeddedInv
  <1>10. CASE UNCHANGED embeddedVars
    BY <1>10, Zenon DEF embeddedVars, EmbeddedInv, OneIdentity, OneClient, StatusTrue, TasksListed, TaskOf, At,
       Guard
  <1> QED BY <1>1, <1>2, <1>3, <1>4, <1>5, <1>6, <1>7, <1>8, <1>9, <1>10, Zenon DEF EmbeddedNext

(* Whatever callers of spawn in whatever processes do, and whenever their  *)
(* processes die: every key handed out is the identity file's, a process   *)
(* runs one client of a device at a time, and a handle says online exactly *)
(* while its session is up.                                                *)
THEOREM EmbeddedKeepsWord == EmbeddedSpec => EmbeddedSound
  <1>1. EmbeddedInit => EmbeddedInv
    <2> SUFFICES ASSUME EmbeddedInit PROVE EmbeddedInv
      BY Zenon
    <2>1. \A s \in Spawners : spawner[s] = NoHandle
      BY Zenon DEF EmbeddedInit
    <2>2. idFile \in {0} \cup Spawners /\ spawner \in [Spawners -> Handles]
      BY NoHandleIs, Zenon DEF EmbeddedInit
    <2> QED BY <2>1, <2>2, NoHandleIs, Zenon
            DEF EmbeddedInv, OneIdentity, OneClient, StatusTrue, TasksListed, TaskOf
  <1>2. EmbeddedInv => OneIdentity /\ OneClient /\ StatusTrue
    BY Zenon DEF EmbeddedInv
  <1> QED BY <1>1, <1>2, EmbeddedStep, PTL DEF EmbeddedSpec, EmbeddedSound

----------------------------------------------------------------------------
(* The BrowserManager.  Inside(c): the call has passed the session limit   *)
(* and its process may be acting; Closing(d): a close that has passed the  *)
(* limit and has not yet released its session.                             *)
Inside(c) == bpc[c] \in {"spawning", "running"}
Closing(d) == bask[d].action = "close" /\ bpc[d] \in {"spawning", "running", "ended"}

BrowserShape ==
    /\ bpc = [c \in BrowserCalls |-> bpc[c]]
    /\ bask = [c \in BrowserCalls |-> bask[c]]
    /\ \A c \in BrowserCalls :
          DOMAIN bask[c] = {"door", "session", "action", "params", "submit"}
    /\ argv = [c \in BrowserCalls |-> argv[c]]
    /\ before = [c \in BrowserCalls |-> before[c]]
    /\ got = [c \in BrowserCalls |-> got[c]]

(* A session some call is inside of is counted or in doubt; in doubt when  *)
(* another call closes it; and a close that has ended has shut it.         *)
SessionInv ==
    /\ IsFiniteSet(active) /\ Cardinality(active) <= MaxSessions
    /\ open \subseteq active \cup doubtful
    /\ \A c \in BrowserCalls : Inside(c) => bask[c].session \in active \cup doubtful
    /\ \A c, d \in BrowserCalls :
          c # d /\ Inside(c) /\ Closing(d) /\ bask[c].session = bask[d].session =>
              bask[c].session \in doubtful
    /\ \A d \in BrowserCalls :
          bpc[d] = "ended" /\ bask[d].action = "close" =>
              bask[d].session \notin open \/ bask[d].session \in doubtful
    /\ \A p \in strays : p.session \in doubtful

(* Every command is given parameters that reach its command line.          *)
ArgInv ==
    /\ \A c \in BrowserCalls : bpc[c] \in {"clicking", "polling", "waiting"} => Polls(c)
    /\ \A c \in BrowserCalls :
          \/ bask[c].action = "tab-select"
          \/ params_to_cli_args(bask[c].action, bask[c].params) = bask[c].params
    /\ ArgumentsArrive

(* A call that has a file is past looking for one.                         *)
GotInv ==
    /\ \A c \in BrowserCalls : got[c] # {} => bpc[c] \in {"ended", "answered"}
    /\ DownloadIsNew

BrowserInv == BrowserShape /\ SessionInv /\ ArgInv /\ GotInv

(* A call moves on (MoveTo): the others stay where they are.               *)
LEMMA CallMoves ==
    ASSUME NEW c \in BrowserCalls, NEW l, BrowserShape, MoveTo(c, l)
    PROVE  /\ bpc' = [x \in BrowserCalls |-> bpc'[x]]
           /\ bpc'[c] = l
           /\ \A d \in BrowserCalls \ {c} : bpc'[d] = bpc[d]
  BY Zenon DEF BrowserShape, MoveTo

(* What a call does to its session's browser while it is inside of it, and *)
(* what its own move leaves of the session table's invariant (execute).    *)
LEMMA SessionsKept ==
    ASSUME NEW c \in BrowserCalls, SessionInv,
           active' = active, doubtful \subseteq doubtful',
           \A d \in BrowserCalls \ {c} : bpc'[d] = bpc[d] /\ bask'[d] = bask[d],
           \/ bpc'[c] \notin {"spawning", "running", "ended"}
           \/ bpc'[c] = "running" /\ bpc[c] = "spawning" /\ bask'[c] = bask[c]
           \/ bpc'[c] = "ended" /\ bask'[c].action # "close"
           \/ /\ bpc'[c] = "ended" /\ bpc[c] = "running" /\ bask'[c] = bask[c]
              /\ bask[c].session \notin open',
           \A s \in open' : s \in open \/ s \in doubtful' \/ (s = bask[c].session /\ Inside(c)),
           \A p \in strays' : p \in strays \/ p.session \in doubtful'
    PROVE  SessionInv'
  <1>1. IsFiniteSet(active') /\ Cardinality(active') <= MaxSessions
    BY Zenon DEF SessionInv
  <1>2. open' \subseteq active' \cup doubtful'
    BY Zenon DEF SessionInv
  <1>3. \A d \in BrowserCalls : Inside(d)' => Inside(d) /\ bask'[d] = bask[d]
    BY SMT DEF Inside
  <1>4. \A d \in BrowserCalls : Closing(d)' =>
            Closing(d) /\ bask'[d] = bask[d]
    BY SMT DEF Closing
  <1>5. \A d \in BrowserCalls : Inside(d)' => bask'[d].session \in active' \cup doubtful'
    BY <1>3, Zenon DEF SessionInv
  <1>6. \A a, d \in BrowserCalls :
            a # d /\ Inside(a)' /\ Closing(d)' /\ bask'[a].session = bask'[d].session =>
                bask'[a].session \in doubtful'
    BY <1>3, <1>4, Zenon DEF SessionInv
  <1>7. ASSUME NEW d \in BrowserCalls, bpc'[d] = "ended", bask'[d].action = "close"
        PROVE  bask'[d].session \notin open' \/ bask'[d].session \in doubtful'
    <2>1. CASE d = c
      BY <1>7, <2>1, Zenon DEF SessionInv
    <2>2. CASE d # c
      <3>1. bpc[d] = "ended" /\ bask'[d] = bask[d] /\ Closing(d)
        BY <1>7, <2>2, Zenon DEF Closing
      <3>2. Inside(c) /\ bask[c].session = bask[d].session => bask[c].session \in doubtful
        BY <2>2, <3>1, Zenon DEF SessionInv
      <3>3. bask[d].session \notin open \/ bask[d].session \in doubtful
        BY <1>7, <3>1, Zenon DEF SessionInv
      <3> QED BY <3>1, <3>2, <3>3, Zenon
    <2> QED BY <2>1, <2>2, Zenon
  <1>8. \A p \in strays' : p.session \in doubtful'
    BY Zenon DEF SessionInv
  <1> QED BY <1>1, <1>2, <1>5, <1>6, <1>7, <1>8, Zenon DEF SessionInv

(* The session limit (execute): a session enters the table only below the  *)
(* limit, and one another call closes is in doubt from then on.            *)
LEMMA EnterSessions ==
    ASSUME NEW c \in BrowserCalls, BrowserShape, SessionInv, Enter(c)
    PROVE  SessionInv'
  <1>1. /\ bpc[c] = "asked"
        /\ open' = open /\ bask' = bask /\ strays' = strays
        /\ doubtful \subseteq doubtful'
        /\ Overlaps(c) => bask[c].session \in doubtful'
        /\ active \subseteq active'
    BY Zenon DEF Enter
  <1>2. /\ bpc'[c] \in {"refused", "spawning"}
        /\ \A d \in BrowserCalls \ {c} : bpc'[d] = bpc[d]
    BY CallMoves, Zenon DEF Enter
  <1>3. bpc'[c] = "spawning" => bask[c].session \in active'
    <2>1. CASE bask[c].session \notin active /\ Cardinality(active) >= MaxSessions
      BY <2>1, CallMoves, SMT DEF Enter
    <2>2. CASE ~(bask[c].session \notin active /\ Cardinality(active) >= MaxSessions)
      BY <2>2, Zenon DEF Enter
    <2> QED BY <2>1, <2>2, Zenon
  <1>4. IsFiniteSet(active') /\ Cardinality(active') <= MaxSessions
    <2>1. CASE active' = active
      BY <2>1, Zenon DEF SessionInv
    <2>2. CASE active' # active
      <3>1. active' = active \cup {bask[c].session}
        BY <2>2, Zenon DEF Enter
      <3>2. bask[c].session \notin active
        BY <2>2, <3>1, Zenon
      <3>3. ~(Cardinality(active) >= MaxSessions)
        BY <2>2, <3>2, Zenon DEF Enter
      <3>4. /\ IsFiniteSet(active) /\ Cardinality(active) \in Nat
            /\ IsFiniteSet(active')
            /\ Cardinality(active') = Cardinality(active) + 1
        <4>1. IsFiniteSet(active)
          BY Zenon DEF SessionInv
        <4> QED BY <3>1, <3>2, <4>1, FS_AddElement, FS_CardinalityType, Zenon
      <3> QED BY <3>3, <3>4, BrowserAssumption, SMT
    <2> QED BY <2>1, <2>2, Zenon
  <1>5. \A d \in BrowserCalls : Inside(d)' => bask'[d].session \in active' \cup doubtful'
    <2> TAKE d \in BrowserCalls
    <2>1. CASE d = c
      BY <1>1, <1>2, <1>3, <2>1, Zenon DEF Inside
    <2>2. CASE d # c
      BY <1>1, <1>2, <2>2, Zenon DEF Inside, SessionInv
    <2> QED BY <2>1, <2>2, Zenon
  <1>6. ASSUME NEW a \in BrowserCalls, NEW d \in BrowserCalls, a # d,
               Inside(a)', Closing(d)', bask'[a].session = bask'[d].session
        PROVE  bask'[a].session \in doubtful'
    <2>1. CASE a = c
      <3>1. /\ bpc[d] \in {"spawning", "running", "ended"} /\ bask[d].action = "close"
            /\ bask[d].session = bask[c].session /\ d \in BrowserCalls \ {c}
        BY <1>1, <1>2, <1>6, <2>1, Zenon DEF Closing
      <3>2. Overlaps(c)
        BY <3>1, Zenon DEF Overlaps
      <3> QED BY <1>1, <2>1, <3>2, Zenon
    <2>2. CASE d = c
      <3>1. /\ bpc[a] \in {"spawning", "running"} /\ bask[c].action = "close"
            /\ bask[a].session = bask[c].session /\ a \in BrowserCalls \ {c}
        BY <1>1, <1>2, <1>6, <2>2, Zenon DEF Inside, Closing
      <3>2. Overlaps(c)
        BY <3>1, Zenon DEF Overlaps
      <3> QED BY <1>1, <1>6, <2>2, <3>2, Zenon
    <2>3. CASE a # c /\ d # c
      <3>1. Inside(a) /\ Closing(d) /\ bask[a].session = bask[d].session
        BY <1>1, <1>2, <1>6, <2>3, Zenon DEF Inside, Closing
      <3> QED BY <1>1, <1>6, <3>1, Zenon DEF SessionInv
    <2> QED BY <2>1, <2>2, <2>3, Zenon
  <1>7. \A d \in BrowserCalls : bpc'[d] = "ended" => bpc[d] = "ended"
    BY <1>2, SMT
  <1> QED BY <1>1, <1>4, <1>5, <1>6, <1>7, Zenon DEF SessionInv

(* Releasing a session after a close (release_session): its browser is     *)
(* shut or in doubt, and so is the session of every call inside of it.     *)
LEMMA AnswerSessions ==
    ASSUME NEW c \in BrowserCalls, BrowserShape, SessionInv, AnswerBrowser(c)
    PROVE  SessionInv'
  <1> DEFINE s == bask[c].session
  <1>1. /\ bpc[c] \in {"ended", "failed", "refused"}
        /\ open' = open /\ bask' = bask /\ strays' = strays
        /\ doubtful \subseteq doubtful'
        /\ active' \subseteq active
    BY Zenon DEF AnswerBrowser
  <1>2. /\ bpc'[c] = "answered"
        /\ \A d \in BrowserCalls \ {c} : bpc'[d] = bpc[d]
    BY CallMoves, Zenon DEF AnswerBrowser
  <1>3. ASSUME NEW t \in active, t \notin active'
        PROVE  /\ t = s /\ bask[c].action = "close"
               /\ bpc[c] = "ended" \/ t \in doubtful'
    BY <1>3, Zenon DEF AnswerBrowser
  <1>4. IsFiniteSet(active') /\ Cardinality(active') <= MaxSessions
    <2>1. IsFiniteSet(active) /\ Cardinality(active) \in Nat /\ Cardinality(active) <= MaxSessions
      <3>1. IsFiniteSet(active)
        BY Zenon DEF SessionInv
      <3> QED BY <3>1, FS_CardinalityType, Zenon DEF SessionInv
    <2>2. /\ IsFiniteSet(active') /\ Cardinality(active') \in Nat
          /\ Cardinality(active') <= Cardinality(active)
      <3>1. IsFiniteSet(active') /\ Cardinality(active') <= Cardinality(active)
        BY <1>1, <2>1, FS_Subset, Zenon
      <3> QED BY <3>1, FS_CardinalityType, Zenon
    <2> QED BY <2>1, <2>2, BrowserAssumption, SMT
  <1>5. \A a \in BrowserCalls : Inside(a)' => a # c /\ Inside(a)
    BY <1>2, SMT DEF Inside
  <1>6. \A d \in BrowserCalls : Closing(d)' => d # c /\ Closing(d)
    BY <1>1, <1>2, SMT DEF Closing
  <1>7. open' \subseteq active' \cup doubtful'
    <2> SUFFICES ASSUME NEW t \in open, t \notin active', t \notin doubtful'
                 PROVE  FALSE
      BY <1>1, Zenon
    <2>1. t \in active /\ t \notin doubtful
      BY <1>1, Zenon DEF SessionInv
    <2>2. t = s /\ bask[c].action = "close" /\ bpc[c] = "ended"
      BY <1>3, <2>1, Zenon
    <2> QED BY <2>1, <2>2, Zenon DEF SessionInv
  <1>8. ASSUME NEW a \in BrowserCalls, Inside(a)'
        PROVE  bask'[a].session \in active' \cup doubtful'
    <2> SUFFICES ASSUME bask[a].session \notin active', bask[a].session \notin doubtful'
                 PROVE  FALSE
      BY <1>1, Zenon
    <2>1. a # c /\ Inside(a)
      BY <1>5, <1>8, Zenon
    <2>2. bask[a].session \in active /\ bask[a].session \notin doubtful
      BY <1>1, <2>1, Zenon DEF SessionInv
    <2>3. bask[a].session = s /\ Closing(c)
      BY <1>3, <2>2, Zenon DEF Closing
    <2> QED BY <2>1, <2>2, <2>3, Zenon DEF SessionInv
  <1>9. \A d \in BrowserCalls : bpc'[d] = "ended" => bpc[d] = "ended"
    BY <1>2, SMT
  <1> QED BY <1>1, <1>4, <1>5, <1>6, <1>7, <1>8, <1>9, Zenon DEF SessionInv

(* The process of a command ends (execute): what it opened is counted, as  *)
(* it was inside, and what it closed is shut.                              *)
LEMMA EndsSessions ==
    ASSUME NEW c \in BrowserCalls, NEW ok \in BOOLEAN, BrowserShape, SessionInv, CliEnds(c, ok)
    PROVE  SessionInv'
  <1>1. bpc[c] = "running" /\ active' = active /\ strays' = strays /\ Inside(c)
    BY Zenon DEF CliEnds, Inside
  <1>2. doubtful \subseteq doubtful'
    BY Zenon DEF CliEnds
  <1>3. \A d \in BrowserCalls \ {c} : bpc'[d] = bpc[d] /\ bask'[d] = bask[d]
    BY CallMoves, Zenon DEF CliEnds, BrowserShape
  <1>4. \A s \in open' : s \in open \/ s = bask[c].session
    BY Zenon DEF CliEnds, TakesEffect
  <1>5. CASE ok /\ bask[c].action = "fill" /\ bask[c].submit
    <2>1. bpc'[c] = "asked"
      BY <1>5, CallMoves, Zenon DEF CliEnds
    <2> QED BY <1>1, <1>2, <1>3, <1>4, <2>1, SessionsKept, Zenon
  <1>6. CASE ~(ok /\ bask[c].action = "fill" /\ bask[c].submit)
    <2>1. MoveTo(c, IF ok THEN "ended" ELSE "failed") /\ bask' = bask
      BY <1>6, Zenon DEF CliEnds
    <2>2. bpc'[c] = IF ok THEN "ended" ELSE "failed"
      BY <2>1, CallMoves, Zenon
    <2>3. CASE ~ok
      <3>1. bpc'[c] \notin {"spawning", "running", "ended"}
        BY <2>2, <2>3, SMT
      <3> QED BY <1>1, <1>2, <1>3, <1>4, <3>1, SessionsKept, Zenon
    <2>4. CASE ok /\ bask[c].action # "close"
      <3>1. bpc'[c] = "ended" /\ bask'[c].action # "close"
        BY <2>1, <2>2, <2>4, Zenon
      <3> QED BY <1>1, <1>2, <1>3, <1>4, <3>1, SessionsKept, Zenon
    <2>5. CASE ok /\ bask[c].action = "close"
      <3>1. bpc'[c] = "ended" /\ bask'[c] = bask[c]
        BY <2>1, <2>2, <2>5, Zenon
      <3>2. open' = open \ {bask[c].session}
        BY <2>5, SMT DEF CliEnds, TakesEffect
      <3>3. bask[c].session \notin open'
        BY <3>2, Zenon
      <3> QED BY <1>1, <1>2, <1>3, <1>4, <3>1, <3>3, SessionsKept, Zenon
    <2> QED BY <2>3, <2>4, <2>5, Zenon
  <1> QED BY <1>5, <1>6, Zenon

(* A process the manager gave up on acts late: its session is in doubt.    *)
LEMMA StraySessions ==
    ASSUME NEW p \in strays, SessionInv, StrayActs(p)
    PROVE  SessionInv'
  <1>1. /\ active' = active /\ bpc' = bpc /\ bask' = bask /\ doubtful' = doubtful
        /\ strays' \subseteq strays
    BY Zenon DEF StrayActs
  <1>2. \A s \in open' : s \in open \/ s = p.session
    BY Zenon DEF StrayActs, TakesEffect
  <1>3. p.session \in doubtful
    BY Zenon DEF SessionInv
  <1>4. open' \subseteq active' \cup doubtful'
    BY <1>1, <1>2, <1>3, Zenon DEF SessionInv
  <1>5. \A d \in BrowserCalls :
            bpc[d] = "ended" /\ bask[d].action = "close" =>
                bask[d].session \notin open' \/ bask[d].session \in doubtful
    BY <1>2, <1>3, Zenon DEF SessionInv
  <1> QED BY <1>1, <1>4, <1>5, Zenon DEF SessionInv, Inside, Closing

(* The steps that touch neither the table nor a browser.                   *)
LEMMA QuietSessions ==
    ASSUME NEW c \in BrowserCalls, BrowserShape, SessionInv, ArgInv,
           \/ AskBrowser(c) \/ SpawnCli(c) \/ CliTimesOut(c) \/ LookFirst(c) \/ Poll(c)
           \/ WaitForText(c) \/ PollDeadline(c) \/ \E ok \in BOOLEAN : Clicked(c, ok)
    PROVE  SessionInv'
  <1>1. active' = active /\ open' = open
    BY Zenon DEF AskBrowser, SpawnCli, CliTimesOut, LookFirst, Poll, WaitForText, PollDeadline, Clicked
  <1>2. doubtful \subseteq doubtful'
    BY Zenon DEF AskBrowser, SpawnCli, CliTimesOut, LookFirst, Poll, WaitForText, PollDeadline, Clicked
  <1>3. \A q \in strays' : q \in strays \/ q.session \in doubtful'
    <2>1. CASE CliTimesOut(c)
      BY <2>1, SMT DEF CliTimesOut
    <2>2. CASE ~CliTimesOut(c)
      BY <2>2, Zenon DEF AskBrowser, SpawnCli, LookFirst, Poll, WaitForText, PollDeadline, Clicked
    <2> QED BY <2>1, <2>2, Zenon
  <1>4. CASE AskBrowser(c)
    <2>1. /\ bpc'[c] \in {"asked", "answered"}
          /\ \A d \in BrowserCalls \ {c} : bpc'[d] = bpc[d] /\ bask'[d] = bask[d]
      BY <1>4, Zenon DEF AskBrowser, BrowserShape
    <2> QED BY <1>1, <1>2, <1>3, <2>1, SessionsKept, SMT
  <1>5. CASE SpawnCli(c)
    <2>1. /\ bpc[c] = "spawning" /\ bpc'[c] \in {"running", "failed"} /\ bask' = bask
          /\ \A d \in BrowserCalls \ {c} : bpc'[d] = bpc[d]
      BY <1>5, CallMoves, Zenon DEF SpawnCli
    <2> QED BY <1>1, <1>2, <1>3, <2>1, SessionsKept, SMT
  <1>6. CASE CliTimesOut(c) \/ LookFirst(c) \/ PollDeadline(c) \/ \E ok \in BOOLEAN : Clicked(c, ok)
    <2>1. PICK l \in {"failed", "clicking", "polling"} : MoveTo(c, l)
      BY <1>6, Zenon DEF CliTimesOut, LookFirst, PollDeadline, Clicked
    <2>2. bask' = bask
      BY <1>6, Zenon DEF CliTimesOut, LookFirst, PollDeadline, Clicked
    <2>3. /\ bpc'[c] \in {"failed", "clicking", "polling"}
          /\ \A d \in BrowserCalls \ {c} : bpc'[d] = bpc[d]
      BY <2>1, CallMoves, Zenon
    <2> QED BY <1>1, <1>2, <1>3, <2>2, <2>3, SessionsKept, SMT
  <1>7. CASE Poll(c) \/ WaitForText(c)
    <2>1. PICK l \in {"ended", "waiting"} : MoveTo(c, l)
      BY <1>7, Zenon DEF Poll, WaitForText
    <2>2. bask' = bask /\ Polls(c)
      BY <1>7, Zenon DEF Poll, WaitForText, ArgInv
    <2>3. bask'[c].action # "close"
      BY <2>2, SMT DEF Polls
    <2>4. /\ bpc'[c] \in {"ended", "waiting"}
          /\ \A d \in BrowserCalls \ {c} : bpc'[d] = bpc[d]
      BY <2>1, CallMoves, Zenon
    <2> QED BY <1>1, <1>2, <1>3, <2>2, <2>3, <2>4, SessionsKept, SMT
  <1> QED BY <1>4, <1>5, <1>6, <1>7, Zenon

(* A command whose parameters are all taken gets them all.                 *)
LEMMA AllTaken ==
    ASSUME NEW action, NEW params, action # "upload" \/ params = {ArrP("paths")},
           \A p \in params : Takes(action, p)
    PROVE  params_to_cli_args(action, params) = params
  <1>1. StrP("file") # ArrP("paths")
    BY SMT DEF StrP, ArrP
  <1> QED BY <1>1, Zenon DEF params_to_cli_args

(* What translate_act_kind makes of a kind of POST /act, its command takes. *)
LEMMA KindsArrive ==
    ASSUME NEW kind \in ActKinds
    PROVE  LET t == translate_act_kind(kind) IN params_to_cli_args(t.action, t.params) = t.params
  <1> DEFINE t == translate_act_kind(kind)
  <1>1. t.action # "upload" /\ \A p \in t.params : Takes(t.action, p)
    <2>1. CASE kind = "click"
      <3>1. t = Cmd("click", {StrP("ref")})
        BY <2>1, Zenon DEF translate_act_kind
      <3> QED BY <3>1, SMT DEF Cmd, Takes, StrP, IntP
    <2>2. CASE kind = "hover"
      <3>1. t = Cmd("hover", {StrP("ref")})
        BY <2>2, Zenon DEF translate_act_kind
      <3> QED BY <3>1, SMT DEF Cmd, Takes, StrP, IntP
    <2>3. CASE kind = "type"
      <3>1. t = Cmd("fill", {StrP("ref"), StrP("text")})
        BY <2>3, Zenon DEF translate_act_kind
      <3> QED BY <3>1, SMT DEF Cmd, Takes, StrP, IntP
    <2>4. CASE kind = "fill"
      <3>1. t = Cmd("fill", {StrP("ref"), StrP("text")})
        BY <2>4, Zenon DEF translate_act_kind
      <3> QED BY <3>1, SMT DEF Cmd, Takes, StrP, IntP
    <2>5. CASE kind = "press"
      <3>1. t = Cmd("press", {StrP("key")})
        BY <2>5, Zenon DEF translate_act_kind
      <3> QED BY <3>1, SMT DEF Cmd, Takes, StrP, IntP
    <2>6. CASE kind = "scrollIntoView"
      <3>1. t = Cmd("eval", {StrP("expression"), StrP("ref")})
        BY <2>6, Zenon DEF translate_act_kind
      <3> QED BY <3>1, SMT DEF Cmd, Takes, StrP, IntP
    <2>7. CASE kind = "evaluate"
      <3>1. t = Cmd("eval", {StrP("expression"), StrP("ref")})
        BY <2>7, Zenon DEF translate_act_kind
      <3> QED BY <3>1, SMT DEF Cmd, Takes, StrP, IntP
    <2>8. CASE kind = "select"
      <3>1. t = Cmd("select", {StrP("ref"), StrP("value")})
        BY <2>8, Zenon DEF translate_act_kind
      <3> QED BY <3>1, SMT DEF Cmd, Takes, StrP, IntP
    <2>9. CASE kind = "wait"
      <3>1. t = Cmd("eval", {StrP("expression")})
        BY <2>9, Zenon DEF translate_act_kind
      <3> QED BY <3>1, SMT DEF Cmd, Takes, StrP, IntP
    <2>10. CASE kind = "wait text"
      <3>1. t = Cmd("wait", {StrP("text")})
        BY <2>10, Zenon DEF translate_act_kind
      <3> QED BY <3>1, SMT DEF Cmd, Takes, StrP, IntP
    <2>11. CASE kind = "close"
      <3>1. t = Cmd("close", {})
        BY <2>11, Zenon DEF translate_act_kind
      <3> QED BY <3>1, SMT DEF Cmd, Takes, StrP, IntP
    <2>12. CASE kind = "drag"
      <3>1. t = Cmd("drag", {StrP("startRef"), StrP("endRef")})
        BY <2>12, Zenon DEF translate_act_kind
      <3> QED BY <3>1, SMT DEF Cmd, Takes, StrP, IntP
    <2>13. CASE kind = "resize"
      <3>1. t = Cmd("resize", {IntP("width"), IntP("height")})
        BY <2>13, Zenon DEF translate_act_kind
      <3> QED BY <3>1, SMT DEF Cmd, Takes, StrP, IntP
    <2> QED BY <2>1, <2>2, <2>3, <2>4, <2>5, <2>6, <2>7, <2>8, <2>9, <2>10, <2>11, <2>12, <2>13, Zenon DEF ActKinds
  <1> QED BY <1>1, AllTaken, Zenon

(* What translate_http_to_cli makes of a route, its command takes, but for *)
(* the index of a tab.                                                     *)
LEMMA RoutesArrive ==
    ASSUME NEW route
    PROVE  LET t == translate_http_to_cli(route)
           IN  t.action = "tab-select" \/ params_to_cli_args(t.action, t.params) = t.params
  <1> DEFINE t == translate_http_to_cli(route)
             Fits == /\ t.action # "upload" \/ t.params = {ArrP("paths")}
                     /\ t.action # "tab-select" => \A p \in t.params : Takes(t.action, p)
  <1> SUFFICES Fits
    BY AllTaken, Zenon
  <1>1. CASE route = "GET /snapshot"
    <2>1. t = Cmd("snapshot", {})
      BY <1>1, Zenon DEF translate_http_to_cli, Routes
    <2> QED BY <2>1, SMT DEF Cmd
  <1>2. CASE route = "POST /pdf"
    <2>1. t = Cmd("pdf", {})
      BY <1>2, Zenon DEF translate_http_to_cli, Routes
    <2> QED BY <2>1, SMT DEF Cmd
  <1>3. CASE route = "GET /tabs"
    <2>1. t = Cmd("tab-list", {})
      BY <1>3, Zenon DEF translate_http_to_cli, Routes
    <2> QED BY <2>1, SMT DEF Cmd
  <1>4. CASE route = "DELETE /tabs"
    <2>1. t = Cmd("tab-close", {})
      BY <1>4, Zenon DEF translate_http_to_cli, Routes
    <2> QED BY <2>1, SMT DEF Cmd
  <1>5. CASE route = "POST /start"
    <2>1. t = Cmd("open", {})
      BY <1>5, Zenon DEF translate_http_to_cli, Routes
    <2> QED BY <2>1, SMT DEF Cmd
  <1>6. CASE route = "POST /stop"
    <2>1. t = Cmd("close", {})
      BY <1>6, Zenon DEF translate_http_to_cli, Routes
    <2> QED BY <2>1, SMT DEF Cmd
  <1>7. CASE route = "GET /"
    <2>1. t = Cmd("list", {})
      BY <1>7, Zenon DEF translate_http_to_cli, Routes
    <2> QED BY <2>1, SMT DEF Cmd
  <1>8. CASE route = "GET /profiles"
    <2>1. t = Cmd("list", {})
      BY <1>8, Zenon DEF translate_http_to_cli, Routes
    <2> QED BY <2>1, SMT DEF Cmd
  <1>9. CASE route = "GET /console"
    <2>1. t = Cmd("console", {})
      BY <1>9, Zenon DEF translate_http_to_cli, Routes
    <2> QED BY <2>1, SMT DEF Cmd
  <1>10. CASE route = "POST /hooks/dialog dismiss"
    <2>1. t = Cmd("dialog-dismiss", {})
      BY <1>10, Zenon DEF translate_http_to_cli, Routes
    <2> QED BY <2>1, SMT DEF Cmd
  <1>11. CASE route = "POST /screenshot"
    <2>1. t = Cmd("screenshot", {StrP("ref")})
      BY <1>11, Zenon DEF translate_http_to_cli, Routes
    <2> QED BY <2>1, SMT DEF Cmd, Takes, StrP
  <1>12. CASE route = "POST /navigate"
    <2>1. t = Cmd("goto", {StrP("url")})
      BY <1>12, Zenon DEF translate_http_to_cli, Routes
    <2> QED BY <2>1, SMT DEF Cmd, Takes, StrP
  <1>13. CASE route = "POST /tabs/open"
    <2>1. t = Cmd("tab-new", {StrP("url")})
      BY <1>13, Zenon DEF translate_http_to_cli, Routes
    <2> QED BY <2>1, SMT DEF Cmd, Takes, StrP
  <1>14. CASE route = "POST /download"
    <2>1. t = Cmd("download", {StrP("ref")})
      BY <1>14, Zenon DEF translate_http_to_cli, Routes
    <2> QED BY <2>1, SMT DEF Cmd, Takes, StrP
  <1>15. CASE route = "POST /wait/download"
    <2>1. t = Cmd("download", {StrP("ref")})
      BY <1>15, Zenon DEF translate_http_to_cli, Routes
    <2> QED BY <2>1, SMT DEF Cmd, Takes, StrP
  <1>16. CASE route = "POST /hooks/file-chooser"
    <2>1. t = Cmd("upload", {ArrP("paths")})
      BY <1>16, Zenon DEF translate_http_to_cli, Routes
    <2> QED BY <2>1, SMT DEF Cmd, Takes, StrP, ArrP
  <1>17. CASE route = "POST /hooks/dialog"
    <2>1. t = Cmd("dialog-accept", {StrP("promptText")})
      BY <1>17, Zenon DEF translate_http_to_cli, Routes
    <2> QED BY <2>1, SMT DEF Cmd, Takes, StrP
  <1>18. CASE route = "POST /tabs/focus"
    <2>1. t = Cmd("tab-select", {StrP("index")})
      BY <1>18, Zenon DEF translate_http_to_cli, Routes
    <2> QED BY <2>1, SMT DEF Cmd
  <1>19. CASE route \notin Routes
    <2>1. t = Cmd("unsupported", {})
      BY <1>19, Zenon DEF translate_http_to_cli, Unsupported
    <2> QED BY <2>1, SMT DEF Cmd
  <1> QED BY <1>1, <1>2, <1>3, <1>4, <1>5, <1>6, <1>7, <1>8, <1>9, <1>10, <1>11, <1>12, <1>13, <1>14, <1>15, <1>16, <1>17, <1>18, <1>19, Zenon DEF Routes

(* Whatever door a call comes through, its command takes its parameters.   *)
LEMMA AsksArrive ==
    ASSUME NEW a \in BrowserAsks
    PROVE  LET t == Translated(a)
           IN  t.action = "tab-select" \/ params_to_cli_args(t.action, t.params) = t.params
  <1>1. CASE "kind" \in DOMAIN a
    <2>1. "route" \notin DOMAIN a /\ a.kind \in ActKinds
      BY <1>1, BrowserAssumption, Zenon
    <2>2. Translated(a) = translate_act_kind(a.kind)
      BY <1>1, <2>1, Zenon DEF Translated
    <2> QED BY <2>1, <2>2, KindsArrive, Zenon
  <1>2. CASE "kind" \notin DOMAIN a /\ "route" \in DOMAIN a
    <2>1. Translated(a) = translate_http_to_cli(a.route)
      BY <1>2, Zenon DEF Translated
    <2> QED BY <2>1, RoutesArrive, Zenon
  <1>3. CASE "kind" \notin DOMAIN a /\ "route" \notin DOMAIN a
    <2>1. Translated(a) = Cmd(a.action, a.params)
      BY <1>3, Zenon DEF Translated
    <2>2. a.action = "tab-select" \/ params_to_cli_args(a.action, a.params) = a.params
      BY <1>3, BrowserAssumption, Zenon
    <2>3. Translated(a).action = a.action /\ Translated(a).params = a.params
      BY <2>1, SMT DEF Cmd
    <2> QED BY <2>2, <2>3, Zenon
  <1> QED BY <1>1, <1>2, <1>3, Zenon

(* A call that moves on with the parameters it has keeps them arriving.    *)
LEMMA ArgsKept ==
    ASSUME NEW c \in BrowserCalls, ArgInv,
           \A d \in BrowserCalls \ {c} :
               bpc'[d] = bpc[d] /\ bask'[d] = bask[d] /\ argv'[d] = argv[d],
           bpc'[c] \in {"clicking", "polling", "waiting"} => Polls(c)',
           \/ bask'[c].action = "tab-select"
           \/ params_to_cli_args(bask'[c].action, bask'[c].params) = bask'[c].params,
           \/ bpc'[c] \notin {"running", "ended"} \/ Polls(c)'
           \/ bask'[c].action = "tab-select" \/ argv'[c] = bask'[c].params
    PROVE  ArgInv'
  <1>1. \A d \in BrowserCalls \ {c} : Polls(d)' <=> Polls(d)
    BY Zenon DEF Polls
  <1>2. \A d \in BrowserCalls : bpc'[d] \in {"clicking", "polling", "waiting"} => Polls(d)'
    BY <1>1, Zenon DEF ArgInv
  <1>3. \A d \in BrowserCalls :
            \/ bask'[d].action = "tab-select"
            \/ params_to_cli_args(bask'[d].action, bask'[d].params) = bask'[d].params
    BY Zenon DEF ArgInv
  <1>4. ArgumentsArrive'
    BY <1>1, Zenon DEF ArgInv, ArgumentsArrive
  <1> QED BY <1>2, <1>3, <1>4, Zenon DEF ArgInv

(* The steps of a call keep the tables of the calls tables.                *)
LEMMA ShapeStep ==
    ASSUME NEW c \in BrowserCalls, BrowserShape,
           \/ AskBrowser(c) \/ Enter(c) \/ SpawnCli(c) \/ CliTimesOut(c) \/ AnswerBrowser(c)
           \/ LookFirst(c) \/ Poll(c) \/ WaitForText(c) \/ PollDeadline(c)
           \/ \E ok \in BOOLEAN : CliEnds(c, ok) \/ Clicked(c, ok)
    PROVE  BrowserShape'
  <1>1. bpc' = [x \in BrowserCalls |-> bpc'[x]]
    <2>1. \E l : bpc' = [bpc EXCEPT ![c] = l]
      BY Zenon DEF AskBrowser, Enter, SpawnCli, CliTimesOut, AnswerBrowser, LookFirst, Poll,
                   WaitForText, PollDeadline, CliEnds, Clicked, MoveTo
    <2> QED BY <2>1, Zenon DEF BrowserShape
  <1>2. bask' = [x \in BrowserCalls |-> bask'[x]]
    <2>1. bask' = bask \/ \E r : bask' = [bask EXCEPT ![c] = r]
      BY Zenon DEF AskBrowser, Enter, SpawnCli, CliTimesOut, AnswerBrowser, LookFirst, Poll,
                   WaitForText, PollDeadline, CliEnds, Clicked
    <2> QED BY <2>1, Zenon DEF BrowserShape
  <1>3. \A d \in BrowserCalls : DOMAIN bask'[d] = {"door", "session", "action", "params", "submit"}
    <2>1. CASE bask' = bask
      BY <2>1, Zenon DEF BrowserShape
    <2>2. CASE AskBrowser(c)
      <3>1. PICK a \in BrowserAsks :
                bask' = [bask EXCEPT ![c] =
                            [door |-> IF "action" \in DOMAIN a THEN "request" ELSE "proxy",
                             session |-> a.session, action |-> Translated(a).action,
                             params |-> Translated(a).params, submit |-> a.submit]]
        BY <2>2, Zenon DEF AskBrowser
      <3> QED BY <3>1, SMT DEF BrowserShape
    <2>3. CASE \E ok \in BOOLEAN : CliEnds(c, ok) /\ bask' # bask
      <3>1. bask' = [bask EXCEPT ![c] = [bask[c] EXCEPT !.action = "press",
                                             !.params = {StrP("key")}, !.submit = FALSE]]
        BY <2>3, Zenon DEF CliEnds
      <3> QED BY <3>1, SMT DEF BrowserShape
    <2> QED BY <2>1, <2>2, <2>3, Zenon DEF Enter, SpawnCli, CliTimesOut, AnswerBrowser, LookFirst,
                 Poll, WaitForText, PollDeadline, Clicked
  <1>4. argv' = [x \in BrowserCalls |-> argv'[x]]
    <2>1. argv' = argv \/ \E v : argv' = [argv EXCEPT ![c] = v]
      BY Zenon DEF AskBrowser, Enter, SpawnCli, CliTimesOut, AnswerBrowser, LookFirst, Poll,
                   WaitForText, PollDeadline, CliEnds, Clicked
    <2> QED BY <2>1, Zenon DEF BrowserShape
  <1>5. before' = [x \in BrowserCalls |-> before'[x]]
    <2>1. before' = before \/ \E v : before' = [before EXCEPT ![c] = v]
      BY Zenon DEF AskBrowser, Enter, SpawnCli, CliTimesOut, AnswerBrowser, LookFirst, Poll,
                   WaitForText, PollDeadline, CliEnds, Clicked
    <2> QED BY <2>1, Zenon DEF BrowserShape
  <1>6. got' = [x \in BrowserCalls |-> got'[x]]
    <2>1. got' = got \/ \E v : got' = [got EXCEPT ![c] = v]
      BY Zenon DEF AskBrowser, Enter, SpawnCli, CliTimesOut, AnswerBrowser, LookFirst, Poll,
                   WaitForText, PollDeadline, CliEnds, Clicked
    <2> QED BY <2>1, Zenon DEF BrowserShape
  <1> QED BY <1>1, <1>2, <1>3, <1>4, <1>5, <1>6, Zenon DEF BrowserShape

(* From the door to the command line (translate_http_to_cli, execute): a   *)
(* call keeps the parameters its command takes, and they reach it.         *)
LEMMA ArgStep ==
    ASSUME NEW c \in BrowserCalls, BrowserShape, ArgInv,
           \/ AskBrowser(c) \/ Enter(c) \/ SpawnCli(c) \/ CliTimesOut(c) \/ AnswerBrowser(c)
           \/ LookFirst(c) \/ Poll(c) \/ WaitForText(c) \/ PollDeadline(c)
           \/ \E ok \in BOOLEAN : CliEnds(c, ok) \/ Clicked(c, ok)
    PROVE  ArgInv'
  <1>1. CASE AskBrowser(c)
    <2>1. PICK a \in BrowserAsks :
              /\ bask' = [bask EXCEPT ![c] =
                            [door |-> IF "action" \in DOMAIN a THEN "request" ELSE "proxy",
                             session |-> a.session, action |-> Translated(a).action,
                             params |-> Translated(a).params, submit |-> a.submit]]
              /\ \E l \in {"asked", "answered"} : bpc' = [bpc EXCEPT ![c] = l]
      BY <1>1, Zenon DEF AskBrowser
    <2>2. bask'[c].action = Translated(a).action /\ bask'[c].params = Translated(a).params
      BY <2>1, SMT DEF BrowserShape
    <2>3. /\ bpc'[c] \in {"asked", "answered"} /\ argv' = argv
          /\ \A d \in BrowserCalls \ {c} : bpc'[d] = bpc[d] /\ bask'[d] = bask[d]
      BY <1>1, <2>1, Zenon DEF AskBrowser, BrowserShape
    <2>4. bpc'[c] \notin {"clicking", "polling", "waiting", "running", "ended"}
      BY <2>3, SMT
    <2> QED BY <2>2, <2>3, <2>4, AsksArrive, ArgsKept, Zenon
  <1>2. CASE Enter(c) \/ CliTimesOut(c) \/ AnswerBrowser(c) \/ PollDeadline(c)
    <2>1. PICK l \in {"refused", "spawning", "failed", "answered"} : MoveTo(c, l)
      BY <1>2, Zenon DEF Enter, CliTimesOut, AnswerBrowser, PollDeadline
    <2>2. bask' = bask /\ argv' = argv
      BY <1>2, Zenon DEF Enter, CliTimesOut, AnswerBrowser, PollDeadline
    <2>3. bpc'[c] = l /\ \A d \in BrowserCalls \ {c} : bpc'[d] = bpc[d]
      BY <2>1, CallMoves, Zenon
    <2>4. bpc'[c] \notin {"clicking", "polling", "waiting", "running", "ended"}
      BY <2>3, SMT
    <2>5. \/ bask[c].action = "tab-select"
          \/ params_to_cli_args(bask[c].action, bask[c].params) = bask[c].params
      BY Zenon DEF ArgInv
    <2> QED BY <2>2, <2>3, <2>4, <2>5, ArgsKept, Zenon
  <1>3. CASE SpawnCli(c)
    <2>1. PICK l \in {"running", "failed"} : MoveTo(c, l)
      BY <1>3, Zenon DEF SpawnCli
    <2>2. /\ bask' = bask
          /\ argv' = [argv EXCEPT ![c] = params_to_cli_args(bask[c].action, bask[c].params)]
      BY <1>3, Zenon DEF SpawnCli
    <2>3. bpc'[c] = l /\ \A d \in BrowserCalls \ {c} : bpc'[d] = bpc[d]
      BY <2>1, CallMoves, Zenon
    <2>4. bpc'[c] \notin {"clicking", "polling", "waiting"}
      BY <2>3, SMT
    <2>5. \/ bask[c].action = "tab-select"
          \/ params_to_cli_args(bask[c].action, bask[c].params) = bask[c].params
      BY Zenon DEF ArgInv
    <2>6. /\ argv'[c] = params_to_cli_args(bask[c].action, bask[c].params)
          /\ \A d \in BrowserCalls \ {c} : argv'[d] = argv[d]
      BY <2>2, Zenon DEF BrowserShape
    <2> QED BY <2>2, <2>3, <2>4, <2>5, <2>6, ArgsKept, Zenon
  <1>4. CASE LookFirst(c) \/ Poll(c) \/ WaitForText(c) \/ \E ok \in BOOLEAN : Clicked(c, ok)
    <2>1. /\ bask' = bask /\ argv' = argv
          /\ \E l : MoveTo(c, l)
      BY <1>4, Zenon DEF LookFirst, Poll, WaitForText, Clicked
    <2>2. Polls(c)
      BY <1>4, Zenon DEF LookFirst, Poll, WaitForText, Clicked, ArgInv
    <2>3. Polls(c)'
      BY <2>1, <2>2, Zenon DEF Polls
    <2>4. \A d \in BrowserCalls \ {c} : bpc'[d] = bpc[d]
      BY <2>1, CallMoves, Zenon
    <2>5. \/ bask[c].action = "tab-select"
          \/ params_to_cli_args(bask[c].action, bask[c].params) = bask[c].params
      BY Zenon DEF ArgInv
    <2> QED BY <2>1, <2>3, <2>4, <2>5, ArgsKept, Zenon
  <1>5. CASE \E ok \in BOOLEAN : CliEnds(c, ok)
    <2>1. PICK ok \in BOOLEAN : CliEnds(c, ok)
      BY <1>5, Zenon
    <2>2. /\ bpc[c] = "running" /\ argv' = argv
          /\ \A d \in BrowserCalls \ {c} : bpc'[d] = bpc[d] /\ bask'[d] = bask[d]
      BY <2>1, CallMoves, Zenon DEF CliEnds, BrowserShape
    <2>3. CASE ok /\ bask[c].action = "fill" /\ bask[c].submit
      <3>1. /\ bask' = [bask EXCEPT ![c] = [bask[c] EXCEPT !.action = "press",
                                               !.params = {StrP("key")}, !.submit = FALSE]]
            /\ MoveTo(c, "asked")
        BY <2>1, <2>3, Zenon DEF CliEnds
      <3>2. bask'[c].action = "press" /\ bask'[c].params = {StrP("key")}
        <4>1. /\ bask'[c] = [bask[c] EXCEPT !.action = "press", !.params = {StrP("key")},
                                            !.submit = FALSE]
              /\ DOMAIN bask[c] = {"door", "session", "action", "params", "submit"}
          BY <3>1, Zenon DEF BrowserShape
        <4> QED BY <4>1, SMTT(40)
      <3>3. bpc'[c] \notin {"clicking", "polling", "waiting", "running", "ended"}
        <4>1. bpc'[c] = "asked"
          BY <3>1, CallMoves, Zenon
        <4> QED BY <4>1, SMT
      <3>4. params_to_cli_args("press", {StrP("key")}) = {StrP("key")}
        <4>1. \A p \in {StrP("key")} : Takes("press", p)
          BY SMT DEF Takes, StrP
        <4> QED BY <4>1, AllTaken, SMT
      <3> QED BY <2>2, <3>2, <3>3, <3>4, ArgsKept, Zenon
    <2>4. CASE ~(ok /\ bask[c].action = "fill" /\ bask[c].submit)
      <3>1. bask' = bask /\ \E l \in {"ended", "failed"} : MoveTo(c, l)
        BY <2>1, <2>4, Zenon DEF CliEnds
      <3>2. bpc'[c] \in {"ended", "failed"}
        BY <3>1, CallMoves, Zenon
      <3>3. bpc'[c] \notin {"clicking", "polling", "waiting"}
        BY <3>2, SMT
      <3>4. \/ bask[c].action = "tab-select"
            \/ params_to_cli_args(bask[c].action, bask[c].params) = bask[c].params
        BY Zenon DEF ArgInv
      <3>5. Polls(c) \/ bask[c].action = "tab-select" \/ argv[c] = bask[c].params
        BY <2>2, Zenon DEF ArgInv, ArgumentsArrive
      <3>6. Polls(c)' <=> Polls(c)
        BY <3>1, Zenon DEF Polls
      <3> QED BY <2>2, <3>1, <3>3, <3>4, <3>5, <3>6, ArgsKept, Zenon
    <2> QED BY <2>3, <2>4, Zenon
  <1> QED BY <1>1, <1>2, <1>3, <1>4, <1>5, Zenon

(* execute_download: only a poll gives a call a file, and only one that    *)
(* was not there before the click.                                         *)
LEMMA GotStep ==
    ASSUME NEW c \in BrowserCalls, BrowserShape, GotInv,
           \/ AskBrowser(c) \/ Enter(c) \/ SpawnCli(c) \/ CliTimesOut(c) \/ AnswerBrowser(c)
           \/ LookFirst(c) \/ Poll(c) \/ WaitForText(c) \/ PollDeadline(c)
           \/ \E ok \in BOOLEAN : CliEnds(c, ok) \/ Clicked(c, ok)
    PROVE  GotInv'
  <1>1. \A d \in BrowserCalls \ {c} : /\ bpc'[d] = bpc[d] /\ bask'[d] = bask[d]
                                      /\ before'[d] = before[d] /\ got'[d] = got[d]
    <2>1. \A d \in BrowserCalls \ {c} : bpc'[d] = bpc[d]
      <3>1. \E l : bpc' = [bpc EXCEPT ![c] = l]
        BY Zenon DEF AskBrowser, Enter, SpawnCli, CliTimesOut, AnswerBrowser, LookFirst, Poll,
                     WaitForText, PollDeadline, CliEnds, Clicked, MoveTo
      <3> QED BY <3>1, Zenon DEF BrowserShape
    <2>2. \A d \in BrowserCalls \ {c} : bask'[d] = bask[d]
      <3>1. bask' = bask \/ \E r : bask' = [bask EXCEPT ![c] = r]
        BY Zenon DEF AskBrowser, Enter, SpawnCli, CliTimesOut, AnswerBrowser, LookFirst, Poll,
                     WaitForText, PollDeadline, CliEnds, Clicked
      <3> QED BY <3>1, Zenon DEF BrowserShape
    <2>3. \A d \in BrowserCalls \ {c} : before'[d] = before[d]
      <3>1. before' = before \/ \E v : before' = [before EXCEPT ![c] = v]
        BY Zenon DEF AskBrowser, Enter, SpawnCli, CliTimesOut, AnswerBrowser, LookFirst, Poll,
                     WaitForText, PollDeadline, CliEnds, Clicked
      <3> QED BY <3>1, Zenon DEF BrowserShape
    <2>4. \A d \in BrowserCalls \ {c} : got'[d] = got[d]
      <3>1. got' = got \/ \E v : got' = [got EXCEPT ![c] = v]
        BY Zenon DEF AskBrowser, Enter, SpawnCli, CliTimesOut, AnswerBrowser, LookFirst, Poll,
                     WaitForText, PollDeadline, CliEnds, Clicked
      <3> QED BY <3>1, Zenon DEF BrowserShape
    <2> QED BY <2>1, <2>2, <2>3, <2>4, Zenon
  <1>2. /\ got'[c] # {} => bpc'[c] \in {"ended", "answered"}
        /\ \A f \in got'[c] : f.whole /\ f.session = bask'[c].session /\ f \notin before'[c]
    <2>1. CASE Poll(c)
      <3>1. PICK f \in files \ before[c] :
                f.session = bask[c].session /\ f.whole /\ got' = [got EXCEPT ![c] = {f}]
        BY <2>1, Zenon DEF Poll
      <3>2. got'[c] = {f} /\ bask' = bask /\ before' = before /\ MoveTo(c, "ended")
        BY <2>1, <3>1, Zenon DEF Poll, BrowserShape
      <3>3. bpc'[c] = "ended"
        BY <3>2, CallMoves, Zenon
      <3> QED BY <3>1, <3>2, <3>3, Zenon
    <2>2. CASE AnswerBrowser(c)
      <3>1. bask' = bask /\ before' = before /\ got' = got /\ bpc'[c] = "answered"
        BY <2>2, CallMoves, Zenon DEF AnswerBrowser
      <3> QED BY <3>1, Zenon DEF GotInv, DownloadIsNew
    <2>3. CASE ~Poll(c) /\ ~AnswerBrowser(c)
      <3>1. got' = got
        BY <2>3, Zenon DEF AskBrowser, Enter, SpawnCli, CliTimesOut, LookFirst, WaitForText,
                     PollDeadline, CliEnds, Clicked
      <3>2. bpc[c] \in {"new", "asked", "spawning", "running", "clicking", "polling", "waiting"}
        BY <2>3, Zenon DEF AskBrowser, Enter, SpawnCli, CliTimesOut, LookFirst, WaitForText,
                     PollDeadline, CliEnds, Clicked
      <3>3. got[c] = {}
        <4>1. bpc[c] \notin {"ended", "answered"}
          BY <3>2, SMT
        <4> QED BY <4>1, Zenon DEF GotInv
      <3> QED BY <3>1, <3>3, Zenon
    <2> QED BY <2>1, <2>2, <2>3, Zenon
  <1>3. ASSUME NEW d \in BrowserCalls
        PROVE  /\ got'[d] # {} => bpc'[d] \in {"ended", "answered"}
               /\ \A f \in got'[d] : f.whole /\ f.session = bask'[d].session /\ f \notin before'[d]
    <2>1. CASE d = c
      BY <1>2, <2>1, Zenon
    <2>2. CASE d # c
      <3>1. bpc'[d] = bpc[d] /\ bask'[d] = bask[d] /\ before'[d] = before[d] /\ got'[d] = got[d]
        BY <1>1, <2>2, Zenon
      <3>2. /\ got[d] # {} => bpc[d] \in {"ended", "answered"}
            /\ \A f \in got[d] : f.whole /\ f.session = bask[d].session /\ f \notin before[d]
        BY Zenon DEF GotInv, DownloadIsNew
      <3>3. got'[d] # {} => bpc'[d] \in {"ended", "answered"}
        BY <3>1, <3>2, Zenon
      <3>4. ASSUME NEW f \in got'[d]
            PROVE  f.whole /\ f.session = bask'[d].session /\ f \notin before'[d]
        <4>1. f \in got[d]
          BY <3>1, Zenon
        <4>2. f.whole /\ f.session = bask[d].session /\ f \notin before[d]
          BY <3>2, <4>1, Zenon
        <4> QED BY <3>1, <4>2, Zenon
      <3> QED BY <3>3, <3>4, Zenon
    <2> QED BY <2>1, <2>2, Zenon
  <1> QED BY <1>3, Zenon DEF GotInv, DownloadIsNew

(* Steps of the browser alone leave what is said of the calls.             *)
LEMMA CallsRest ==
    ASSUME BrowserShape, ArgInv, GotInv,
           bpc' = bpc, bask' = bask, argv' = argv, before' = before, got' = got
    PROVE  BrowserShape' /\ ArgInv' /\ GotInv'
  <1>1. BrowserShape'
    BY Zenon DEF BrowserShape
  <1>2. \A c \in BrowserCalls : Polls(c)' <=> Polls(c)
    BY Zenon DEF Polls
  <1>3. ArgumentsArrive'
    BY <1>2, Zenon DEF ArgInv, ArgumentsArrive
  <1>4. ArgInv'
    BY <1>2, <1>3, Zenon DEF ArgInv
  <1>5. GotInv'
    BY Zenon DEF GotInv, DownloadIsNew
  <1> QED BY <1>1, <1>4, <1>5, Zenon

(* Nor does one that leaves the table and the browsers touch the sessions. *)
LEMMA SessionsRest ==
    ASSUME SessionInv, bpc' = bpc, bask' = bask, active' = active, open' = open,
           doubtful' = doubtful, strays' = strays
    PROVE  SessionInv'
  <1>1. \A c \in BrowserCalls : (Inside(c)' <=> Inside(c)) /\ (Closing(c)' <=> Closing(c))
    BY Zenon DEF Inside, Closing
  <1> QED BY <1>1, Zenon DEF SessionInv

(* Every step of the BrowserManager and its callers keeps the invariant.   *)
LEMMA BrowserStep ==
    ASSUME BrowserInv, [BrowserNext]_browserVars
    PROVE  BrowserInv'
  <1>1. CASE UNCHANGED browserVars
    BY <1>1, CallsRest, SessionsRest, Zenon DEF browserVars, BrowserInv
  <1>2. CASE \E p \in strays : StrayActs(p)
    <2>1. PICK p \in strays : StrayActs(p)
      BY <1>2, Zenon
    <2>2. bpc' = bpc /\ bask' = bask /\ argv' = argv /\ before' = before /\ got' = got
      BY <2>1, Zenon DEF StrayActs
    <2> QED BY <2>1, <2>2, StraySessions, CallsRest, Zenon DEF BrowserInv
  <1>3. CASE \E f \in files : FileComplete(f)
    BY <1>3, CallsRest, SessionsRest, Zenon DEF FileComplete, BrowserInv
  <1>4. ASSUME NEW c \in BrowserCalls,
               \/ AskBrowser(c) \/ Enter(c) \/ SpawnCli(c) \/ CliTimesOut(c) \/ AnswerBrowser(c)
               \/ LookFirst(c) \/ Poll(c) \/ WaitForText(c) \/ PollDeadline(c)
               \/ \E ok \in BOOLEAN : CliEnds(c, ok) \/ Clicked(c, ok)
        PROVE  BrowserInv'
    <2>1. BrowserShape' /\ ArgInv' /\ GotInv'
      BY <1>4, ShapeStep, ArgStep, GotStep, Zenon DEF BrowserInv
    <2>2. SessionInv'
      BY <1>4, EnterSessions, AnswerSessions, EndsSessions, QuietSessions, Zenon DEF BrowserInv
    <2> QED BY <2>1, <2>2, Zenon DEF BrowserInv
  <1> QED BY <1>1, <1>2, <1>3, <1>4, Zenon DEF BrowserNext

(* Whatever calls come, in whatever order their processes end, fail or act *)
(* late: no more sessions than the limit are counted and every open        *)
(* browser is, unless its session is in doubt; the parameters a caller     *)
(* gives reach the command line; and a download returns a complete file of *)
(* its session that was not there before.                                  *)
THEOREM BrowserKeepsWord == BrowserSpec => []BrowserSound
  <1>1. BrowserInit => BrowserInv
    <2> SUFFICES ASSUME BrowserInit PROVE BrowserInv
      OBVIOUS
    <2>1. BrowserShape
      BY SMT DEF BrowserInit, BrowserShape
    <2>2. \A c \in BrowserCalls : /\ bpc[c] = "new" /\ argv[c] = {} /\ got[c] = {}
                                  /\ bask[c].action = "none" /\ bask[c].params = {}
      BY SMT DEF BrowserInit
    <2>3. SessionInv
      <3>1. IsFiniteSet(active) /\ Cardinality(active) <= MaxSessions
        BY FS_EmptySet, BrowserAssumption, SMT DEF BrowserInit
      <3>2. \A c \in BrowserCalls : ~Inside(c) /\ bpc[c] # "ended"
        BY <2>2, SMT DEF Inside
      <3> QED BY <3>1, <3>2, Zenon DEF SessionInv, BrowserInit
    <2>4. ArgInv
      <3>1. \A c \in BrowserCalls :
                bpc[c] \notin {"clicking", "polling", "waiting", "running", "ended"}
        BY <2>2, SMT
      <3>2. params_to_cli_args("none", {}) = {}
        BY Zenon DEF params_to_cli_args
      <3> QED BY <2>2, <3>1, <3>2, Zenon DEF ArgInv, ArgumentsArrive
    <2>5. GotInv
      BY <2>2, Zenon DEF GotInv, DownloadIsNew
    <2> QED BY <2>1, <2>3, <2>4, <2>5, Zenon DEF BrowserInv
  <1>2. BrowserInv => BrowserSound
    BY Zenon DEF BrowserInv, SessionInv, ArgInv, GotInv, BrowserSound, OpenIsCounted
  <1> QED BY <1>1, <1>2, BrowserStep, PTL DEF BrowserSpec
=============================================================================

----------------------------- MODULE AppTools -----------------------------
(* App tools in the daemon (ahand_client.rs handle_app_tool_request,       *)
(* app_tool_registry/mod.rs): the embedding app registers a tool, the      *)
(* daemon advertises it to the hub, and the hub's AppToolRequests are      *)
(* gated, approved, executed and remembered by their tool_call_id.  The    *)
(* read loop serves one request at a time; approval waiters, executors and *)
(* handlers are tasks.  Time is counted in ticks of any length; tasks that *)
(* can run do so within a tick.                                            *)
EXTENDS Naturals, Sequences, FiniteSets

CONSTANTS
    Deliveries,         \* AppToolRequests that arrive, replays included
    callOf,             \* delivery -> its tool_call_id
    MaxPermits,         \* MAX_CONCURRENT_APP_TOOLS
    MaxRemembered,      \* MAX_COMPLETED_CALLS
    Total,              \* the call's clamped timeout, in ticks
    ApprovalTimeout,    \* the operator's approval timeout
    MinExec,            \* MIN_TIMEOUT_MS
    Grace,              \* GRACE_MS of the hub
    MaxRevision,        \* bound on register and unregister calls
    NoCall

ASSUME AppToolAssumption ==
    /\ IsFiniteSet(Deliveries) /\ NoCall \notin Deliveries
    /\ DOMAIN callOf = Deliveries
    /\ MaxPermits \in Nat /\ MaxRemembered \in Nat /\ MaxRevision \in Nat
    /\ Total \in Nat /\ ApprovalTimeout \in Nat /\ MinExec \in Nat /\ Grace \in Nat
    /\ MinExec < Grace

VARIABLES
    registered, revision,   \* the tools map and its revision
    noticed,                \* revision the watcher has marked as seen
    watcher,                \* "snapshot" while it owes one, else "watch"
    advertised,             \* <<revision, registered>> of the last snapshot sent
    loopOn,                 \* the delivery the read loop serves
    call,                   \* delivery -> its stage
    age,                    \* delivery -> ticks since it arrived
    execSince, execBudget,  \* delivery -> when its execution began, its timeout
    runningIds, remembered, \* running and completed
    toolPermits,            \* free permits
    handling,               \* deliveries whose handler task is alive
    asked, verdict,         \* call id -> delivery whose approval is pending; the answers
    toolOutcome,                \* delivery -> what the hub is told
    handled,                \* handler invocations so far (history)
    slipped                 \* deliveries checked between two halves of mark_completed (history)

catalogVars == <<registered, revision, noticed, watcher, advertised>>
callVars == <<loopOn, call, age, execSince, execBudget, runningIds, remembered, toolPermits,
              handling, asked, verdict, toolOutcome, handled, slipped>>

CallIds == {callOf[d] : d \in Deliveries}

CatalogInit ==
    /\ registered = FALSE /\ revision = 0 /\ noticed = 0
    /\ watcher = "snapshot" /\ advertised = <<0, FALSE>>

CallInit ==
    /\ loopOn = NoCall
    /\ call = [d \in Deliveries |-> "new"]
    /\ age = [d \in Deliveries |-> 0]
    /\ execSince = [d \in Deliveries |-> 0] /\ execBudget = [d \in Deliveries |-> 0]
    /\ runningIds = {} /\ remembered = <<>>
    /\ toolPermits = MaxPermits
    /\ handling = {}
    /\ asked = [i \in CallIds |-> NoCall]
    /\ verdict = [d \in Deliveries |-> "none"]
    /\ toolOutcome = [d \in Deliveries |-> "none"]
    /\ handled = [i \in CallIds |-> 0]
    /\ slipped = {}
----------------------------------------------------------------------------
(* register and unregister bump the revision under the tools lock.         *)
register ==
    /\ ~registered /\ revision < MaxRevision
    /\ registered' = TRUE /\ revision' = revision + 1
    /\ UNCHANGED <<noticed, watcher, advertised>>

unregister ==
    /\ registered /\ revision < MaxRevision
    /\ registered' = FALSE /\ revision' = revision + 1
    /\ UNCHANGED <<noticed, watcher, advertised>>

(* A new connection: the current revision is marked seen, then a snapshot  *)
(* is sent and the watcher started.                                        *)
AdvertiseOnConnect ==
    /\ watcher = "watch"
    /\ noticed' = revision
    /\ watcher' = "snapshot"
    /\ UNCHANGED <<registered, revision, advertised>>

(* revision_rx.changed() marks the revision seen; the snapshot follows.    *)
RevisionChanged ==
    /\ watcher = "watch" /\ noticed # revision
    /\ noticed' = revision
    /\ watcher' = "snapshot"
    /\ UNCHANGED <<registered, revision, advertised>>

(* Mutant: the snapshot marks what it saw as seen.                         *)
MutSendSnapshot ==
    /\ watcher = "snapshot"
    /\ advertised' = <<noticed, registered>>
    /\ noticed' = revision
    /\ watcher' = "watch"
    /\ UNCHANGED <<registered, revision>>

SendSnapshot ==
    /\ watcher = "snapshot"
    /\ advertised' = <<revision, registered>>
    /\ watcher' = "watch"
    /\ UNCHANGED <<registered, revision, noticed>>
----------------------------------------------------------------------------
At(d, stage) == call' = [call EXCEPT ![d] = stage]
ToolAnswer(d, code) == toolOutcome' = [toolOutcome EXCEPT ![d] = code]

(* A request arrives; call_state looks into running first.  A duplicate of *)
(* a running call is dropped.                                              *)
CheckToolRunning(d) ==
    /\ loopOn = NoCall /\ call[d] = "new"
    /\ IF callOf[d] \in runningIds
       THEN At(d, "done") /\ ToolAnswer(d, "dropped") /\ UNCHANGED <<loopOn, slipped>>
       ELSE /\ At(d, "checked") /\ loopOn' = d /\ UNCHANGED toolOutcome
            /\ slipped' = IF \E e \in Deliveries : callOf[e] = callOf[d] /\ call[e] = "push"
                          THEN slipped \cup {d} ELSE slipped
    /\ UNCHANGED <<age, execSince, execBudget, runningIds, remembered, toolPermits,
                   handling, asked, verdict, handled>>

(* Then into completed: a remembered call is answered from the cache.      *)
CheckToolCompleted(d) ==
    /\ loopOn = d /\ call[d] = "checked"
    /\ IF \E i \in DOMAIN remembered : remembered[i] = callOf[d]
       THEN At(d, "done") /\ ToolAnswer(d, "replayed") /\ loopOn' = NoCall
       ELSE At(d, "lookup") /\ UNCHANGED <<toolOutcome, loopOn>>
    /\ UNCHANGED <<age, execSince, execBudget, runningIds, remembered, toolPermits,
                   handling, asked, verdict, handled, slipped>>

(* Lookup and the session gate: an unknown tool, an inactive session.  The *)
(* tool may be registered or not, the session in any mode, at any request. *)
Refuse(d) ==
    /\ loopOn = d /\ call[d] = "lookup"
    /\ \E code \in {"SESSION_INACTIVE", "TOOL_NOT_FOUND"} : ToolAnswer(d, code)
    /\ At(d, "done") /\ loopOn' = NoCall
    /\ UNCHANGED <<age, execSince, execBudget, runningIds, remembered, toolPermits,
                   handling, asked, verdict, handled, slipped>>

(* Approval is needed: mark_running, submit (which replaces a pending      *)
(* entry of the id and so closes its waiter's channel), spawn the waiter.  *)
NeedsApproval(d) ==
    /\ loopOn = d /\ call[d] = "lookup"
    /\ runningIds' = runningIds \cup {callOf[d]}
    /\ asked' = [asked EXCEPT ![callOf[d]] = d]
    /\ verdict' = IF asked[callOf[d]] = NoCall THEN verdict
                  ELSE [verdict EXCEPT ![asked[callOf[d]]] = "closed"]
    /\ At(d, "approval") /\ loopOn' = NoCall
    /\ UNCHANGED <<age, execSince, execBudget, remembered, toolPermits, handling,
                   toolOutcome, handled, slipped>>

Allow(d) ==
    /\ loopOn = d /\ call[d] = "lookup"
    /\ At(d, "ready")
    /\ UNCHANGED <<loopOn, age, execSince, execBudget, runningIds, remembered,
                   toolPermits, handling, asked, verdict, toolOutcome, handled, slipped>>

(* The user's answer reaches the pending entry.                            *)
Resolve(i, v) ==
    /\ asked[i] # NoCall
    /\ asked' = [asked EXCEPT ![i] = NoCall]
    /\ verdict' = [verdict EXCEPT ![asked[i]] = v]
    /\ UNCHANGED <<loopOn, call, age, execSince, execBudget, runningIds, remembered,
                   toolPermits, handling, toolOutcome, handled, slipped>>

ApprovalWait == IF ApprovalTimeout < Total THEN ApprovalTimeout ELSE Total

(* The waiter: granted, denied, or timed out or closed, which expires      *)
(* whatever is pending under the id.                                       *)
WaiterAnswered(d) ==
    /\ call[d] = "approval" /\ verdict[d] \in {"granted", "denied"}
    /\ IF verdict[d] = "granted" THEN At(d, "ready") /\ UNCHANGED toolOutcome
       ELSE At(d, "finish") /\ ToolAnswer(d, "APPROVAL_DENIED")
    /\ UNCHANGED <<loopOn, age, execSince, execBudget, runningIds, remembered,
                   toolPermits, handling, asked, verdict, handled, slipped>>

WaiterExpires(d) ==
    /\ call[d] = "approval"
    /\ verdict[d] = "closed" \/ (verdict[d] = "none" /\ age[d] >= ApprovalWait)
    /\ At(d, "finish") /\ ToolAnswer(d, "APPROVAL_TIMEOUT")
    /\ asked' = [asked EXCEPT ![callOf[d]] = NoCall]
    /\ verdict' = IF asked[callOf[d]] \in {NoCall, d} THEN verdict
                  ELSE [verdict EXCEPT ![asked[callOf[d]]] = "closed"]
    /\ UNCHANGED <<loopOn, age, execSince, execBudget, runningIds, remembered,
                   toolPermits, handling, handled, slipped>>

(* validate_and_execute: arguments that do not parse, or no permit left.   *)
Invalid(d) ==
    /\ call[d] = "ready"
    /\ At(d, "finish")
    /\ \/ ToolAnswer(d, "INVALID_ARGS")
       \/ toolPermits = 0 /\ ToolAnswer(d, "CONCURRENCY_LIMIT")
    /\ UNCHANGED <<loopOn, age, execSince, execBudget, runningIds, remembered,
                   toolPermits, handling, asked, verdict, handled, slipped>>

Begin(d, budget) ==
    /\ call[d] = "ready" /\ toolPermits > 0
    /\ toolPermits' = toolPermits - 1
    /\ runningIds' = runningIds \cup {callOf[d]}
    /\ handling' = handling \cup {d}
    /\ handled' = [handled EXCEPT ![callOf[d]] = @ + 1]
    /\ execSince' = [execSince EXCEPT ![d] = age[d]]
    /\ execBudget' = [execBudget EXCEPT ![d] = budget]
    /\ At(d, "exec")
    /\ loopOn' = IF loopOn = d THEN NoCall ELSE loopOn
    /\ UNCHANGED <<age, remembered, asked, verdict, toolOutcome, slipped>>

MutExecute(d) == Begin(d, Total)

(* The permit, mark_running, the spawned executor and the handler's task;  *)
(* the execution gets what the approval left of the call's time.           *)
Execute(d) == Begin(d, IF age[d] + MinExec < Total THEN Total - age[d] ELSE MinExec)

(* The timeout fires; the handler is left running and keeps its permit.    *)
TimedOut(d) ==
    /\ call[d] = "exec" /\ d \in handling /\ age[d] - execSince[d] >= execBudget[d]
    /\ At(d, "finish") /\ ToolAnswer(d, "EXECUTION_TIMEOUT")
    /\ UNCHANGED <<loopOn, age, execSince, execBudget, runningIds, remembered,
                   toolPermits, handling, asked, verdict, handled, slipped>>

(* The handler returns, fails or panics; its permit drops.                 *)
HandlerEnds(d) ==
    /\ d \in handling
    /\ handling' = handling \ {d}
    /\ toolPermits' = toolPermits + 1
    /\ UNCHANGED <<loopOn, call, age, execSince, execBudget, runningIds, remembered,
                   asked, verdict, toolOutcome, handled, slipped>>

Joined(d) ==
    /\ call[d] = "exec" /\ d \notin handling
    /\ At(d, "finish")
    /\ \E code \in {"result", "HANDLER_ERROR", "HANDLER_PANIC"} : ToolAnswer(d, code)
    /\ UNCHANGED <<loopOn, age, execSince, execBudget, runningIds, remembered,
                   toolPermits, handling, asked, verdict, handled, slipped>>

(* mark_completed: off running, then, under another lock, into completed,  *)
(* whose oldest entry may have to go; the response is sent.                *)
RemoveRunning(d) ==
    /\ call[d] = "finish"
    /\ At(d, "push")
    /\ runningIds' = runningIds \ {callOf[d]}
    /\ UNCHANGED <<loopOn, age, execSince, execBudget, remembered, toolPermits,
                   handling, asked, verdict, toolOutcome, handled, slipped>>

PushCompleted(d) ==
    /\ call[d] = "push"
    /\ At(d, "done")
    /\ remembered' = LET all == Append(remembered, callOf[d])
                     IN IF Len(all) > MaxRemembered THEN Tail(all) ELSE all
    /\ loopOn' = IF loopOn = d THEN NoCall ELSE loopOn
    /\ UNCHANGED <<age, execSince, execBudget, runningIds, toolPermits, handling,
                   asked, verdict, toolOutcome, handled, slipped>>

Due(d) ==
    \/ call[d] = "approval" /\ (verdict[d] # "none" \/ age[d] >= ApprovalWait)
    \/ call[d] = "exec" /\ (d \notin handling \/ age[d] - execSince[d] >= execBudget[d])

(* Time passes while every call waits for a user, a handler or a timer.    *)
Tick ==
    /\ \E d \in Deliveries : call[d] \in {"approval", "exec"}
    /\ \A d \in Deliveries : call[d] \in {"new", "approval", "exec", "done"} /\ ~Due(d)
    /\ age' = [d \in Deliveries |-> IF call[d] \in {"approval", "exec"} THEN age[d] + 1 ELSE age[d]]
    /\ UNCHANGED <<loopOn, call, execSince, execBudget, runningIds, remembered,
                   toolPermits, handling, asked, verdict, toolOutcome, handled, slipped>>
----------------------------------------------------------------------------
Serve(d) ==
    CheckToolCompleted(d) \/ Refuse(d) \/ NeedsApproval(d) \/ Allow(d) \/ WaiterAnswered(d)
        \/ WaiterExpires(d) \/ Invalid(d) \/ Execute(d) \/ TimedOut(d) \/ Joined(d)
        \/ RemoveRunning(d) \/ PushCompleted(d)

CatalogNext == register \/ unregister \/ AdvertiseOnConnect \/ RevisionChanged \/ SendSnapshot

CallNext ==
    \/ Tick
    \/ \E d \in Deliveries : CheckToolRunning(d) \/ Serve(d) \/ HandlerEnds(d)
    \/ \E i \in CallIds, v \in {"granted", "denied"} : Resolve(i, v)

(* The registry and the calls have no state in common: lookup may find the *)
(* tool or not whatever was advertised.                                    *)
AppToolSpec ==
    /\ CatalogInit /\ CallInit
    /\ [][\/ CatalogNext /\ UNCHANGED callVars
          \/ CallNext /\ UNCHANGED catalogVars]_<<catalogVars, callVars>>

----------------------------------------------------------------------------
(* The outcome is known within the call's time plus the hub's              *)
(* grace: approval and execution share one deadline, so no handler runs    *)
(* for a caller that has gone.                                             *)
AnsweredInWindow ==
    \A d \in Deliveries : age[d] <= Total + Grace /\ (call[d] = "exec" => age[d] < Total + Grace)

(* A permit is held exactly by each handler still alive, those whose call  *)
(* timed out included.                                                     *)
PermitsHeldByHandlers == toolPermits + Cardinality(handling) = MaxPermits

(* The handler runs once per tool_call_id however often the request is     *)
(* delivered, unless a copy was checked between the two halves of          *)
(* mark_completed or the id was evicted from the completed calls.          *)
HandledOnce ==
    \A i \in CallIds :
        handled[i] > 1 =>
            \/ \E d \in slipped : callOf[d] = i
            \/ Cardinality({d \in Deliveries : call[d] = "done"}) > MaxRemembered

(* The watcher owes no update unless it is about to send one or has a      *)
(* change to notice: otherwise the hub holds the current catalogue.        *)
CatalogFresh ==
    watcher = "watch" /\ noticed = revision => advertised = <<revision, registered>>

(* An app tool call runs once, within its caller's time, and holds its     *)
(* permit exactly as long as its handler lives; and the hub is told of     *)
(* every tool that is there to be called.                                  *)
CallsSound == AnsweredInWindow /\ PermitsHeldByHandlers /\ HandledOnce /\ CatalogFresh
============================================================================

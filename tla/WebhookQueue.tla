---------------------------- MODULE WebhookQueue ----------------------------
(***************************************************************************)
(* The webhook delivery queue: one Postgres row per event, leased by the   *)
(* worker of any hub replica, posted by tasks under a per-replica          *)
(* semaphore, and deleted, rescheduled or moved to the dead-letter file    *)
(* (DLQ).  Every SQL statement, POST and file append is a step.            *)
(*                                                                         *)
(* Time is abstracted to whether next_retry_at has passed.  The five-      *)
(* minute lease is only outlived by a worker that died: a POST is bounded  *)
(* by request_timeout (seconds), and the runs keep the batches short.      *)
(***************************************************************************)
EXTENDS Naturals, FiniteSets

CONSTANTS Events,      \* event ids (fresh ulids)
          Workers,     \* hub replicas, one worker each
          Permits,     \* per replica: the permits of its semaphore
          MaxRetries,  \* WebhookConfig.max_retries
          Limit,       \* LEASE_BATCH
          MaxFaults,   \* bound: crashes and failing store or file calls
          None

ASSUME WebhookAssumption ==
    /\ IsFiniteSet(Events)
    /\ MaxRetries \in Nat \ {0}
    /\ Limit \in Nat \ {0}
    /\ MaxFaults \in Nat
    /\ None \notin Events \cup Permits \cup Workers
    /\ {"no", "done"} \cap Workers = {}

VARIABLES row,      \* per event: "none", or whether its next_retry_at has passed
          attempts, \* per event: the row's attempts
          by,       \* per event: the replica that last set its next_retry_at
          enq,      \* per event: "no", the replica that inserted it, "done" when notified
          at,       \* per replica: where its worker is
          batch,    \* per replica: leased rows still to dispatch, with attempts read
          note,     \* per replica: the stored notification of its Notify
          known,    \* per replica: rows whose schedule its sleep is based on
          task,     \* per replica and permit: the task that owns it
          posts,    \* per event: how often it was posted
          kept,     \* events the gateway has seen or a dead-letter file holds
          faults

rowVars == <<row, attempts, by, enq>>
workVars == <<at, batch, note, known>>
seenVars == <<posts, kept>>
vars == <<rowVars, workVars, task, seenVars, faults>>

Idle == [ev |-> None, n |-> 0, at |-> "idle"]
TaskPoints == {"post", "retry", "delete", "dlq", "postpone", "nudge"}
Rows == [ev : Events, n : 0..(MaxRetries - 1)]
Tasks == [ev : Events, n : 0..(MaxRetries - 1), at : TaskPoints]

(* Shapes; a stored row has failed fewer than max_retries times.           *)
TypeOK ==
    /\ row \in [Events -> {"none", "due", "later"}]
    /\ attempts \in [Events -> 0..(MaxRetries - 1)]
    /\ by \in [Events -> Workers \cup {None}]
    /\ enq \in [Events -> {"no", "done"} \cup Workers]
    /\ at \in [Workers -> {"lease", "dispatch", "measure", "sleep"}]
    /\ batch \in [Workers -> SUBSET Rows]
    /\ note \in [Workers -> BOOLEAN]
    /\ known \in [Workers -> SUBSET Events]
    /\ task \in [Workers -> [Permits -> {Idle} \cup Tasks]]
    /\ posts \in [Events -> Nat]
    /\ kept \in SUBSET Events
    /\ faults \in 0..MaxFaults

Init ==
    /\ row = [e \in Events |-> "none"]
    /\ attempts = [e \in Events |-> 0]
    /\ by = [e \in Events |-> None]
    /\ enq = [e \in Events |-> "no"]
    /\ at = [w \in Workers |-> "lease"]
    /\ batch = [w \in Workers |-> {}]
    /\ note = [w \in Workers |-> FALSE]
    /\ known = [w \in Workers |-> {}]
    /\ task = [w \in Workers |-> [p \in Permits |-> Idle]]
    /\ posts = [e \in Events |-> 0]
    /\ kept = {}
    /\ faults = 0

Fault == faults < MaxFaults /\ faults' = faults + 1
Goto(w, p) == at' = [at EXCEPT ![w] = p]

(* next_retry_at of the events es is set: no sleep is based on the new one.*)
Reschedule(w, es, when) ==
    /\ row' = [e \in Events |-> IF e \in es THEN when ELSE row[e]]
    /\ by' = [e \in Events |-> IF e \in es THEN w ELSE by[e]]
    /\ known' = [v \in Workers |-> known[v] \ es]

----------------------------------------------------------------------------
(* enqueue_typed: the insert (an error is the caller's), ...               *)
Enqueue(e, w) ==
    /\ enq[e] = "no"
    /\ Reschedule(w, {e}, "due")
    /\ enq' = [enq EXCEPT ![e] = w]
    /\ UNCHANGED <<attempts, at, batch, note, task, seenVars, faults>>

(* ... then notify_one.                                                    *)
EnqueueNotify(e) ==
    /\ enq[e] \in Workers
    /\ enq' = [enq EXCEPT ![e] = "done"]
    /\ note' = [note EXCEPT ![enq[e]] = TRUE]
    /\ UNCHANGED <<row, attempts, by, at, batch, known, task, seenVars, faults>>

----------------------------------------------------------------------------
Due == {e \in Events : row[e] = "due"}

(* Up to limit due rows; the oldest first, which this model cannot tell.   *)
Leasable == {S \in SUBSET Due : Cardinality(S) <= Limit /\
                                (S # Due => Cardinality(S) = Limit)}

Claimed(S) == {[ev |-> e, n |-> attempts[e]] : e \in S}

(* Mutant: a leased flag that nothing but its holder takes away.           *)
MutLeaseFlag(w) ==
    /\ at[w] = "lease"
    /\ \E S \in Leasable :
           batch' = [batch EXCEPT ![w] = Claimed(S)] /\ Reschedule(w, S, "leased")
    /\ Goto(w, "dispatch")
    /\ UNCHANGED <<attempts, enq, note, task, seenVars, faults>>

(* lease_due moves next_retry_at five minutes ahead; an error leases none. *)
LeaseDue(w) ==
    /\ at[w] = "lease"
    /\ \/ /\ \E S \in Leasable :
                 batch' = [batch EXCEPT ![w] = Claimed(S)] /\ Reschedule(w, S, "later")
          /\ UNCHANGED faults
       \/ Fault /\ UNCHANGED <<batch, row, by, known>>
    /\ Goto(w, "dispatch")
    /\ UNCHANGED <<attempts, enq, note, task, seenVars>>

(* The worker waits for a permit for each leased row and spawns its task.  *)
Dispatch(w) ==
    /\ at[w] = "dispatch"
    /\ \/ /\ \E b \in batch[w], p \in Permits :
                 /\ task[w][p] = Idle
                 /\ task' = [task EXCEPT ![w][p] = [ev |-> b.ev, n |-> b.n, at |-> "post"]]
                 /\ batch' = [batch EXCEPT ![w] = @ \ {b}]
          /\ UNCHANGED at
       \/ batch[w] = {} /\ Goto(w, "measure") /\ UNCHANGED <<batch, task>>
    /\ UNCHANGED <<rowVars, note, known, seenVars, faults>>

(* earliest_next_retry: straight on when a row is due, else a sleep until  *)
(* the first of the rows it saw; an error sleeps for a second.             *)
Measure(w) ==
    /\ at[w] = "measure"
    /\ \/ Due # {} /\ Goto(w, "lease") /\ UNCHANGED <<known, faults>>
       \/ /\ Due = {}
          /\ Goto(w, "sleep")
          /\ known' = [known EXCEPT ![w] = {e \in Events : row[e] # "none"}]
          /\ UNCHANGED faults
       \/ Fault /\ Goto(w, "sleep") /\ known' = [known EXCEPT ![w] = Events]
    /\ UNCHANGED <<rowVars, batch, note, task, seenVars>>

(* The notification or the end of the sleep, which is at most 30 seconds.  *)
Wake(w) ==
    /\ at[w] = "sleep"
    /\ note' \in {note, [note EXCEPT ![w] = FALSE]}
    /\ Goto(w, "lease")
    /\ UNCHANGED <<rowVars, batch, known, task, seenVars, faults>>

----------------------------------------------------------------------------
Step(w, p, where) == task' = [task EXCEPT ![w][p].at = where]

(* send_once: accepted (2xx), refused for good (other 4xx, or a payload    *)
(* that does not decode and is not sent), or to be retried: 5xx, 429, or a *)
(* transport error, after which the gateway may have it all the same.      *)
Post(w, p) ==
    LET e == task[w][p].ev IN
    /\ task[w][p].at = "post"
    /\ posts' = [posts EXCEPT ![e] = @ + 1]
    /\ \/ kept' = kept \cup {e} /\ Step(w, p, "delete")
       \/ UNCHANGED kept /\ Step(w, p, "dlq")
       \/ kept' \in {kept, kept \cup {e}} /\ Step(w, p, "retry")
    /\ UNCHANGED <<rowVars, workVars, faults>>

(* UPDATE .. WHERE event_id: nothing when the row is gone; or an error.    *)
MarkFailed(w, p, n) ==
    LET e == task[w][p].ev IN
    \/ /\ row[e] # "none"
       /\ Reschedule(w, {e}, "later")
       /\ attempts' = [attempts EXCEPT ![e] = n]
       /\ UNCHANGED faults
    \/ row[e] = "none" /\ UNCHANGED <<row, by, known, attempts, faults>>
    \/ Fault /\ UNCHANGED <<row, by, known, attempts>>

(* RetryLater: to the DLQ when retries are exhausted, else a back-off.     *)
RetryLater(w, p) ==
    LET n == task[w][p].n + 1 IN
    /\ task[w][p].at = "retry"
    /\ IF n >= MaxRetries
       THEN Step(w, p, "dlq") /\ UNCHANGED <<row, by, known, attempts, faults>>
       ELSE Step(w, p, "nudge") /\ MarkFailed(w, p, n)
    /\ UNCHANGED <<enq, at, batch, note, seenVars>>

(* Mutant: the row goes whether or not the append succeeded.               *)
MutAppendDlq(w, p) ==
    /\ task[w][p].at = "dlq"
    /\ \/ kept' = kept \cup {task[w][p].ev} /\ Step(w, p, "delete") /\ UNCHANGED faults
       \/ Fault /\ Step(w, p, "delete") /\ UNCHANGED kept
    /\ UNCHANGED <<rowVars, workVars, posts>>

(* append_dlq; when it fails the row is kept, five minutes on.             *)
AppendDlq(w, p) ==
    /\ task[w][p].at = "dlq"
    /\ \/ kept' = kept \cup {task[w][p].ev} /\ Step(w, p, "delete") /\ UNCHANGED faults
       \/ Fault /\ Step(w, p, "postpone") /\ UNCHANGED kept
    /\ UNCHANGED <<rowVars, workVars, posts>>

Postpone(w, p) ==
    /\ task[w][p].at = "postpone"
    /\ Step(w, p, "nudge")
    /\ MarkFailed(w, p, task[w][p].n)
    /\ UNCHANGED <<enq, at, batch, note, seenVars>>

(* A failed DELETE leaves the row to be leased and posted again.           *)
Delete(w, p) ==
    /\ task[w][p].at = "delete"
    /\ \/ row' = [row EXCEPT ![task[w][p].ev] = "none"] /\ UNCHANGED faults
       \/ Fault /\ UNCHANGED row
    /\ Step(w, p, "nudge")
    /\ UNCHANGED <<attempts, by, enq, workVars, seenVars>>

(* Mutant: the task ends without waking the worker.                        *)
MutNudge(w, p) ==
    /\ task[w][p].at = "nudge"
    /\ task' = [task EXCEPT ![w][p] = Idle]
    /\ UNCHANGED <<rowVars, workVars, seenVars, faults>>

(* notify_one, and the permit is dropped with the task.                    *)
Nudge(w, p) ==
    /\ task[w][p].at = "nudge"
    /\ note' = [note EXCEPT ![w] = TRUE]
    /\ task' = [task EXCEPT ![w][p] = Idle]
    /\ UNCHANGED <<rowVars, at, batch, known, seenVars, faults>>

----------------------------------------------------------------------------
(* Who is to post e: a batch (under None) or a task that is not over.      *)
Senders(e) ==
    {<<w, None>> : w \in {v \in Workers : \E b \in batch[v] : b.ev = e}} \cup
    {s \in Workers \X Permits : LET t == task[s[1]][s[2]] IN t.ev = e /\ t.at # "nudge"}

(* next_retry_at passes; a live holder is done before its lease ends.      *)
TimePasses(e) ==
    /\ row[e] = "later"
    /\ Senders(e) = {}
    /\ row' = [row EXCEPT ![e] = "due"]
    /\ UNCHANGED <<attempts, by, enq, workVars, task, seenVars, faults>>

(* The hub process dies with its worker, tasks and enqueuing handlers, and *)
(* is started again.                                                       *)
Crash(w) ==
    /\ Fault
    /\ Goto(w, "lease")
    /\ batch' = [batch EXCEPT ![w] = {}]
    /\ note' = [note EXCEPT ![w] = FALSE]
    /\ known' = [known EXCEPT ![w] = {}]
    /\ task' = [task EXCEPT ![w] = [p \in Permits |-> Idle]]
    /\ enq' = [e \in Events |-> IF enq[e] = w THEN "done" ELSE enq[e]]
    /\ UNCHANGED <<row, attempts, by, seenVars>>

----------------------------------------------------------------------------
Worker(w) == LeaseDue(w) \/ Dispatch(w) \/ Measure(w) \/ Wake(w)

Task(w, p) ==
    \/ Post(w, p) \/ RetryLater(w, p) \/ AppendDlq(w, p) \/ Postpone(w, p)
    \/ Delete(w, p) \/ Nudge(w, p)

Next ==
    \/ \E e \in Events, w \in Workers : Enqueue(e, w)
    \/ \E e \in Events : EnqueueNotify(e) \/ TimePasses(e)
    \/ \E w \in Workers : Worker(w) \/ Crash(w)
    \/ \E w \in Workers, p \in Permits : Task(w, p)

Spec == Init /\ [][Next]_vars

(* Workers and tasks run, clocks advance; nothing forces an event, a fault *)
(* or a particular answer of the gateway.                                  *)
FairSpec ==
    /\ Spec
    /\ \A e \in Events : WF_vars(EnqueueNotify(e)) /\ WF_vars(TimePasses(e))
    /\ \A w \in Workers : WF_vars(Worker(w))
    /\ \A w \in Workers, p \in Permits : WF_vars(Task(w, p))

----------------------------------------------------------------------------
(* An accepted event is in the table until the gateway has seen it or it   *)
(* is in a dead-letter file, whatever crashes and whichever call fails.    *)
NothingLost == \A e \in Events : enq[e] # "no" => row[e] # "none" \/ e \in kept

(* No two live tasks or batches of any replicas are about to post the same *)
(* event: "two workers (or the same worker woken twice) don't              *)
(* double-deliver".                                                        *)
InFlightOnce == \A e \in Events : \A s, t \in Senders(e) : s = t

(* An event is posted at most max_retries times, and once more for each    *)
(* crash or failed call that made the queue forget an attempt.             *)
PostsBounded == \A e \in Events : posts[e] <= MaxRetries + faults

(* No lost wake-up: a worker sleeps without a stored notification only on  *)
(* a schedule that includes every row its replica enqueued or rescheduled, *)
(* but for those whose notify_one is about to come.                        *)
PromptWake ==
    \A w \in Workers, e \in Events :
        at[w] = "sleep" /\ ~note[w] /\ row[e] # "none" /\ by[e] = w /\ e \notin known[w] =>
            enq[e] = w \/ \E p \in Permits : task[w][p].ev = e /\ task[w][p].at = "nudge"

(* Every accepted event leaves the queue in the end.                       *)
Settles == (\E e \in Events : row[e] # "none") ~> (\A e \in Events : row[e] = "none")
=============================================================================

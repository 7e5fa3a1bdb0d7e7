--------------------------- MODULE WebhookProofs ----------------------------
(***************************************************************************)
(* The webhook queue for any number of events, replicas, permits, retries  *)
(* and faults: nothing is lost, no event is in two hands, retries are      *)
(* bounded and no wake-up is lost.  A sending task comes first, then the   *)
(* enqueuing handlers, the workers, a crash and time, then a task's last   *)
(* steps and the theorems.                                                 *)
(***************************************************************************)
EXTENDS WebhookQueue, TLAPS

(* A task is one that still has e to post or to settle.                    *)
Busy(w, p) == task[w][p].ev # None /\ task[w][p].at # "nudge"

(* A row in somebody's hands is hidden from lease_due, and the attempts    *)
(* they read are the row's; an event not enqueued is in nobody's hands.    *)
HandsHidden ==
    /\ \A w \in Workers : \A b \in batch[w] :
           enq[b.ev] # "no" /\ row[b.ev] = "later" /\ attempts[b.ev] = b.n
    /\ \A w \in Workers, p \in Permits : Busy(w, p) =>
           /\ enq[task[w][p].ev] # "no"
           /\ row[task[w][p].ev] = "later"
           /\ attempts[task[w][p].ev] = task[w][p].n
    /\ \A e \in Events : enq[e] = "no" => row[e] = "none" /\ posts[e] = 0

(* InFlightOnce, pair by pair.                                             *)
OneHand ==
    /\ \A v, w \in Workers : \A a \in batch[v], b \in batch[w] :
           a.ev = b.ev => v = w /\ a = b
    /\ \A v, w \in Workers, p \in Permits : \A a \in batch[v] : Busy(w, p) => a.ev # task[w][p].ev
    /\ \A v, w \in Workers, p, q \in Permits :
           Busy(v, p) /\ Busy(w, q) /\ task[v][p].ev = task[w][q].ev => v = w /\ p = q

(* What a task about to delete has made sure of.                           *)
DeletesKept == \A w \in Workers, p \in Permits : task[w][p].at = "delete" => task[w][p].ev \in kept

(* Posts are counted by attempts and faults; a task that has posted is one *)
(* ahead of the row it read, and one whose DLQ append failed has paid.     *)
Posted(e) ==
    \E w \in Workers, p \in Permits : task[w][p].ev = e /\ task[w][p].at \in {"retry", "delete", "dlq"}

PostsCounted ==
    \A e \in Events :
        /\ posts[e] <= MaxRetries + faults
        /\ row[e] # "none" => posts[e] <= attempts[e] + 1 + faults
        /\ row[e] # "none" /\ ~Posted(e) => posts[e] <= attempts[e] + faults

QueueInv == TypeOK /\ HandsHidden /\ OneHand /\ DeletesKept /\ PostsCounted /\ NothingLost

----------------------------------------------------------------------------
(* No row, no batch, every permit idle.                                    *)
LEMMA QueueInit == Init => QueueInv
  BY WebhookAssumption DEF Init, QueueInv, TypeOK, HandsHidden, OneHand, DeletesKept, PostsCounted, NothingLost,
         Busy, Idle, TaskPoints

(* A permit's task: idle, or a record of the right shape.                  *)
LEMMA TaskShape ==
    ASSUME TypeOK, NEW w \in Workers, NEW p \in Permits
    PROVE  \/ task[w][p] = Idle /\ ~Busy(w, p) /\ task[w][p].at = "idle"
           \/ /\ task[w][p].ev \in Events /\ task[w][p].n \in 0..(MaxRetries - 1)
              /\ task[w][p].at \in TaskPoints /\ task[w][p].ev # None
  BY WebhookAssumption DEF TypeOK, Tasks, Idle, Busy

(* A leased batch holds events whose attempts are below max_retries.       *)
LEMMA BatchShape ==
    ASSUME TypeOK
    PROVE  \A w \in Workers : \A b \in batch[w] : b.ev \in Events /\ b.n \in 0..(MaxRetries - 1)
  BY DEF TypeOK, Rows

(* Moving a task on keeps its event, its count and every other task.       *)
LEMMA Moved ==
    ASSUME TypeOK, NEW w \in Workers, NEW p \in Permits, NEW x \in TaskPoints,
           task[w][p].at \in TaskPoints, Step(w, p, x)
    PROVE  /\ task' \in [Workers -> [Permits -> {Idle} \cup Tasks]]
           /\ task[w][p].ev \in Events /\ task[w][p].n \in 0..(MaxRetries - 1)
           /\ task'[w][p].ev = task[w][p].ev
           /\ task'[w][p].n = task[w][p].n
           /\ task'[w][p].at = x
           /\ \A v \in Workers, q \in Permits : v # w \/ q # p => task'[v][q] = task[v][q]
  <1>1. task[w][p] \in Tasks
    BY DEF TypeOK, Idle, TaskPoints, Tasks
  <1>2. [task[w][p] EXCEPT !.at = x] \in Tasks
    BY <1>1, Zenon DEF Tasks
  <1>3. task' = [task EXCEPT ![w] = [task[w] EXCEPT ![p] = [task[w][p] EXCEPT !.at = x]]]
    BY Zenon DEF Step
  <1>4. task[w] \in [Permits -> {Idle} \cup Tasks] /\ task \in [Workers -> [Permits -> {Idle} \cup Tasks]]
    BY Zenon DEF TypeOK
  <1>5. [task[w] EXCEPT ![p] = [task[w][p] EXCEPT !.at = x]] \in [Permits -> {Idle} \cup Tasks]
    BY <1>2, <1>4, Zenon
  <1>6. task'[w][p] = [task[w][p] EXCEPT !.at = x]
    BY <1>3, <1>4, Zenon
  <1>7. task'[w][p].ev = task[w][p].ev /\ task'[w][p].n = task[w][p].n /\ task'[w][p].at = x
    BY <1>1, <1>6, Zenon DEF Tasks
  <1> QED
    BY <1>1, <1>3, <1>4, <1>5, <1>7, TaskShape, Zenon DEF TaskPoints, Idle

(* After a task is moved on from one busy point to another the same hands  *)
(* hold the same events; after it is moved to "nudge", all hands but its.  *)
LEMMA HandsAfter ==
    ASSUME TypeOK, NEW w \in Workers, NEW p \in Permits, NEW x \in TaskPoints,
           task[w][p].at \in TaskPoints \ {"nudge"}, Step(w, p, x)
    PROVE  /\ Busy(w, p)
           /\ \A v \in Workers, q \in Permits :
                 /\ task'[v][q].ev = task[v][q].ev /\ task'[v][q].n = task[v][q].n
                 /\ Busy(v, q)' <=> Busy(v, q) /\ (v # w \/ q # p \/ x # "nudge")
  BY WebhookAssumption, Moved, TaskShape DEF Busy

(* Hands that hold what they held keep the rows as they are.               *)
LEMMA SameHands ==
    ASSUME HandsHidden, OneHand, row' = row, attempts' = attempts, enq' = enq, posts' = posts, batch' = batch,
           \A v \in Workers, q \in Permits :
               /\ Busy(v, q)' <=> Busy(v, q)
               /\ Busy(v, q) => task'[v][q].ev = task[v][q].ev /\ task'[v][q].n = task[v][q].n
    PROVE  HandsHidden' /\ OneHand'
  <1>1. HandsHidden'
    <2>1. \A v \in Workers : \A b \in batch'[v] :
              enq'[b.ev] # "no" /\ row'[b.ev] = "later" /\ attempts'[b.ev] = b.n
      BY Zenon DEF HandsHidden
    <2>2. ASSUME NEW v \in Workers, NEW q \in Permits, Busy(v, q)'
          PROVE  /\ enq'[task'[v][q].ev] # "no" /\ row'[task'[v][q].ev] = "later"
                 /\ attempts'[task'[v][q].ev] = task'[v][q].n
      BY <2>2 DEF HandsHidden
    <2> QED
      BY <2>1, <2>2, ZenonT(60) DEF HandsHidden
  <1>2. OneHand'
    <2>1. \A u, v \in Workers : \A a \in batch'[u], b \in batch'[v] : a.ev = b.ev => u = v /\ a = b
      BY DEF OneHand
    <2>2. ASSUME NEW u \in Workers, NEW v \in Workers, NEW q \in Permits, NEW a \in batch'[u], Busy(v, q)'
          PROVE  a.ev # task'[v][q].ev
      BY <2>2 DEF OneHand
    <2>3. ASSUME NEW u \in Workers, NEW v \in Workers, NEW q \in Permits, NEW r \in Permits,
                 Busy(u, q)', Busy(v, r)', task'[u][q].ev = task'[v][r].ev
          PROVE  u = v /\ q = r
      BY <2>3 DEF OneHand
    <2> QED
      BY <2>1, <2>2, <2>3 DEF OneHand
  <1> QED
    BY <1>1, <1>2, Zenon

(* Nor do hands that let go of something, rows and tries being untouched.  *)
LEMMA FewerHands ==
    ASSUME TypeOK, HandsHidden, OneHand, row' = row, attempts' = attempts, posts' = posts,
           \A f \in Events : enq'[f] = "no" <=> enq[f] = "no",
           \A v \in Workers : batch'[v] \subseteq batch[v],
           \A v \in Workers, q \in Permits : Busy(v, q)' => Busy(v, q) /\ task'[v][q] = task[v][q]
    PROVE  HandsHidden' /\ OneHand'
  <1>1. HandsHidden'
    <2>1. ASSUME NEW v \in Workers, NEW b \in batch'[v]
          PROVE  enq'[b.ev] # "no" /\ row'[b.ev] = "later" /\ attempts'[b.ev] = b.n
      <3>1. b \in batch[v] /\ b.ev \in Events
        BY <2>1, BatchShape, Zenon
      <3> QED BY <3>1, Zenon DEF HandsHidden
    <2>2. ASSUME NEW v \in Workers, NEW q \in Permits, Busy(v, q)'
          PROVE  /\ enq'[task'[v][q].ev] # "no" /\ row'[task'[v][q].ev] = "later"
                 /\ attempts'[task'[v][q].ev] = task'[v][q].n
      <3>1. Busy(v, q) /\ task'[v][q] = task[v][q]
        BY <2>2, Zenon
      <3>2. task[v][q].ev \in Events
        BY <3>1, TaskShape, Zenon
      <3>3. enq[task[v][q].ev] # "no" /\ row[task[v][q].ev] = "later" /\ attempts[task[v][q].ev] = task[v][q].n
        BY <3>1, Zenon DEF HandsHidden
      <3> QED BY <3>1, <3>2, <3>3, Zenon
    <2>3. \A f \in Events : enq'[f] = "no" => row'[f] = "none" /\ posts'[f] = 0
      BY Zenon DEF HandsHidden
    <2> QED
      BY <2>1, <2>2, <2>3, ZenonT(60) DEF HandsHidden
  <1>2. OneHand'
    <2>1. \A u, v \in Workers : \A a \in batch'[u], b \in batch'[v] : a.ev = b.ev => u = v /\ a = b
      BY SMT DEF OneHand
    <2>2. ASSUME NEW u \in Workers, NEW v \in Workers, NEW q \in Permits, NEW a \in batch'[u], Busy(v, q)'
          PROVE  a.ev # task'[v][q].ev
      BY <2>2, SMT DEF OneHand
    <2>3. ASSUME NEW u \in Workers, NEW v \in Workers, NEW q \in Permits, NEW r \in Permits,
                 Busy(u, q)', Busy(v, r)', task'[u][q].ev = task'[v][r].ev
          PROVE  u = v /\ q = r
      BY <2>3, SMT DEF OneHand
    <2> QED
      BY <2>1, <2>2, <2>3, SMTT(40) DEF OneHand
  <1> QED
    BY <1>1, <1>2, Zenon

(* A task posts its event and learns what came of it.                      *)
LEMMA PostStep ==
    ASSUME QueueInv, NEW w \in Workers, NEW p \in Permits, Post(w, p)
    PROVE  QueueInv'
  <1>e. PICK e : e = task[w][p].ev
    BY Zenon
  <1>1. PICK x \in {"delete", "dlq", "retry"} : Step(w, p, x) /\ (x = "delete" => e \in kept')
    BY <1>e, Zenon DEF Post
  <1>2. /\ TypeOK /\ task[w][p].at = "post" /\ e \in Events
        /\ posts' = [posts EXCEPT ![e] = @ + 1] /\ kept \subseteq kept' /\ kept' \subseteq Events
        /\ UNCHANGED <<row, attempts, by, enq, at, batch, note, known, faults>>
    BY <1>e, TaskShape, ZenonT(60) DEF QueueInv, Post, rowVars, workVars, TypeOK, Idle
  <1>3. /\ task' \in [Workers -> [Permits -> {Idle} \cup Tasks]]
        /\ task'[w][p].at = x
        /\ \A v \in Workers, q \in Permits : v # w \/ q # p => task'[v][q] = task[v][q]
    BY <1>1, <1>2, Moved DEF TaskPoints
  <1>4. /\ Busy(w, p) /\ e = task[w][p].ev
        /\ \A v \in Workers, q \in Permits :
              /\ task'[v][q].ev = task[v][q].ev /\ task'[v][q].n = task[v][q].n
              /\ Busy(v, q)' <=> Busy(v, q)
    BY <1>e, <1>1, <1>2, HandsAfter DEF TaskPoints
  <1>5. TypeOK'
    BY <1>2, <1>3 DEF TypeOK
  <1>6. HandsHidden'
    <2>1. \A f \in Events : f # e => posts'[f] = posts[f]
      BY <1>2, Zenon DEF TypeOK
    <2>2. enq[e] # "no"
      BY <1>4, Zenon DEF QueueInv, HandsHidden
    <2> QED
      BY <1>2, <1>4, <2>1, <2>2 DEF QueueInv, HandsHidden
  <1>7. OneHand'
    BY <1>2, <1>4 DEF QueueInv, OneHand
  <1>8. DeletesKept'
    BY <1>1, <1>2, <1>3, <1>4 DEF QueueInv, DeletesKept
  <1>9. PostsCounted'
    <2>1. ~Posted(e)
      <3> SUFFICES ASSUME NEW v \in Workers, NEW q \in Permits, task[v][q].ev = e,
                          task[v][q].at \in {"retry", "delete", "dlq"}
                   PROVE  FALSE
        BY Zenon DEF Posted
      <3>1. Busy(v, q)
        BY WebhookAssumption, <1>2, Zenon DEF Busy
      <3> QED
        BY <1>2, <1>4, <3>1 DEF QueueInv, OneHand
    <2>2. posts[e] <= attempts[e] + faults
      BY <1>2, <1>4, <2>1, Zenon DEF QueueInv, PostsCounted, HandsHidden
    <2>3. \A f \in Events : attempts[f] + 1 <= MaxRetries /\ attempts[f] \in Nat /\ posts[f] \in Nat
      BY WebhookAssumption, <1>2 DEF TypeOK
    <2>4. posts'[e] <= attempts'[e] + 1 + faults' /\ posts'[e] <= MaxRetries + faults'
      BY WebhookAssumption, <1>2, <2>2, <2>3 DEF TypeOK
    <2>5. Posted(e)'
      BY <1>3, <1>4, Zenon DEF Posted
    <2>6. ASSUME NEW f \in Events, f # e PROVE Posted(f)' <=> Posted(f)
      BY <1>3, <1>4, <2>6, SMTT(40) DEF Posted
    <2>7. ASSUME NEW f \in Events, f # e PROVE posts'[f] = posts[f]
      BY <1>2, <2>7, Zenon DEF TypeOK
    <2> QED
      BY <1>2, <2>4, <2>5, <2>6, <2>7, Zenon DEF QueueInv, PostsCounted
  <1>10. NothingLost'
    BY <1>2, Zenon DEF QueueInv, NothingLost
  <1> QED
    BY <1>5, <1>6, <1>7, <1>8, <1>9, <1>10, Zenon DEF QueueInv

(* A task lets go of its event e: only e's row changes, e is kept if its   *)
(* row is gone, and its posts are paid for if it is not.                   *)
LEMMA LetGo ==
    ASSUME QueueInv, NEW w \in Workers, NEW p \in Permits, NEW e, e = task[w][p].ev,
           task[w][p].at \in TaskPoints \ {"nudge"}, Step(w, p, "nudge"),
           row' \in [Events -> {"none", "due", "later"}],
           attempts' \in [Events -> 0..(MaxRetries - 1)],
           by' \in [Events -> Workers \cup {None}],
           known' \in [Workers -> SUBSET Events],
           faults' \in 0..MaxFaults, faults' >= faults,
           \A f \in Events : f # e => row'[f] = row[f] /\ attempts'[f] = attempts[f],
           row'[e] = "none" => e \in kept,
           row'[e] # "none" => posts[e] <= attempts'[e] + faults',
           UNCHANGED <<enq, at, batch, note, posts, kept>>
    PROVE  QueueInv'
  <1>1. TypeOK /\ TypeOK'
    BY Moved, Zenon DEF QueueInv, TypeOK, TaskPoints
  <1>2. /\ Busy(w, p) /\ e \in Events
        /\ \A v \in Workers, q \in Permits :
              /\ task'[v][q].ev = task[v][q].ev /\ task'[v][q].n = task[v][q].n
              /\ Busy(v, q)' <=> Busy(v, q) /\ (v # w \/ q # p)
    BY <1>1, HandsAfter, Moved, SMTT(40) DEF TaskPoints
  <1>3. /\ \A v \in Workers : \A b \in batch[v] : b.ev \in Events /\ b.ev # e
        /\ \A v \in Workers, q \in Permits : Busy(v, q)' => task[v][q].ev \in Events /\ task[v][q].ev # e
        /\ enq[e] # "no"
    BY <1>1, <1>2, TaskShape, BatchShape DEF QueueInv, OneHand, HandsHidden, Busy
  <1>4. HandsHidden'
    BY <1>2, <1>3 DEF QueueInv, HandsHidden
  <1>5. OneHand'
    BY <1>2, SMTT(40) DEF QueueInv, OneHand
  <1>6. /\ task'[w][p].at = "nudge"
        /\ \A v \in Workers, q \in Permits : v # w \/ q # p => task'[v][q] = task[v][q]
    BY <1>1, Moved, ZenonT(60) DEF TaskPoints
  <1>7. DeletesKept'
    BY <1>6 DEF QueueInv, DeletesKept
  <1>8. PostsCounted'
    <2>1. ASSUME NEW f \in Events, f # e PROVE Posted(f)' <=> Posted(f)
      BY <1>6, <1>2, <2>1 DEF Posted
    <2>2. \A f \in Events : posts[f] \in Nat /\ attempts[f] \in Nat /\ attempts'[f] \in Nat
      BY <1>1 DEF TypeOK
    <2>3. faults \in Nat /\ faults' \in Nat
      BY <1>1 DEF TypeOK
    <2> QED
      BY WebhookAssumption, <1>2, <2>1, <2>2, <2>3 DEF QueueInv, PostsCounted
  <1>9. NothingLost'
    BY <1>2, Zenon DEF QueueInv, NothingLost
  <1> QED
    BY <1>1, <1>4, <1>5, <1>7, <1>8, <1>9, Zenon DEF QueueInv

(* A task past its post owns the count of its event.                       *)
LEMMA PostsOf ==
    ASSUME QueueInv, NEW w \in Workers, NEW p \in Permits, Busy(w, p)
    PROVE  LET e == task[w][p].ev IN
           /\ e \in Events /\ row[e] = "later" /\ attempts[e] = task[w][p].n
           /\ posts[e] \in Nat /\ attempts[e] \in Nat /\ faults \in Nat
           /\ posts[e] <= attempts[e] + 1 + faults
           /\ task[w][p].at \notin {"retry", "delete", "dlq"} => posts[e] <= attempts[e] + faults
  <1> DEFINE e == task[w][p].ev
  <1>1. /\ e \in Events /\ row[e] = "later" /\ attempts[e] = task[w][p].n
        /\ posts[e] \in Nat /\ attempts[e] \in Nat /\ faults \in Nat
    BY TaskShape DEF QueueInv, HandsHidden, TypeOK
  <1>2. posts[e] <= attempts[e] + 1 + faults
    BY <1>1, Zenon DEF QueueInv, PostsCounted
  <1>3. ASSUME task[w][p].at \notin {"retry", "delete", "dlq"} PROVE ~Posted(e)
    <2> SUFFICES ASSUME NEW v \in Workers, NEW q \in Permits, task[v][q].ev = e,
                        task[v][q].at \in {"retry", "delete", "dlq"}
                 PROVE  FALSE
      BY Zenon DEF Posted
    <2>1. Busy(v, q)
      BY <1>1, Zenon DEF Busy
    <2> QED
      BY <1>3, <2>1, Zenon DEF QueueInv, OneHand
  <1> QED
    BY <1>1, <1>2, <1>3, Zenon DEF QueueInv, PostsCounted

(* What MarkFailed leaves behind, with n what the row's attempts become.   *)
LEMMA Marked ==
    ASSUME QueueInv, NEW w \in Workers, NEW p \in Permits, Busy(w, p),
           NEW n \in 0..(MaxRetries - 1), MarkFailed(w, p, n), NEW e, e = task[w][p].ev
    PROVE  /\ row' \in [Events -> {"none", "due", "later"}]
           /\ attempts' \in [Events -> 0..(MaxRetries - 1)]
           /\ by' \in [Events -> Workers \cup {None}]
           /\ known' \in [Workers -> SUBSET Events]
           /\ faults' \in 0..MaxFaults /\ faults' >= faults
           /\ \A f \in Events : f # e => row'[f] = row[f] /\ attempts'[f] = attempts[f]
           /\ row'[e] # "none"
           /\ \/ attempts'[e] = n /\ faults' = faults
              \/ attempts'[e] = attempts[e] /\ faults' = faults + 1
  <1>1. e \in Events /\ row[e] = "later" /\ TypeOK
    BY PostsOf, Zenon DEF QueueInv
  <1>2. CASE Fault /\ UNCHANGED <<row, by, known, attempts>>
    BY WebhookAssumption, <1>1, <1>2 DEF Fault, TypeOK
  <1>3. CASE /\ Reschedule(w, {e}, "later")
             /\ attempts' = [attempts EXCEPT ![e] = n]
             /\ UNCHANGED faults
    <2>1. row' \in [Events -> {"none", "due", "later"}] /\ row'[e] = "later"
      BY <1>1, <1>3, Zenon DEF Reschedule, TypeOK
    <2>2. by' \in [Events -> Workers \cup {None}] /\ known' \in [Workers -> SUBSET Events]
      BY <1>1, <1>3, Zenon DEF Reschedule, TypeOK
    <2>3. attempts' \in [Events -> 0..(MaxRetries - 1)] /\ attempts'[e] = n
      BY <1>1, <1>3, Zenon DEF TypeOK
    <2>4. faults' \in 0..MaxFaults /\ faults' = faults
      BY <1>1, <1>3, Zenon DEF TypeOK
    <2>5. \A f \in Events : f # e => row'[f] = row[f] /\ attempts'[f] = attempts[f]
      BY <1>1, <1>3, Zenon DEF Reschedule, TypeOK
    <2> QED
      BY <2>1, <2>2, <2>3, <2>4, <2>5
  <1> QED
    BY <1>1, <1>2, <1>3, Zenon DEF MarkFailed

(* A failed attempt is stored with the time of the next.                   *)
LEMMA RetryLaterStep ==
    ASSUME QueueInv, NEW w \in Workers, NEW p \in Permits, RetryLater(w, p)
    PROVE  QueueInv'
  <1>e. PICK e : e = task[w][p].ev
    BY Zenon
  <1>n. PICK n : n = task[w][p].n + 1
    BY Zenon
  <1>1. /\ TypeOK /\ task[w][p].at = "retry" /\ Busy(w, p) /\ n \in 1..MaxRetries
        /\ UNCHANGED <<enq, at, batch, note, posts, kept>>
    BY WebhookAssumption, <1>n, TaskShape, SMTT(40) DEF QueueInv, RetryLater, seenVars, Busy
  <1>2. /\ e \in Events /\ row[e] = "later" /\ attempts[e] = n - 1
        /\ posts[e] \in Nat /\ faults \in Nat /\ posts[e] <= n + faults
    BY <1>e, <1>n, <1>1, PostsOf
  <1>3. CASE n >= MaxRetries
    <2>1. Step(w, p, "dlq") /\ UNCHANGED <<row, by, known, attempts, faults>>
      BY <1>3, <1>n, Zenon DEF RetryLater
    <2>2. /\ task' \in [Workers -> [Permits -> {Idle} \cup Tasks]]
          /\ task'[w][p].at = "dlq"
          /\ \A v \in Workers, q \in Permits : v # w \/ q # p => task'[v][q] = task[v][q]
      BY <2>1, <1>1, Moved, Zenon DEF TaskPoints
    <2>3. \A v \in Workers, q \in Permits :
              /\ task'[v][q].ev = task[v][q].ev /\ task'[v][q].n = task[v][q].n
              /\ Busy(v, q)' <=> Busy(v, q)
      BY <2>1, <1>1, HandsAfter DEF TaskPoints
    <2>4. TypeOK'
      BY <1>1, <2>1, <2>2, Zenon DEF TypeOK
    <2>5. HandsHidden' /\ OneHand' /\ NothingLost'
      <3>1. UNCHANGED <<row, attempts, enq, posts, batch, kept>>
        BY <1>1, <2>1, Zenon
      <3>2. HandsHidden' /\ OneHand'
        BY <3>1, <2>3, SameHands, Zenon DEF QueueInv
      <3> QED BY <3>1, <3>2, Zenon DEF QueueInv, NothingLost
    <2>6. DeletesKept'
      BY <1>1, <2>1, <2>2, ZenonT(60) DEF QueueInv, DeletesKept
    <2>7. \A f \in Events : Posted(f)' <=> Posted(f)
      BY WebhookAssumption, <1>1, <2>2, <2>3, SMTT(30) DEF Posted
    <2>8. PostsCounted'
      BY <1>1, <2>1, <2>7, Zenon DEF QueueInv, PostsCounted
    <2> QED
      BY <2>4, <2>5, <2>6, <2>8, Zenon DEF QueueInv
  <1>4. CASE ~(n >= MaxRetries)
    <2>1. Step(w, p, "nudge") /\ MarkFailed(w, p, n) /\ n \in 0..(MaxRetries - 1)
      BY WebhookAssumption, <1>4, <1>n, <1>1 DEF RetryLater
    <2>2. /\ row' \in [Events -> {"none", "due", "later"}]
          /\ attempts' \in [Events -> 0..(MaxRetries - 1)]
          /\ by' \in [Events -> Workers \cup {None}]
          /\ known' \in [Workers -> SUBSET Events]
          /\ faults' \in 0..MaxFaults /\ faults' >= faults
          /\ \A f \in Events : f # e => row'[f] = row[f] /\ attempts'[f] = attempts[f]
          /\ row'[e] # "none"
          /\ \/ attempts'[e] = n /\ faults' = faults
             \/ attempts'[e] = attempts[e] /\ faults' = faults + 1
      BY <2>1, <1>1, <1>e, Marked
    <2>3. posts[e] <= attempts'[e] + faults'
      BY <2>2, <1>1, <1>2
    <2>4. /\ task[w][p].at \in TaskPoints \ {"nudge"} /\ Step(w, p, "nudge")
          /\ UNCHANGED <<enq, at, batch, note, posts, kept>>
      BY <1>1, <2>1, Zenon DEF TaskPoints
    <2> QED
      BY <1>e, <2>2, <2>3, <2>4, LetGo, ZenonT(60)
  <1> QED
    BY <1>3, <1>4, Zenon

(* A row whose dead-letter append failed stays, to be tried again later.   *)
LEMMA PostponeStep ==
    ASSUME QueueInv, NEW w \in Workers, NEW p \in Permits, Postpone(w, p)
    PROVE  QueueInv'
  <1>e. PICK e : e = task[w][p].ev
    BY Zenon
  <1>n. PICK n : n = task[w][p].n
    BY Zenon
  <1>1. /\ TypeOK /\ task[w][p].at = "postpone" /\ Busy(w, p) /\ n \in 0..(MaxRetries - 1)
        /\ UNCHANGED <<enq, at, batch, note, posts, kept>>
        /\ Step(w, p, "nudge") /\ MarkFailed(w, p, n)
    BY <1>n, TaskShape, Zenon DEF QueueInv, Postpone, seenVars, Busy
  <1>2. /\ e \in Events /\ row[e] = "later" /\ attempts[e] = n
        /\ posts[e] \in Nat /\ faults \in Nat /\ posts[e] <= n + faults
    BY <1>e, <1>n, <1>1, PostsOf, Zenon
  <1>3. /\ row' \in [Events -> {"none", "due", "later"}]
        /\ attempts' \in [Events -> 0..(MaxRetries - 1)]
        /\ by' \in [Events -> Workers \cup {None}]
        /\ known' \in [Workers -> SUBSET Events]
        /\ faults' \in 0..MaxFaults /\ faults' >= faults
        /\ \A f \in Events : f # e => row'[f] = row[f] /\ attempts'[f] = attempts[f]
        /\ row'[e] # "none"
        /\ \/ attempts'[e] = n /\ faults' = faults
           \/ attempts'[e] = attempts[e] /\ faults' = faults + 1
    BY <1>1, <1>e, Marked
  <1>4. posts[e] <= attempts'[e] + faults'
    BY <1>2, <1>3
  <1> QED
    BY <1>e, <1>1, <1>3, <1>4, LetGo, ZenonT(60) DEF TaskPoints

----------------------------------------------------------------------------

(* While the hands hold what they held, only rows in no hands change.      *)
LEMMA RowsMove ==
    ASSUME QueueInv, TypeOK', UNCHANGED <<attempts, batch, task, posts, kept, faults>>,
           \A e \in Events : enq[e] # "no" => enq'[e] # "no",
           \A e \in Events : enq'[e] = "no" => row'[e] = row[e],
           \A e \in Events : enq[e] # "no" => (row'[e] = "none" <=> row[e] = "none"),
           \A w \in Workers : \A b \in batch[w] : row'[b.ev] = row[b.ev],
           \A w \in Workers, p \in Permits :
               Busy(w, p) => row'[task[w][p].ev] = row[task[w][p].ev],
           \A e \in Events : enq[e] = "no" /\ enq'[e] # "no" => row'[e] # "none"
    PROVE  QueueInv'
  <1>1. TypeOK /\ \A w \in Workers : \A b \in batch[w] : b.ev \in Events
    BY BatchShape, Zenon DEF QueueInv
  <1>2. \A w \in Workers, p \in Permits :
            (Busy(w, p)' <=> Busy(w, p)) /\ (Busy(w, p) => task[w][p].ev \in Events)
    BY <1>1, TaskShape, Zenon DEF Busy
  <1>3. HandsHidden'
    BY <1>1, <1>2 DEF QueueInv, HandsHidden
  <1>4. OneHand' /\ DeletesKept'
    BY <1>2 DEF QueueInv, OneHand, DeletesKept
  <1>5. NothingLost'
    BY Zenon DEF QueueInv, NothingLost
  <1>6. PostsCounted'
    <2>1. \A e \in Events : Posted(e)' <=> Posted(e)
      BY Zenon DEF Posted
    <2>2. \A e \in Events : enq[e] = "no" => posts[e] = 0
      BY Zenon DEF QueueInv, HandsHidden
    <2>3. \A e \in Events : attempts[e] \in Nat
      BY <1>1 DEF TypeOK
    <2>4. faults \in Nat
      BY <1>1 DEF TypeOK
    <2> QED
      BY <2>1, <2>2, <2>3, <2>4 DEF QueueInv, PostsCounted
  <1> QED
    BY <1>3, <1>4, <1>5, <1>6, Zenon DEF QueueInv

(* enqueue writes a row that nobody has in hand.                           *)
LEMMA EnqueueStep ==
    ASSUME QueueInv, NEW e \in Events, NEW w \in Workers, Enqueue(e, w)
    PROVE  QueueInv'
  <1>1. /\ TypeOK /\ enq[e] = "no" /\ enq' = [enq EXCEPT ![e] = w] /\ w # "no"
        /\ row' \in [Events -> {"none", "due", "later"}] /\ row'[e] = "due"
        /\ \A f \in Events : f # e => row'[f] = row[f]
        /\ by' \in [Events -> Workers \cup {None}] /\ known' \in [Workers -> SUBSET Events]
        /\ UNCHANGED <<attempts, at, batch, note, task, posts, kept, faults>>
    BY WebhookAssumption, Zenon DEF QueueInv, Enqueue, Reschedule, TypeOK, seenVars
  <1>2. TypeOK'
    BY <1>1, Zenon DEF TypeOK
  <1>3. /\ \A v \in Workers : \A b \in batch[v] : b.ev \in Events /\ b.ev # e
        /\ \A v \in Workers, p \in Permits : Busy(v, p) => task[v][p].ev \in Events /\ task[v][p].ev # e
    BY <1>1, TaskShape, BatchShape, Zenon DEF QueueInv, HandsHidden, Busy
  <1>4. \A f \in Events : f # e => enq'[f] = enq[f]
    BY <1>1, Zenon DEF TypeOK
  <1>5. enq'[e] = w
    BY <1>1, Zenon DEF TypeOK
  <1> QED
    BY <1>1, <1>2, <1>3, <1>4, <1>5, RowsMove, ZenonT(60)

(* The wake-up after enqueue changes no row.                               *)
LEMMA EnqueueNotifyStep ==
    ASSUME QueueInv, NEW e \in Events, EnqueueNotify(e)
    PROVE  QueueInv'
  <1>1. /\ TypeOK /\ enq[e] # "no" /\ enq' = [enq EXCEPT ![e] = "done"]
        /\ UNCHANGED <<row, attempts, by, at, batch, known, task, posts, kept, faults>>
    BY WebhookAssumption, Zenon DEF QueueInv, EnqueueNotify, seenVars
  <1>2. TypeOK'
    BY <1>1, ZenonT(60) DEF EnqueueNotify, TypeOK
  <1>3. \A f \in Events : enq'[f] = IF f = e THEN "done" ELSE enq[f]
    BY <1>1, Zenon DEF TypeOK
  <1> QED
    BY <1>1, <1>2, <1>3, RowsMove

(* A hidden row becomes due only when no task has it in hand.              *)
LEMMA TimePassesStep ==
    ASSUME QueueInv, NEW e \in Events, TimePasses(e)
    PROVE  QueueInv'
  <1>1. /\ TypeOK /\ row[e] = "later" /\ row' = [row EXCEPT ![e] = "due"] /\ Senders(e) = {}
        /\ UNCHANGED <<attempts, by, enq, at, batch, note, known, task, posts, kept, faults>>
    BY Zenon DEF QueueInv, TimePasses, workVars, seenVars
  <1>2. TypeOK'
    BY <1>1, Zenon DEF TypeOK
  <1>3. \A w \in Workers : \A b \in batch[w] : b.ev # e
    <2> SUFFICES ASSUME NEW w \in Workers, NEW b \in batch[w], b.ev = e PROVE FALSE
      BY Zenon
    <2>1. <<w, None>> \in Senders(e)
      BY Zenon DEF Senders
    <2> QED
      BY <1>1, <2>1, Zenon
  <1>4. \A w \in Workers, p \in Permits : Busy(w, p) => task[w][p].ev # e
    <2> SUFFICES ASSUME NEW w \in Workers, NEW p \in Permits, Busy(w, p), task[w][p].ev = e
                 PROVE  FALSE
      BY Zenon
    <2>1. <<w, p>> \in Senders(e)
      BY Zenon DEF Senders, Busy
    <2> QED
      BY <1>1, <2>1, Zenon
  <1>5. \A f \in Events : row'[f] = IF f = e THEN "due" ELSE row[f]
    BY <1>1, Zenon DEF TypeOK
  <1>6. /\ \A v \in Workers : \A b \in batch[v] : b.ev \in Events
        /\ \A v \in Workers, p \in Permits : Busy(v, p) => task[v][p].ev \in Events
    BY <1>1, TaskShape, BatchShape, Zenon DEF Busy
  <1>7. /\ \A f \in Events : row'[f] = "none" <=> row[f] = "none"
        /\ \A w \in Workers : \A b \in batch[w] : row'[b.ev] = row[b.ev]
        /\ \A w \in Workers, p \in Permits :
               Busy(w, p) => row'[task[w][p].ev] = row[task[w][p].ev]
    BY <1>1, <1>3, <1>4, <1>5, <1>6
  <1>8. \A f \in Events : enq[f] = "no" => row'[f] = row[f]
    BY <1>1, <1>5, Zenon DEF QueueInv, HandsHidden
  <1> QED
    BY <1>1, <1>2, <1>7, <1>8, RowsMove, Zenon

(* Measuring the sleep and waking change no row and no hand.               *)
LEMMA RestStep ==
    ASSUME QueueInv, NEW w \in Workers, Measure(w) \/ Wake(w)
    PROVE  QueueInv'
  <1>1. TypeOK /\ UNCHANGED <<row, attempts, by, enq, batch, task, posts, kept>>
    BY Zenon DEF QueueInv, Measure, Wake, rowVars, seenVars
  <1>2. faults' \in 0..MaxFaults /\ faults' >= faults
    BY WebhookAssumption, <1>1 DEF Measure, Wake, Fault, TypeOK
  <1>3. TypeOK'
    <2>1. at' \in [Workers -> {"lease", "dispatch", "measure", "sleep"}]
      BY <1>1, Zenon DEF Measure, Wake, Goto, TypeOK
    <2>2. note' \in [Workers -> BOOLEAN]
      BY <1>1, Zenon DEF Measure, Wake, TypeOK
    <2>3. known' \in [Workers -> SUBSET Events]
      BY <1>1 DEF Measure, Wake, TypeOK
    <2> QED
      BY <1>1, <1>2, <2>1, <2>2, <2>3, Zenon DEF TypeOK
  <1>4. \A v \in Workers, p \in Permits : Busy(v, p)' <=> Busy(v, p)
    BY <1>1, Zenon DEF Busy
  <1>5. HandsHidden' /\ OneHand' /\ DeletesKept' /\ NothingLost'
    <2>1. HandsHidden'
      BY <1>1, <1>4, ZenonT(60) DEF QueueInv, HandsHidden
    <2>2. OneHand'
      BY <1>1, <1>4 DEF QueueInv, OneHand
    <2>3. DeletesKept' /\ NothingLost'
      BY <1>1, Zenon DEF QueueInv, DeletesKept, NothingLost
    <2> QED
      BY <2>1, <2>2, <2>3, Zenon
  <1>6. PostsCounted'
    <2>1. \A e \in Events : Posted(e)' <=> Posted(e)
      BY <1>1, Zenon DEF Posted
    <2>2. \A e \in Events : attempts[e] \in Nat /\ posts[e] \in Nat
      BY <1>1 DEF TypeOK
    <2>3. faults \in Nat /\ faults' \in Nat
      BY <1>1, <1>2 DEF TypeOK
    <2> QED
      BY WebhookAssumption, <1>1, <1>2, <2>1, <2>2, <2>3 DEF QueueInv, PostsCounted
  <1> QED
    BY <1>3, <1>5, <1>6, Zenon DEF QueueInv

(* A lease takes rows that are due, so in no hands, and hides them.        *)
LEMMA LeaseDueStep ==
    ASSUME QueueInv, NEW w \in Workers, LeaseDue(w)
    PROVE  QueueInv'
  <1>1. /\ TypeOK /\ UNCHANGED <<attempts, enq, note, task, posts, kept>>
        /\ at' = [at EXCEPT ![w] = "dispatch"]
    BY Zenon DEF QueueInv, LeaseDue, Goto, seenVars
  <1>2. PICK S \in SUBSET Due :
            /\ batch' = [batch EXCEPT ![w] = Claimed(S)] \/ (S = {} /\ batch' = batch)
            /\ \/ Reschedule(w, S, "later") /\ faults' = faults
               \/ S = {} /\ UNCHANGED <<row, by, known>> /\ Fault
    <2>1. CASE Fault /\ UNCHANGED <<batch, row, by, known>>
      BY <2>1, Zenon
    <2>2. CASE \E S \in Leasable :
                   /\ batch' = [batch EXCEPT ![w] = Claimed(S)]
                   /\ Reschedule(w, S, "later") /\ faults' = faults
      <3>1. PICK T \in Leasable : /\ batch' = [batch EXCEPT ![w] = Claimed(T)]
                                  /\ Reschedule(w, T, "later") /\ faults' = faults
        BY <2>2, Zenon
      <3>2. T \in SUBSET Due
        BY Zenon DEF Leasable
      <3> QED
        BY <3>1, <3>2, Zenon
    <2> QED
      BY <2>1, <2>2, Zenon DEF LeaseDue
  <1>3. /\ S \subseteq Events /\ \A e \in S : row[e] = "due"
        /\ Claimed(S) \subseteq Rows
        /\ \A b \in Claimed(S) : b.ev \in S /\ b.n = attempts[b.ev]
    BY <1>1 DEF Due, Claimed, Rows, TypeOK
  <1>4. /\ row' \in [Events -> {"none", "due", "later"}]
        /\ \A e \in Events : row'[e] = IF e \in S THEN "later" ELSE row[e]
    BY <1>1, <1>2, Zenon DEF Reschedule, TypeOK
  <1>5. faults' \in 0..MaxFaults /\ faults' >= faults
    BY WebhookAssumption, <1>1, <1>2 DEF Fault, TypeOK
  <1>6. batch' \in [Workers -> SUBSET Rows]
    <2>1. batch \in [Workers -> SUBSET Rows] /\ Claimed(S) \in SUBSET Rows
      BY <1>1, <1>3, Zenon DEF TypeOK
    <2> QED
      BY <1>2, <2>1, Zenon
  <1>7. by' \in [Events -> Workers \cup {None}] /\ known' \in [Workers -> SUBSET Events]
    <2>1. by' \in [Events -> Workers \cup {None}]
      BY <1>1, <1>2, SMTT(30) DEF Reschedule, TypeOK
    <2>2. known' \in [Workers -> SUBSET Events]
      BY <1>1, <1>2, SMTT(30) DEF Reschedule, TypeOK
    <2> QED
      BY <2>1, <2>2, Zenon
  <1>8. TypeOK'
    BY <1>1, <1>4, <1>5, <1>6, <1>7, Zenon DEF TypeOK
  <1>9. \A v \in Workers, p \in Permits :
            /\ Busy(v, p)' <=> Busy(v, p)
            /\ Busy(v, p) => task[v][p].ev \in Events \ S
    BY <1>1, <1>3, TaskShape, Zenon DEF QueueInv, HandsHidden, Busy
  <1>10. \A v \in Workers : \A b \in batch[v] : b.ev \in Events \ S
    BY <1>1, <1>3, BatchShape, Zenon DEF QueueInv, HandsHidden
  <1>11. /\ \A v \in Workers : v # w => batch'[v] = batch[v]
         /\ batch'[w] = Claimed(S) \/ (S = {} /\ batch'[w] = batch[w])
    BY <1>1, <1>2, Zenon DEF TypeOK
  <1>12. \A e \in S : enq[e] # "no"
    BY <1>3, Zenon DEF QueueInv, HandsHidden
  <1>13. HandsHidden'
    <2>1. \A v \in Workers : \A b \in batch'[v] :
              enq'[b.ev] # "no" /\ row'[b.ev] = "later" /\ attempts'[b.ev] = b.n
      <3> SUFFICES ASSUME NEW v \in Workers, NEW b \in batch'[v]
                   PROVE  enq[b.ev] # "no" /\ row'[b.ev] = "later" /\ attempts[b.ev] = b.n
        BY <1>1, Zenon
      <3>1. CASE b \in batch[v]
        BY <3>1, <1>4, <1>10 DEF QueueInv, HandsHidden
      <3>2. CASE b \in Claimed(S)
        BY <3>2, <1>3, <1>4, <1>12, Zenon
      <3> QED
        BY <3>1, <3>2, <1>11, Zenon
    <2>2. \A v \in Workers, p \in Permits : Busy(v, p)' =>
              /\ enq'[task'[v][p].ev] # "no" /\ row'[task'[v][p].ev] = "later"
              /\ attempts'[task'[v][p].ev] = task'[v][p].n
      BY <1>1, <1>4, <1>9 DEF QueueInv, HandsHidden
    <2>3. \A e \in Events : enq'[e] = "no" => row'[e] = "none" /\ posts'[e] = 0
      BY <1>1, <1>4, <1>12, Zenon DEF QueueInv, HandsHidden
    <2> QED
      BY <2>1, <2>2, <2>3, ZenonT(60) DEF HandsHidden
  <1>14. OneHand'
    <2>1. \A a, b \in Claimed(S) : a.ev = b.ev => a = b
      BY SMTT(30) DEF Claimed
    <2>2. ASSUME NEW u \in Workers, NEW v \in Workers, NEW a \in batch'[u], NEW b \in batch'[v],
                 a.ev = b.ev
          PROVE  u = v /\ a = b
      BY <1>3, <1>10, <1>11, <2>1, <2>2, SMTT(30) DEF QueueInv, OneHand
    <2>3. ASSUME NEW u \in Workers, NEW v \in Workers, NEW p \in Permits, NEW a \in batch'[u],
                 Busy(v, p)
          PROVE  a.ev # task[v][p].ev
      BY <1>3, <1>9, <1>11, <2>3, SMTT(30) DEF QueueInv, OneHand
    <2> QED
      BY <1>1, <1>9, <2>2, <2>3 DEF QueueInv, OneHand
  <1>15. DeletesKept' /\ NothingLost'
    BY <1>1, <1>3, <1>4, Zenon DEF QueueInv, DeletesKept, NothingLost
  <1>16. PostsCounted'
    <2>1. \A e \in Events : Posted(e)' <=> Posted(e)
      BY <1>1, Zenon DEF Posted
    <2>2. \A e \in Events : attempts[e] \in Nat /\ posts[e] \in Nat
      BY <1>1 DEF TypeOK
    <2>3. faults \in Nat /\ faults' \in Nat
      BY <1>1, <1>5 DEF TypeOK
    <2>4. \A e \in Events : row'[e] # "none" => row[e] # "none"
      BY <1>3, <1>4, Zenon
    <2> QED
      BY WebhookAssumption, <1>1, <1>5, <2>1, <2>2, <2>3, <2>4 DEF QueueInv, PostsCounted
  <1> QED
    BY <1>8, <1>13, <1>14, <1>15, <1>16, Zenon DEF QueueInv

(* A leased row passes from the batch to a free permit.                    *)
LEMMA DispatchStep ==
    ASSUME QueueInv, NEW w \in Workers, Dispatch(w)
    PROVE  QueueInv'
  <1>1. TypeOK /\ UNCHANGED <<row, attempts, by, enq, note, known, posts, kept, faults>>
    BY Zenon DEF QueueInv, Dispatch, rowVars, seenVars
  <1>2. CASE batch[w] = {} /\ Goto(w, "measure") /\ UNCHANGED <<batch, task>>
    <2>1. TypeOK'
      BY <1>1, <1>2, Zenon DEF TypeOK, Goto
    <2> QED
      BY <1>1, <1>2, <2>1, RowsMove, Zenon
  <1>3. ASSUME NEW b \in batch[w], NEW p \in Permits, task[w][p] = Idle,
               task' = [task EXCEPT ![w][p] = [ev |-> b.ev, n |-> b.n, at |-> "post"]],
               batch' = [batch EXCEPT ![w] = @ \ {b}], UNCHANGED at
        PROVE  QueueInv'
    <2>1. b.ev \in Events /\ b.n \in 0..(MaxRetries - 1) /\ b.ev # None
      BY WebhookAssumption, <1>1, BatchShape, Zenon
    <2>2. [ev |-> b.ev, n |-> b.n, at |-> "post"] \in Tasks
      BY <2>1, Zenon DEF Tasks, TaskPoints
    <2>3. /\ task' \in [Workers -> [Permits -> {Idle} \cup Tasks]]
          /\ task'[w][p] = [ev |-> b.ev, n |-> b.n, at |-> "post"]
          /\ \A v \in Workers, q \in Permits : v # w \/ q # p => task'[v][q] = task[v][q]
      <3>1. task \in [Workers -> [Permits -> {Idle} \cup Tasks]]
        BY <1>1, Zenon DEF TypeOK
      <3> QED
        BY <1>3, <2>2, <3>1, Zenon
    <2>4. /\ batch' \in [Workers -> SUBSET Rows] /\ batch'[w] = batch[w] \ {b}
          /\ \A v \in Workers : v # w => batch'[v] = batch[v]
      BY <1>1, <1>3, Zenon DEF TypeOK
    <2>5. TypeOK'
      BY <1>1, <1>3, <2>3, <2>4, Zenon DEF TypeOK
    <2>6. /\ Busy(w, p)' /\ ~Busy(w, p) /\ task'[w][p].ev = b.ev /\ task'[w][p].n = b.n
          /\ task'[w][p].at = "post"
          /\ \A v \in Workers, q \in Permits :
                v # w \/ q # p => (Busy(v, q)' <=> Busy(v, q)) /\ task'[v][q] = task[v][q]
      BY <1>3, <2>1, <2>3 DEF Busy, Idle
    <2>7. \A v \in Workers : batch'[v] \subseteq batch[v]
      BY <2>4, Zenon
    <2>8. HandsHidden'
      <3>1. ASSUME NEW v \in Workers, NEW q \in Permits, Busy(v, q)'
            PROVE  /\ enq[task'[v][q].ev] # "no" /\ row[task'[v][q].ev] = "later"
                   /\ attempts[task'[v][q].ev] = task'[v][q].n
        <4>1. CASE v = w /\ q = p
          BY <1>3, <2>6, <4>1, SMTT(40) DEF QueueInv, HandsHidden
        <4>2. CASE v # w \/ q # p
          BY <2>6, <3>1, <4>2 DEF QueueInv, HandsHidden
        <4> QED
          BY <4>1, <4>2, Zenon
      <3>2. \A v \in Workers : \A a \in batch'[v] :
                enq[a.ev] # "no" /\ row[a.ev] = "later" /\ attempts[a.ev] = a.n
        BY <2>7, Zenon DEF QueueInv, HandsHidden
      <3> QED
        <4>1. \A e \in Events : enq[e] = "no" => row[e] = "none" /\ posts[e] = 0
          BY Zenon DEF QueueInv, HandsHidden
        <4> QED
          BY <1>1, <3>1, <3>2, <4>1, ZenonT(60) DEF HandsHidden
    <2>9. OneHand'
      <3>1. ASSUME NEW u \in Workers, NEW v \in Workers, NEW q \in Permits, NEW a \in batch'[u],
                   Busy(v, q)'
            PROVE  a.ev # task'[v][q].ev
        <4>1. a \in batch[u] /\ (u = w => a # b)
          BY <2>4, <2>7, Zenon
        <4>2. CASE v = w /\ q = p
          BY <1>3, <2>6, <4>1, <4>2 DEF QueueInv, OneHand
        <4>3. CASE v # w \/ q # p
          BY <2>6, <3>1, <4>1, <4>3 DEF QueueInv, OneHand
        <4> QED
          BY <4>2, <4>3, Zenon
      <3>2. ASSUME NEW u \in Workers, NEW v \in Workers, NEW q \in Permits, NEW r \in Permits,
                   Busy(u, q)', Busy(v, r)', task'[u][q].ev = task'[v][r].ev
            PROVE  u = v /\ q = r
        <4>1. \A x \in Workers, y \in Permits :
                  (x # w \/ y # p) /\ Busy(x, y)' => task'[x][y].ev # b.ev
          BY <1>3, <2>6 DEF QueueInv, OneHand
        <4>2. CASE (u # w \/ q # p) /\ (v # w \/ r # p)
          <5>1. Busy(u, q) /\ Busy(v, r) /\ task[u][q].ev = task[v][r].ev
            BY <2>6, <3>2, <4>2, Zenon
          <5> QED
            BY <5>1, Zenon DEF QueueInv, OneHand
        <4> QED
          BY <2>6, <3>2, <4>1, <4>2
      <3>3. \A u, v \in Workers : \A a \in batch'[u], c \in batch'[v] : a.ev = c.ev => u = v /\ a = c
        BY <2>7, SMTT(40) DEF QueueInv, OneHand
      <3> QED
        BY <3>1, <3>2, <3>3, Zenon DEF OneHand
    <2>10. DeletesKept'
      BY <1>1, <2>6, ZenonT(60) DEF QueueInv, DeletesKept
    <2>11. \A e \in Events : Posted(e)' <=> Posted(e)
      BY <1>3, <2>6 DEF Posted, Idle
    <2>12. PostsCounted' /\ NothingLost'
      BY <1>1, <2>11, Zenon DEF QueueInv, PostsCounted, NothingLost
    <2> QED
      BY <2>5, <2>8, <2>9, <2>10, <2>12, Zenon DEF QueueInv
  <1> QED
    BY <1>2, <1>3, Zenon DEF Dispatch

(* A crash empties the hands of one replica and pays for what they posted. *)
LEMMA CrashStep ==
    ASSUME QueueInv, NEW w \in Workers, Crash(w)
    PROVE  QueueInv'
  <1>1. /\ TypeOK /\ UNCHANGED <<row, attempts, by, posts, kept>>
        /\ faults' = faults + 1 /\ faults < MaxFaults
        /\ enq' = [e \in Events |-> IF enq[e] = w THEN "done" ELSE enq[e]]
    BY Zenon DEF QueueInv, Crash, Fault, seenVars
  <1>2. /\ task' \in [Workers -> [Permits -> {Idle} \cup Tasks]]
        /\ \A p \in Permits : task'[w][p] = Idle
        /\ \A v \in Workers : v # w => task'[v] = task[v]
    BY <1>1, Zenon DEF Crash, TypeOK
  <1>3. /\ batch' \in [Workers -> SUBSET Rows] /\ batch'[w] = {}
        /\ \A v \in Workers : v # w => batch'[v] = batch[v]
    BY <1>1, Zenon DEF Crash, TypeOK
  <1>4. TypeOK'
    <2>1. at' \in [Workers -> {"lease", "dispatch", "measure", "sleep"}]
      BY <1>1, Zenon DEF Crash, Goto, TypeOK
    <2>2. note' \in [Workers -> BOOLEAN] /\ known' \in [Workers -> SUBSET Events]
      BY <1>1, Zenon DEF Crash, TypeOK
    <2>3. enq' \in [Events -> {"no", "done"} \cup Workers] /\ faults' \in 0..MaxFaults
      BY WebhookAssumption, <1>1, SMTT(30) DEF TypeOK
    <2> QED
      BY <1>1, <1>2, <1>3, <2>1, <2>2, <2>3, Zenon DEF TypeOK
  <1>5. \A v \in Workers, p \in Permits :
            Busy(v, p)' => v # w /\ Busy(v, p) /\ task'[v][p] = task[v][p]
    BY <1>2 DEF Busy, Idle
  <1>6. \A v \in Workers : batch'[v] \subseteq batch[v]
    BY <1>3, Zenon
  <1>7. \A e \in Events : enq'[e] = "no" <=> enq[e] = "no"
    BY WebhookAssumption, <1>1, Zenon
  <1>8. HandsHidden' /\ OneHand'
    <2>1. \A v \in Workers, p \in Permits : Busy(v, p)' => Busy(v, p) /\ task'[v][p] = task[v][p]
      BY <1>5, Zenon
    <2> QED BY <1>1, <1>6, <1>7, <2>1, FewerHands, Zenon DEF QueueInv
  <1>10. DeletesKept'
    BY <1>1, <1>2 DEF QueueInv, DeletesKept, Idle
  <1>11. NothingLost'
    BY <1>1, <1>7, Zenon DEF QueueInv, NothingLost
  <1>12. PostsCounted'
    <2>1. \A e \in Events : attempts[e] \in Nat /\ posts[e] \in Nat
      BY <1>1 DEF TypeOK
    <2>2. faults \in Nat
      BY <1>1 DEF TypeOK
    <2> QED
      BY WebhookAssumption, <1>1, <2>1, <2>2 DEF QueueInv, PostsCounted
  <1> QED
    BY <1>4, <1>8, <1>10, <1>11, <1>12, Zenon DEF QueueInv

----------------------------------------------------------------------------
(* A row goes only when its event was accepted or dead-lettered.           *)
LEMMA DeleteStep ==
    ASSUME QueueInv, NEW w \in Workers, NEW p \in Permits, Delete(w, p)
    PROVE  QueueInv'
  <1>e. PICK e : e = task[w][p].ev
    BY Zenon
  <1>1. /\ TypeOK /\ task[w][p].at = "delete" /\ Busy(w, p)
        /\ UNCHANGED <<attempts, by, known, enq, at, batch, note, posts, kept>>
        /\ Step(w, p, "nudge") /\ e \in kept
    BY <1>e, TaskShape, Zenon DEF QueueInv, Delete, seenVars, workVars, Busy, DeletesKept
  <1>2. /\ e \in Events /\ row[e] = "later" /\ attempts[e] \in Nat
        /\ posts[e] \in Nat /\ faults \in Nat /\ posts[e] <= attempts[e] + 1 + faults
    BY <1>e, <1>1, PostsOf, Zenon
  <1>3. /\ row' \in [Events -> {"none", "due", "later"}]
        /\ faults' \in 0..MaxFaults /\ faults' >= faults
        /\ \A f \in Events : f # e => row'[f] = row[f]
        /\ row'[e] = "none" \/ faults' = faults + 1
    <2>1. row \in [Events -> {"none", "due", "later"}] /\ faults \in 0..MaxFaults
      BY <1>1, Zenon DEF TypeOK
    <2>2. CASE row' = [row EXCEPT ![e] = "none"] /\ UNCHANGED faults
      BY <1>2, <2>1, <2>2
    <2>3. CASE Fault /\ UNCHANGED row
      BY WebhookAssumption, <2>1, <2>3 DEF Fault
    <2> QED
      BY <1>e, <2>2, <2>3, Zenon DEF Delete
  <1>4. row'[e] # "none" => posts[e] <= attempts'[e] + faults'
    BY <1>1, <1>2, <1>3
  <1>5. /\ attempts' \in [Events -> 0..(MaxRetries - 1)]
        /\ by' \in [Events -> Workers \cup {None}]
        /\ known' \in [Workers -> SUBSET Events]
    BY <1>1, Zenon DEF TypeOK
  <1> QED
    BY <1>e, <1>1, <1>3, <1>4, <1>5, LetGo, Zenon DEF TaskPoints

(* An event out of retries is kept in the dead-letter file before its row  *)
(* goes.                                                                   *)
LEMMA AppendDlqStep ==
    ASSUME QueueInv, NEW w \in Workers, NEW p \in Permits, AppendDlq(w, p)
    PROVE  QueueInv'
  <1>e. PICK e : e = task[w][p].ev
    BY Zenon
  <1>1. PICK x \in {"delete", "postpone"} :
            /\ Step(w, p, x)
            /\ x = "delete" => kept' = kept \cup {e} /\ faults' = faults
            /\ x = "postpone" => kept' = kept /\ Fault
    BY <1>e, Zenon DEF AppendDlq
  <1>2. /\ TypeOK /\ task[w][p].at = "dlq" /\ Busy(w, p)
        /\ UNCHANGED <<row, attempts, by, enq, at, batch, note, known, posts>>
    BY TaskShape, Zenon DEF QueueInv, AppendDlq, rowVars, workVars, Busy
  <1>3. /\ e \in Events /\ row[e] = "later" /\ attempts[e] \in Nat
        /\ posts[e] \in Nat /\ faults \in Nat /\ posts[e] <= attempts[e] + 1 + faults
    BY <1>e, <1>2, PostsOf, Zenon
  <1>4. /\ task' \in [Workers -> [Permits -> {Idle} \cup Tasks]]
        /\ task'[w][p].at = x
        /\ \A v \in Workers, q \in Permits : v # w \/ q # p => task'[v][q] = task[v][q]
    BY <1>1, <1>2, Moved, SMTT(40) DEF TaskPoints
  <1>5. \A v \in Workers, q \in Permits :
            /\ task'[v][q].ev = task[v][q].ev /\ task'[v][q].n = task[v][q].n
            /\ Busy(v, q)' <=> Busy(v, q)
    BY <1>1, <1>2, HandsAfter DEF TaskPoints
  <1>6. /\ kept \subseteq kept' /\ kept' \subseteq Events /\ faults' \in 0..MaxFaults
        /\ faults' >= faults
    BY WebhookAssumption, <1>1, <1>2, <1>3 DEF TypeOK, Fault
  <1>7. TypeOK'
    BY <1>2, <1>4, <1>6, Zenon DEF TypeOK
  <1>8. HandsHidden' /\ OneHand'
    BY <1>2, <1>5, SameHands, Zenon DEF QueueInv
  <1>9. DeletesKept'
    BY WebhookAssumption, <1>e, <1>1, <1>4, <1>5, <1>6 DEF QueueInv, DeletesKept
  <1>10. NothingLost'
    BY <1>2, <1>6, Zenon DEF QueueInv, NothingLost
  <1>11. PostsCounted'
    <2>1. ASSUME NEW f \in Events, f # e PROVE Posted(f)' <=> Posted(f)
      <3>1. \A v \in Workers, q \in Permits :
                /\ task'[v][q].ev = f <=> task[v][q].ev = f
                /\ task[v][q].ev = f => task'[v][q].at = task[v][q].at
        BY <1>e, <1>4, <1>5, <2>1, ZenonT(60)
      <3> QED
        BY <3>1, ZenonT(60) DEF Posted
    <2>2. x = "delete" => Posted(e)'
      BY <1>e, <1>4, <1>5, Zenon DEF Posted
    <2>3. x = "postpone" => faults' = faults + 1
      BY <1>1, Zenon DEF Fault
    <2>4. \A f \in Events : posts[f] \in Nat /\ attempts[f] \in Nat
      BY <1>2 DEF TypeOK
    <2>5. SUFFICES ASSUME NEW f \in Events
                   PROVE  /\ posts[f] <= MaxRetries + faults'
                          /\ row[f] # "none" => posts[f] <= attempts[f] + 1 + faults'
                          /\ row[f] # "none" /\ ~Posted(f)'
                                => posts[f] <= attempts[f] + faults'
      BY <1>2, Zenon DEF PostsCounted
    <2>6. /\ posts[f] <= MaxRetries + faults
          /\ row[f] # "none" => posts[f] <= attempts[f] + 1 + faults
          /\ row[f] # "none" /\ ~Posted(f) => posts[f] <= attempts[f] + faults
      BY Zenon DEF QueueInv, PostsCounted
    <2>7. \/ Posted(f)' <=> Posted(f)
          \/ Posted(f)'
          \/ faults' = faults + 1 /\ posts[f] <= attempts[f] + 1 + faults
      BY <1>3, <2>1, <2>2, <2>3, Zenon
    <2>8. posts[f] \in Nat /\ attempts[f] \in Nat
      BY <2>4, Zenon
    <2> QED
      BY WebhookAssumption, <1>3, <1>6, <2>6, <2>7, <2>8, SMT
  <1> QED
    BY <1>7, <1>8, <1>9, <1>10, <1>11, Zenon DEF QueueInv

(* The last wake-up frees the permit of a task whose event is settled.     *)
LEMMA NudgeStep ==
    ASSUME QueueInv, NEW w \in Workers, NEW p \in Permits, Nudge(w, p)
    PROVE  QueueInv'
  <1>1. /\ TypeOK /\ task[w][p].at = "nudge" /\ note' = [note EXCEPT ![w] = TRUE]
        /\ UNCHANGED <<row, attempts, by, enq, at, batch, known, posts, kept, faults>>
    BY Zenon DEF QueueInv, Nudge, rowVars, seenVars
  <1>2. /\ task' \in [Workers -> [Permits -> {Idle} \cup Tasks]]
        /\ task'[w][p] = Idle
        /\ \A v \in Workers, q \in Permits : v # w \/ q # p => task'[v][q] = task[v][q]
    <2>1. /\ task \in [Workers -> [Permits -> {Idle} \cup Tasks]]
          /\ task' = [task EXCEPT ![w][p] = Idle]
      BY <1>1, Zenon DEF Nudge, TypeOK
    <2> QED
      BY <2>1, SMT
  <1>3. \A v \in Workers, q \in Permits :
            (Busy(v, q)' <=> Busy(v, q)) /\ (Busy(v, q) => task'[v][q] = task[v][q])
    <2> TAKE v \in Workers, q \in Permits
    <2>1. CASE v # w \/ q # p
      BY <1>2, <2>1, Zenon DEF Busy
    <2>2. CASE v = w /\ q = p
      <3>1. task[v][q].at = "nudge" /\ task'[v][q].ev = None
        BY <1>1, <1>2, <2>2, SMT DEF Idle
      <3> QED
        BY <3>1, Zenon DEF Busy
    <2> QED
      BY <2>1, <2>2, Zenon
  <1>4. TypeOK'
    BY <1>1, <1>2, Zenon DEF TypeOK
  <1>5. HandsHidden' /\ OneHand' /\ NothingLost'
    <2>1. HandsHidden' /\ OneHand'
      BY <1>1, <1>3, SameHands, Zenon DEF QueueInv
    <2>2. NothingLost'
      BY <1>1, Zenon DEF QueueInv, NothingLost
    <2> QED
      BY <2>1, <2>2, Zenon
  <1>6. DeletesKept'
    BY <1>1, <1>2 DEF QueueInv, DeletesKept, Idle
  <1>7. \A f \in Events : Posted(f)' <=> Posted(f)
    <2>1. \A v \in Workers, q \in Permits :
              /\ v # w \/ q # p => task'[v][q] = task[v][q]
              /\ v = w /\ q = p => task[v][q].at = "nudge" /\ task'[v][q].at = "idle"
      BY <1>1, <1>2 DEF Idle
    <2> QED
      BY <2>1, SMTT(40) DEF Posted
  <1>8. PostsCounted'
    BY <1>1, <1>7, Zenon DEF QueueInv, PostsCounted
  <1> QED
    BY <1>4, <1>5, <1>6, <1>8, Zenon DEF QueueInv

(* Every step of the hub treats a connection's queue in one of these ways. *)
LEMMA QueueStep == QueueInv /\ [Next]_vars => QueueInv'
  <1> SUFFICES ASSUME QueueInv, [Next]_vars PROVE QueueInv'
    BY Zenon
  <1>1. CASE UNCHANGED vars
    <2>1. UNCHANGED <<row, attempts, by, enq, at, batch, note, known, task, posts, kept, faults>>
      BY <1>1, Zenon DEF vars, rowVars, workVars, seenVars
    <2>2. TypeOK' /\ HandsHidden' /\ DeletesKept'
      BY <2>1, SMTT(40) DEF QueueInv, TypeOK, HandsHidden, DeletesKept, Busy
    <2>3. OneHand' /\ PostsCounted' /\ NothingLost'
      BY <2>1 DEF QueueInv, OneHand, PostsCounted, NothingLost, Busy, Posted
    <2> QED
      BY <2>2, <2>3, Zenon DEF QueueInv
  <1>2. ASSUME NEW w \in Workers, Worker(w) \/ Crash(w) PROVE QueueInv'
    BY <1>2, LeaseDueStep, DispatchStep, RestStep, CrashStep, Zenon DEF Worker
  <1>3. ASSUME NEW w \in Workers, NEW p \in Permits, Task(w, p) PROVE QueueInv'
    BY <1>3, PostStep, RetryLaterStep, AppendDlqStep, PostponeStep, DeleteStep, NudgeStep, Zenon
       DEF Task
  <1>4. ASSUME NEW e \in Events, NEW w \in Workers, Enqueue(e, w) PROVE QueueInv'
    BY <1>4, EnqueueStep, Zenon
  <1>5. ASSUME NEW e \in Events, EnqueueNotify(e) \/ TimePasses(e) PROVE QueueInv'
    BY <1>5, EnqueueNotifyStep, TimePassesStep, Zenon
  <1> QED
    BY <1>1, <1>2, <1>3, <1>4, <1>5, Zenon DEF Next

(* The invariant of the queue holds always.                                *)
LEMMA QueueAlways == Spec => []QueueInv
  BY QueueInit, QueueStep, PTL DEF Spec

(* webhook_delivery_store.rs: the stored attempts stay below max_retries   *)
(* and every row, task and batch keeps its shape.                          *)
THEOREM QueueTypes == Spec => []TypeOK
  <1>1. QueueInv => TypeOK
    BY Zenon DEF QueueInv
  <1> QED
    BY <1>1, QueueAlways, PTL

(* enqueue_typed to delete: no accepted event disappears, for any number   *)
(* of events, replicas, permits, crashes and failing calls.                *)
THEOREM NothingIsLost == Spec => []NothingLost
  <1>1. QueueInv => NothingLost
    BY Zenon DEF QueueInv
  <1> QED
    BY <1>1, QueueAlways, PTL

(* lease_due keeps an event in one pair of hands, whoever wakes whenever.  *)
THEOREM OneSenderAtATime == Spec => []InFlightOnce
  <1>1. QueueInv => InFlightOnce
    <2> SUFFICES ASSUME QueueInv, NEW e \in Events, NEW s \in Senders(e), NEW t \in Senders(e)
                 PROVE  s = t
      BY Zenon DEF InFlightOnce
    <2>1. ASSUME NEW r \in Senders(e)
          PROVE  \/ \E w \in Workers : r = <<w, None>> /\ \E b \in batch[w] : b.ev = e
                 \/ \E w \in Workers, p \in Permits :
                        r = <<w, p>> /\ Busy(w, p) /\ task[w][p].ev = e
      BY WebhookAssumption DEF Senders, Busy
    <2>2. CASE \E w \in Workers : s = <<w, None>> /\ \E b \in batch[w] : b.ev = e
      BY <2>1, <2>2 DEF QueueInv, OneHand
    <2>3. CASE \E w \in Workers, p \in Permits :
                   s = <<w, p>> /\ Busy(w, p) /\ task[w][p].ev = e
      BY <2>1, <2>3 DEF QueueInv, OneHand
    <2> QED
      BY <2>1, <2>2, <2>3, Zenon
  <1> QED
    BY <1>1, QueueAlways, PTL

(* RetryLater's `attempts >= max_retries`: an endpoint that never answers  *)
(* is posted to max_retries times, plus once for each fault.               *)
THEOREM RetriesAreBounded == Spec => []PostsBounded
  <1>1. QueueInv => PostsBounded
    BY Zenon DEF QueueInv, PostsCounted, PostsBounded
  <1> QED
    BY <1>1, QueueAlways, PTL

----------------------------------------------------------------------------
(* No worker sleeps yet.                                                   *)
LEMMA WakeInit == Init => PromptWake
  BY Zenon DEF Init, PromptWake

(* Worker steps never put a sleep on a schedule older than the rows.       *)
LEMMA WakeWorker ==
    ASSUME TypeOK, PromptWake, NEW w \in Workers, Worker(w) \/ Crash(w)
    PROVE  PromptWake'
  <1>1. CASE LeaseDue(w)
    BY <1>1, SMTT(40) DEF LeaseDue, Goto, Reschedule, PromptWake, TypeOK
  <1>2. CASE Dispatch(w)
    <2>1. /\ UNCHANGED <<row, by, enq, note, known>>
          /\ \A v \in Workers : at'[v] = "sleep" => at[v] = "sleep" /\ v # w
      BY <1>2, Zenon DEF Dispatch, Goto, TypeOK, rowVars
    <2>2. \A v \in Workers : v # w => task'[v] = task[v]
      BY <1>2, Zenon DEF Dispatch, TypeOK
    <2> SUFFICES ASSUME NEW v \in Workers, NEW e \in Events, at'[v] = "sleep", ~note'[v],
                        row'[e] # "none", by'[e] = v, e \notin known'[v]
                 PROVE  enq'[e] = v \/ \E p \in Permits : task'[v][p].ev = e /\ task'[v][p].at = "nudge"
      BY SMTT(40) DEF PromptWake
    <2>3. v # w /\ at[v] = "sleep" /\ task'[v] = task[v]
      BY <2>1, <2>2, Zenon
    <2> QED
      BY <2>1, <2>3, SMTT(40) DEF PromptWake
  <1>3. CASE Measure(w)
    <2>1. /\ UNCHANGED <<row, by, enq, note, task>>
          /\ \A v \in Workers : v # w => at'[v] = at[v] /\ known'[v] = known[v]
      BY <1>3, Zenon DEF Measure, Goto, TypeOK, rowVars
    <2>2. \A e \in Events : at'[w] = "sleep" /\ row[e] # "none" => e \in known'[w]
      BY <1>3 DEF Measure, Goto, TypeOK
    <2> SUFFICES ASSUME NEW v \in Workers, NEW e \in Events, at'[v] = "sleep", ~note'[v],
                        row'[e] # "none", by'[e] = v, e \notin known'[v]
                 PROVE  enq'[e] = v \/ \E p \in Permits : task'[v][p].ev = e /\ task'[v][p].at = "nudge"
      BY SMTT(40) DEF PromptWake
    <2>3. v # w
      BY <2>1, <2>2, Zenon
    <2> QED
      BY <2>1, <2>3, SMTT(40) DEF PromptWake
  <1>4. CASE Wake(w)
    BY <1>4 DEF Wake, Goto, PromptWake, TypeOK, rowVars, seenVars
  <1>5. CASE Crash(w)
    BY <1>5 DEF Crash, Goto, PromptWake, TypeOK, rowVars, seenVars
  <1> QED
    BY <1>1, <1>2, <1>3, <1>4, <1>5, Zenon DEF Worker

(* A row that becomes due is followed by a note to its worker.             *)
LEMMA WakeEvent ==
    ASSUME TypeOK, PromptWake, NEW e \in Events
    PROVE  /\ \A w \in Workers : Enqueue(e, w) => PromptWake'
           /\ EnqueueNotify(e) => PromptWake'
           /\ TimePasses(e) => PromptWake'
  <1>1. ASSUME NEW w \in Workers, Enqueue(e, w) PROVE PromptWake'
    BY <1>1 DEF Enqueue, Reschedule, PromptWake, TypeOK, seenVars
  <1>2. EnqueueNotify(e) => PromptWake'
    BY DEF EnqueueNotify, PromptWake, TypeOK, seenVars
  <1>3. TimePasses(e) => PromptWake'
    BY DEF TimePasses, PromptWake, TypeOK, workVars, seenVars
  <1> QED
    BY <1>1, <1>2, <1>3, Zenon

(* A task that moves a row's schedule goes to its notify_one next.         *)
LEMMA WakeTask ==
    ASSUME QueueInv, PromptWake, NEW w \in Workers, NEW p \in Permits, Task(w, p)
    PROVE  PromptWake'
  <1>0. TypeOK /\ (task[w][p].at \in TaskPoints => task[w][p].ev \in Events)
    BY TaskShape, Zenon DEF QueueInv, TaskPoints
  <1>1. CASE Nudge(w, p)
    <2>1. /\ UNCHANGED <<row, by, enq, at, known>>
          /\ note' = [note EXCEPT ![w] = TRUE]
          /\ \A v \in Workers : v # w => task'[v] = task[v]
      BY <1>0, <1>1, Zenon DEF Nudge, rowVars, TypeOK
    <2>2. note'[w] /\ \A v \in Workers : v # w => note'[v] = note[v]
      BY <1>0, <2>1, Zenon DEF TypeOK
    <2> QED
      BY <2>1, <2>2 DEF PromptWake
  <1>2. CASE Post(w, p) \/ RetryLater(w, p) \/ AppendDlq(w, p) \/ Postpone(w, p) \/ Delete(w, p)
    <2>1. /\ UNCHANGED <<enq, at, note>> /\ task[w][p].at \in TaskPoints \ {"nudge"}
          /\ \E x \in TaskPoints : Step(w, p, x)
      BY <1>2, Zenon DEF Post, RetryLater, AppendDlq, Postpone, Delete, rowVars, workVars, TaskPoints
    <2>2. PICK x \in TaskPoints : Step(w, p, x)
      BY <2>1, Zenon
    <2>3. \A v \in Workers, q \in Permits : task[v][q].at = "nudge" =>
              task'[v][q].ev = task[v][q].ev /\ task'[v][q].at = "nudge"
      BY <1>0, <2>1, <2>2, Moved, SMTT(40)
    <2>4. CASE UNCHANGED <<by, known>> /\ (UNCHANGED row \/ row' = [row EXCEPT ![task[w][p].ev] = "none"])
      <3>1. \A f \in Events : row'[f] # "none" => row[f] # "none"
        BY <1>0, <2>1, <2>4, Zenon DEF TypeOK
      <3> QED
        BY <2>1, <2>3, <2>4, <3>1, SMTT(40) DEF PromptWake
    <2>5. CASE Step(w, p, "nudge") /\ Reschedule(w, {task[w][p].ev}, "later")
      <3>1. task'[w][p].ev = task[w][p].ev /\ task'[w][p].at = "nudge"
        BY <1>0, <2>1, <2>5, Moved, ZenonT(60) DEF TaskPoints
      <3>2. \A f \in Events : f # task[w][p].ev =>
                /\ row'[f] = row[f] /\ by'[f] = by[f]
                /\ \A v \in Workers : f \in known[v] <=> f \in known'[v]
        BY <2>5, Zenon DEF Reschedule
      <3>3. by'[task[w][p].ev] = w
        BY <1>0, <2>1, <2>5, Zenon DEF Reschedule
      <3> QED
        BY <2>1, <2>3, <3>1, <3>2, <3>3 DEF PromptWake
    <2> QED
      BY <1>2, <2>4, <2>5, Zenon DEF Post, RetryLater, AppendDlq, Postpone, Delete, MarkFailed, rowVars, workVars
  <1> QED
    BY <1>1, <1>2, Zenon DEF Task

(* notify_one after every insert and every settled task: no worker of any  *)
(* replica oversleeps a row its own replica has written.                   *)
THEOREM NoLostWakeUp == Spec => []PromptWake
  <1>1. QueueInv /\ PromptWake /\ [Next]_vars => PromptWake'
    <2> SUFFICES ASSUME QueueInv, PromptWake, [Next]_vars PROVE PromptWake'
      BY Zenon
    <2>1. TypeOK
      BY Zenon DEF QueueInv
    <2>2. CASE UNCHANGED vars
      BY <2>2 DEF PromptWake, vars, rowVars, workVars
    <2> QED
      BY <2>1, <2>2, WakeWorker, WakeEvent, WakeTask, Zenon DEF Next
  <1> QED
    BY WakeInit, QueueAlways, <1>1, PTL DEF Spec
=============================================================================

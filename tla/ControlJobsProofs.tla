------------------------- MODULE ControlJobsProofs --------------------------
(***************************************************************************)
(* What holds of the control plane's job tracker for any number of POSTs,  *)
(* correlation ids and streams; of its audit writer, for any entries; and  *)
(* of the admission of devices, for any hellos, admin calls and tokens.    *)
(***************************************************************************)
EXTENDS ControlJobs, AuditWriter, Admission, TLAPS

Early == {"idle", "check", "stale", "index", "insert"}
PostStates == Early \cup {"send", "spawn", "rollback", "dropped", "answered"}

ControlTypes ==
    /\ jobs \subseteq Posts
    /\ index \in [Cids -> Posts \cup {NoJob}]
    /\ postAt \in [Posts -> PostStates]
    /\ found \in [Posts -> Posts \cup {NoJob}]
    /\ timer \in [Posts -> {"none", "armed", "sends", "over"}]
    /\ fin \in [Posts -> {"no", "send", "look", "unindex", "over"}]
    /\ told \in [Posts -> Terminal \cup {NoJob}]
    /\ has \subseteq Posts
    /\ knows \subseteq Posts
    /\ loop.ev \in Outputs \cup Reports => loop.job \in Posts

(* The entry of a job is in the map from its insertion to its finalize,    *)
(* and only once.                                                          *)
EndsInv ==
    /\ \A j \in jobs : fin[j] = "no"
    /\ \A p \in Posts : postAt[p] \in Early => fin[p] = "no" /\ p \notin jobs
    /\ \A p \in Posts : fin[p] # "no" => told[p] \in Terminal

ControlInv == ControlTypes /\ EndsInv

(* No job, no POST, no stream.                                             *)
LEMMA ControlInvInit == ControlInit => ControlInv
  BY ControlAssumption DEF ControlInit, ControlInv, ControlTypes, EndsInv, Early, PostStates, Resting,
     Outputs, Reports

(* finalize, whoever calls it and whatever else the caller does.           *)
LEMMA FinalizeKeeps ==
    ASSUME ControlInv, NEW j \in Posts, NEW ev \in Terminal, Finalize(j, ev)
    PROVE  /\ jobs' \subseteq jobs
           /\ fin' \in [Posts -> {"no", "send", "look", "unindex", "over"}]
           /\ told' \in [Posts -> Terminal \cup {NoJob}]
           /\ \A k \in jobs' : fin'[k] = "no"
           /\ \A p \in Posts : postAt[p] \in Early => fin'[p] = "no"
           /\ \A p \in Posts : fin'[p] # "no" => told'[p] \in Terminal
  BY DEF Finalize, ControlInv, ControlTypes, EndsInv, jobVars

(* create_job, from the lookup of its correlation id to its answer.        *)
LEMMA CreateKeeps ==
    ASSUME ControlInv, NEW p \in Posts, Find(p) \/ Create(p)
    PROVE  ControlInv'
  <1> USE ControlAssumption DEF ControlInv
  <1>1. CASE Find(p) \/ Check(p) \/ DropStale(p) \/ Index(p)
    <2>1. PICK w \in {"check", "stale", "index", "insert", "answered"} : PostGoto(p, w)
      BY <1>1, Zenon DEF Find, Check, DropStale, Index
    <2>2. postAt[p] \in Early /\ UNCHANGED <<jobs, fin, told, timer, has, loop>>
      BY <1>1, Zenon DEF Find, Check, DropStale, Index, mapVars, jobVars, Early
    <2>3. /\ index' \in [Cids -> Posts \cup {NoJob}]
          /\ found' \in [Posts -> Posts \cup {NoJob}]
          /\ knows' \subseteq Posts
      BY <1>1 DEF Find, Check, DropStale, Index, mapVars, ControlTypes
    <2> QED BY <2>1, <2>2, <2>3, Zenon DEF PostGoto, ControlTypes, EndsInv, PostStates, Early
  <1>2. CASE InsertJob(p)
    BY <1>2, Zenon DEF InsertJob, PostGoto, ControlTypes, EndsInv, jobVars, PostStates, Early
  <1>3. CASE SendEnvelope(p) \/ Spawn(p)
    <2>1. PICK w \in {"spawn", "rollback", "dropped", "answered"} : PostGoto(p, w)
      BY <1>3, Zenon DEF SendEnvelope, Spawn
    <2>2. postAt[p] \notin Early /\ UNCHANGED <<jobs, index, fin, told, found, loop>>
      BY <1>3, Zenon DEF SendEnvelope, Spawn, mapVars, jobVars, Early
    <2>3. /\ has' \subseteq Posts
          /\ knows' \subseteq Posts
          /\ timer' \in [Posts -> {"none", "armed", "sends", "over"}]
      BY <1>3 DEF SendEnvelope, Spawn, ControlTypes
    <2> QED BY <2>1, <2>2, <2>3, Zenon DEF PostGoto, ControlTypes, EndsInv, PostStates, Early
  <1>4. CASE Rollback(p)
    <2>1. Finalize(p, "dispatch_failed") /\ PostGoto(p, "answered") /\ postAt[p] = "rollback"
      BY <1>4, Zenon DEF Rollback
    <2>2. UNCHANGED <<index, found, knows, timer, has, loop>>
      BY <1>4, Zenon DEF Rollback
    <2>3. "dispatch_failed" \in Terminal
      BY Zenon DEF Terminal
    <2> QED BY <2>1, <2>2, <2>3, FinalizeKeeps DEF PostGoto, ControlTypes, EndsInv, PostStates, Early
  <1> QED BY <1>1, <1>2, <1>3, <1>4, Zenon DEF Create

(* A job's timer and its finalize.                                         *)
LEMMA JobKeeps ==
    ASSUME ControlInv, NEW j \in Posts, Job(j)
    PROVE  ControlInv'
  <1> USE ControlAssumption DEF ControlInv
  <1>1. CASE Publish(j) \/ Look(j) \/ Unindex(j)
    <2>1. PICK w \in {"look", "unindex", "over"} : fin' = [fin EXCEPT ![j] = w]
      BY <1>1, Zenon DEF Publish, Look, Unindex
    <2>2. fin[j] # "no" /\ UNCHANGED <<jobs, postAt, found, knows, told, timer, has, loop>>
      BY <1>1, Zenon DEF Publish, Look, Unindex, mapVars, postVars
    <2>3. index' \in [Cids -> Posts \cup {NoJob}]
      BY <1>1, Zenon DEF Publish, Look, Unindex, mapVars, ControlTypes
    <2> QED BY <2>1, <2>2, <2>3, Zenon DEF ControlTypes, EndsInv
  <1>2. CASE TimerFires(j)
    BY <1>2, Zenon DEF TimerFires, ControlTypes, EndsInv, mapVars, postVars, jobVars
  <1>3. CASE TimerFinalizes(j)
    <2>1. "timeout" \in Terminal
      BY Zenon DEF Terminal
    <2> QED BY <1>3, <2>1, FinalizeKeeps, Zenon DEF TimerFinalizes, ControlTypes, EndsInv, postVars
  <1> QED BY <1>1, <1>2, <1>3, Zenon DEF Job

(* The device's inbound loop.                                              *)
LEMMA LoopKeeps == ControlInv /\ Loop => ControlInv'
  <1> SUFFICES ASSUME ControlInv, Loop PROVE ControlInv'
    BY Zenon
  <1> USE ControlAssumption DEF ControlInv
  <1>0. loop' = Resting => ~(loop'.ev \in Outputs \cup Reports)
    BY DEF Resting, Outputs, Reports
  <1>1. CASE LoopPublish
    BY <1>0, <1>1, Zenon DEF LoopPublish, ControlTypes, EndsInv, mapVars, postVars, jobVars
  <1>2. CASE LoopFinalizes
    <2>1. loop.ev \in Terminal /\ loop.job \in Posts
      BY <1>2, Zenon DEF LoopFinalizes, Terminal, ControlTypes
    <2> QED BY <1>0, <1>2, <2>1, FinalizeKeeps, Zenon DEF LoopFinalizes, ControlTypes, EndsInv, postVars
  <1> QED BY <1>1, <1>2, Zenon DEF Loop

StreamStep ==
    \E s \in Streams : (\E j \in Posts : StreamGet(s, j)) \/ Subscribe(s) \/ Recv(s)

(* Every step of the tracker keeps an entry until its one finalize.        *)
LEMMA ControlInvStep == ControlInv /\ [ControlNext]_controlVars => ControlInv'
  <1> SUFFICES ASSUME ControlInv, [ControlNext]_controlVars PROVE ControlInv'
    BY Zenon
  <1>1. ASSUME NEW p \in Posts, Find(p) \/ Create(p) \/ Job(p) PROVE ControlInv'
    BY <1>1, CreateKeeps, JobKeeps, Zenon
  <1>2. ASSUME NEW j \in Posts, NEW ev \in Outputs \cup Reports, Frame(j, ev) PROVE ControlInv'
    BY <1>2, Zenon DEF Frame, ControlInv, ControlTypes, EndsInv, mapVars, postVars, jobVars
  <1>3. CASE StreamStep \/ UNCHANGED controlVars
    <2>1. UNCHANGED <<mapVars, postVars, jobVars, timer, has, loop>>
      BY <1>3, Zenon DEF StreamStep, StreamGet, Subscribe, Recv, controlVars
    <2> QED BY <2>1, Zenon DEF ControlInv, ControlTypes, EndsInv, mapVars, postVars, jobVars
  <1> QED BY <1>1, <1>2, <1>3, LoopKeeps, Zenon DEF ControlNext, StreamStep

----------------------------------------------------------------------------
(* The handler of a POST hands its job to the timeout task before it ends, *)
(* or takes it out.                                                        *)
LEMMA EnderStep == ControlInv /\ SomeoneWillEnd /\ [ControlNext]_controlVars => SomeoneWillEnd'
  <1> SUFFICES ASSUME ControlInv, SomeoneWillEnd, [ControlNext]_controlVars PROVE SomeoneWillEnd'
    BY Zenon
  <1> USE DEF SomeoneWillEnd, ControlInv, ControlTypes
  <1>1. ASSUME NEW p \in Posts, Find(p) \/ Check(p) \/ DropStale(p) \/ Index(p) PROVE SomeoneWillEnd'
    BY <1>1 DEF Find, Check, DropStale, Index, PostGoto, mapVars, EndsInv, Early
  <1>2. ASSUME NEW p \in Posts, InsertJob(p) \/ SendEnvelope(p) \/ Spawn(p) PROVE SomeoneWillEnd'
    BY <1>2 DEF InsertJob, SendEnvelope, Spawn, PostGoto, mapVars
  <1>3. ASSUME NEW p \in Posts, Rollback(p) PROVE SomeoneWillEnd'
    BY <1>3 DEF Rollback, Finalize, PostGoto
  <1>4. ASSUME NEW j \in Posts, Publish(j) \/ Look(j) \/ Unindex(j) PROVE SomeoneWillEnd'
    BY <1>4, Zenon DEF Publish, Look, Unindex, mapVars, postVars
  <1>5. ASSUME NEW j \in Posts, TimerFires(j) \/ TimerFinalizes(j) PROVE SomeoneWillEnd'
    BY <1>5 DEF TimerFires, TimerFinalizes, Finalize, mapVars, postVars
  <1>6. CASE Loop
    BY <1>6, Zenon DEF Loop, LoopPublish, LoopFinalizes, Finalize, mapVars, postVars
  <1>7. CASE \/ StreamStep \/ UNCHANGED controlVars
             \/ \E j \in Posts, ev \in Outputs \cup Reports : Frame(j, ev)
    BY <1>7, Zenon DEF StreamStep, StreamGet, Subscribe, Recv, Frame, controlVars, mapVars, postVars
  <1> QED BY <1>1, <1>2, <1>3, <1>4, <1>5, <1>6, <1>7, Zenon DEF ControlNext, Create, Job, StreamStep

----------------------------------------------------------------------------
(* Correlation ids.  Until two activities overlap, whoever is active under *)
(* an id is alone there: it has seen the index no one else changes, and no *)
(* job is live while it replaces or takes out the pointer.                 *)
Posting(p) == postAt[p] \in {"check", "stale", "index", "insert"}
Ending(p) == fin[p] \in {"send", "look", "unindex"}

QuietId(c) ==
    /\ \A j \in jobs : cid[j] = c => index[c] = j
    /\ \A p, q \in Posts :
          /\ cid[p] = c /\ (Posting(p) \/ Ending(p))
          /\ cid[q] = c /\ (Posting(q) \/ Ending(q))
          => p = q
    /\ \A p \in Posts : cid[p] = c /\ postAt[p] = "check" => found[p] = index[c]
    /\ \A p \in Posts : cid[p] = c /\ (postAt[p] \in {"stale", "index", "insert"} \/ Ending(p)) =>
                        \A j \in jobs : cid[j] # c
    /\ \A p \in Posts : cid[p] = c /\ postAt[p] = "insert" => index[c] = p

QuietInv == \A c \in Cids \ raced : QuietId(c)

(* Nobody is active under any id.                                          *)
LEMMA QuietInit == ControlInit => QuietInv
  BY DEF ControlInit, QuietInv, QuietId, Posting, Ending

(* Finalize marks the id as raced when somebody is active under it.        *)
LEMMA FinalizeQuiet ==
    ASSUME ControlInv, QuietInv, NEW j \in Posts, NEW ev \in Terminal, Finalize(j, ev),
           UNCHANGED <<index, found>>,
           \/ UNCHANGED postAt
           \/ postAt[j] = "rollback" /\ PostGoto(j, "answered")
    PROVE  QuietInv'
  <1> USE ControlAssumption DEF ControlInv, ControlTypes, EndsInv
  <1>0. \A p \in Posts : postAt'[p] # postAt[p] => postAt'[p] = "answered"
    BY Zenon DEF PostGoto
  <1>1. CASE j \notin jobs
    BY <1>0, <1>1 DEF Finalize, jobVars, QuietInv, QuietId, Posting, Ending
  <1>2. CASE j \in jobs
    <2>1. /\ jobs' = jobs \ {j}
          /\ fin' = [fin EXCEPT ![j] = "send"]
          /\ Overlaps(j)
      BY <1>2, Zenon DEF Finalize
    <2> SUFFICES ASSUME NEW c \in Cids, c \notin raced' PROVE QuietId(c)'
      BY Zenon DEF QuietInv
    <2>2. c \notin raced /\ QuietId(c) /\ (cid[j] = c => ~Busy(c))
      BY <2>1, Zenon DEF Overlaps, QuietInv
    <2>3. CASE cid[j] # c
      BY <1>0, <2>1, <2>2, <2>3 DEF QuietId, Posting, Ending
    <2>4. CASE cid[j] = c
      <3>1. \A p \in Posts : cid[p] = c => ~Posting(p) /\ ~Ending(p)
        BY <2>2, <2>4, Zenon DEF Busy, Posting, Ending
      <3>2. \A k \in jobs' : cid[k] # c
        BY <1>2, <2>1, <2>2, <2>4, Zenon DEF QuietId
      <3> QED BY <1>0, <2>1, <2>4, <3>1, <3>2 DEF QuietId, Posting, Ending
    <2> QED BY <2>3, <2>4, Zenon
  <1> QED BY <1>1, <1>2, Zenon

(* A POST is alone under its id, or marks the id as raced.                 *)
LEMMA PostQuiet ==
    ASSUME ControlInv, QuietInv, NEW p \in Posts, Find(p) \/ Create(p)
    PROVE  QuietInv'
  <1> USE ControlAssumption DEF ControlInv, ControlTypes, EndsInv
  <1>1. CASE Find(p)
    <2> SUFFICES ASSUME NEW c \in Cids, c \notin raced' PROVE QuietId(c)'
      BY Zenon DEF QuietInv
    <2>1. c \notin raced /\ QuietId(c) /\ (cid[p] = c => ~Busy(c))
      BY <1>1, Zenon DEF Find, Overlaps, QuietInv
    <2>2. UNCHANGED <<jobs, index, fin>>
      BY <1>1, Zenon DEF Find, mapVars, jobVars
    <2>3. CASE cid[p] # c
      <3>1. \A q \in Posts : cid[q] = c => postAt'[q] = postAt[q] /\ found'[q] = found[q]
        BY <1>1, <2>3 DEF Find, PostGoto
      <3> QED BY <2>1, <2>2, <2>3, <3>1 DEF QuietId, Posting, Ending
    <2>4. CASE cid[p] = c
      <3>1. \A q \in Posts : cid[q] = c => ~Posting(q) /\ ~Ending(q)
        BY <2>1, <2>4, Zenon DEF Busy, Posting, Ending
      <3>2. IF index[c] = NoJob THEN postAt' = [postAt EXCEPT ![p] = "index"] /\ found' = found
            ELSE postAt' = [postAt EXCEPT ![p] = "check"] /\ found' = [found EXCEPT ![p] = index[c]]
        BY <1>1, <2>4, Zenon DEF Find, PostGoto
      <3>3. index[c] = NoJob => \A j \in jobs : cid[j] # c
        BY <2>1 DEF QuietId
      <3> QED BY <2>1, <2>2, <2>4, <3>1, <3>2, <3>3 DEF QuietId, Posting, Ending
    <2> QED BY <2>3, <2>4, Zenon
  <1>2. CASE Check(p) \/ DropStale(p) \/ Index(p) \/ InsertJob(p)
    <2> SUFFICES ASSUME NEW c \in Cids, c \notin raced PROVE QuietId(c)'
      BY <1>2, Zenon DEF Check, DropStale, Index, InsertJob, QuietInv
    <2>1. QuietId(c)
      BY Zenon DEF QuietInv
    <2>2. UNCHANGED <<found, fin>> /\ Posting(p) /\ ~Ending(p) /\ postAt' = [postAt EXCEPT ![p] = postAt'[p]]
      BY <1>2 DEF Check, DropStale, Index, InsertJob, PostGoto, jobVars, Posting, Ending, Early
    <2>3. CASE cid[p] # c
      <3>1. index'[c] = index[c]
        BY <1>2, <2>3, Zenon DEF Check, DropStale, Index, InsertJob, mapVars
      <3>2. \A j \in jobs' : cid[j] = c => j \in jobs
        BY <1>2, <2>3 DEF Check, DropStale, Index, InsertJob, mapVars
      <3>3. \A q \in Posts : cid[q] = c => postAt'[q] = postAt[q]
        BY <2>2, <2>3, Zenon
      <3> QED BY <2>1, <2>2, <3>1, <3>2, <3>3 DEF QuietId, Posting, Ending
    <2>4. CASE cid[p] = c
      <3>1. \A q \in Posts : cid[q] = c /\ q # p => ~Posting(q) /\ ~Ending(q)
        BY <2>1, <2>2, <2>4, Zenon DEF QuietId
      <3>2. CASE Check(p)
        BY <2>1, <2>2, <2>4, <3>1, <3>2 DEF Check, PostGoto, mapVars, QuietId, Posting, Ending
      <3>3. CASE DropStale(p)
        BY <2>1, <2>2, <2>4, <3>1, <3>3 DEF DropStale, PostGoto, QuietId, Posting, Ending
      <3>4. CASE Index(p)
        BY <2>1, <2>2, <2>4, <3>1, <3>4 DEF Index, PostGoto, QuietId, Posting, Ending
      <3>5. CASE InsertJob(p)
        BY <2>1, <2>2, <2>4, <3>1, <3>5 DEF InsertJob, PostGoto, QuietId, Posting, Ending
      <3> QED BY <1>2, <3>2, <3>3, <3>4, <3>5, Zenon
    <2> QED BY <2>3, <2>4, Zenon
  <1>3. CASE SendEnvelope(p) \/ Spawn(p)
    <2>1. UNCHANGED <<jobs, index, found, fin, raced>>
      BY <1>3, Zenon DEF SendEnvelope, Spawn, mapVars, jobVars
    <2>2. \A q \in Posts : postAt'[q] # postAt[q] => postAt'[q] \notin Early
      BY <1>3 DEF SendEnvelope, Spawn, PostGoto, Early
    <2> QED BY <2>1, <2>2 DEF QuietInv, QuietId, Posting, Ending, Early
  <1>4. CASE Rollback(p)
    <2>1. "dispatch_failed" \in Terminal
      BY Zenon DEF Terminal
    <2> QED BY <1>4, <2>1, FinalizeQuiet, Zenon DEF Rollback
  <1> QED BY <1>1, <1>2, <1>3, <1>4, Zenon DEF Create

(* The end of a job is alone under its id, or marks the id as raced.       *)
LEMMA JobQuiet ==
    ASSUME ControlInv, QuietInv, NEW j \in Posts, Job(j)
    PROVE  QuietInv'
  <1> USE ControlAssumption DEF ControlInv, ControlTypes, EndsInv
  <1>1. CASE Publish(j) \/ Look(j)
    <2>1. UNCHANGED <<jobs, index, postAt, found, raced>>
      BY <1>1, Zenon DEF Publish, Look, mapVars, postVars
    <2>2. fin[j] \in {"send", "look"} /\ \A q \in Posts : q # j => fin'[q] = fin[q]
      BY <1>1 DEF Publish, Look
    <2> QED BY <2>1, <2>2 DEF QuietInv, QuietId, Posting, Ending
  <1>2. CASE Unindex(j)
    <2> SUFFICES ASSUME NEW c \in Cids, c \notin raced PROVE QuietId(c)'
      BY <1>2, Zenon DEF Unindex, QuietInv
    <2>1. QuietId(c)
      BY Zenon DEF QuietInv
    <2>2. UNCHANGED <<jobs, postAt, found>> /\ fin' = [fin EXCEPT ![j] = "over"] /\ fin[j] = "unindex"
      BY <1>2, Zenon DEF Unindex, postVars
    <2>3. ~Posting(j)
      BY <2>2, Zenon DEF Posting, Early
    <2>4. CASE cid[j] # c
      <3>1. index'[c] = index[c]
        BY <1>2, <2>4, Zenon DEF Unindex
      <3> QED BY <2>1, <2>2, <2>4, <3>1 DEF QuietId, Posting, Ending
    <2>5. CASE cid[j] = c
      <3>1. \A q \in Posts : cid[q] = c /\ q # j => ~Posting(q) /\ ~Ending(q)
        BY <2>1, <2>2, <2>5, Zenon DEF QuietId, Ending
      <3>2. \A k \in jobs : cid[k] # c
        BY <2>1, <2>2, <2>5, Zenon DEF QuietId, Ending
      <3> QED BY <2>2, <2>3, <2>5, <3>1, <3>2 DEF QuietId, Posting, Ending
    <2> QED BY <2>4, <2>5, Zenon
  <1>3. CASE TimerFires(j)
    BY <1>3 DEF TimerFires, QuietInv, QuietId, Posting, Ending, mapVars, postVars, jobVars
  <1>4. CASE TimerFinalizes(j)
    <2>1. "timeout" \in Terminal
      BY Zenon DEF Terminal
    <2> QED BY <1>4, <2>1, FinalizeQuiet, Zenon DEF TimerFinalizes, postVars
  <1> QED BY <1>1, <1>2, <1>3, <1>4, Zenon DEF Job

(* Every step keeps quiet ids unique.                                      *)
LEMMA QuietStep == ControlInv /\ QuietInv /\ [ControlNext]_controlVars => QuietInv'
  <1> SUFFICES ASSUME ControlInv, QuietInv, [ControlNext]_controlVars PROVE QuietInv'
    BY Zenon
  <1>1. ASSUME NEW p \in Posts, Find(p) \/ Create(p) \/ Job(p) PROVE QuietInv'
    BY <1>1, PostQuiet, JobQuiet, Zenon
  <1>2. CASE LoopFinalizes
    <2>1. loop.ev \in Terminal /\ loop.job \in Posts
      BY <1>2, Zenon DEF LoopFinalizes, Terminal, ControlInv, ControlTypes
    <2> QED BY <1>2, <2>1, FinalizeQuiet, Zenon DEF LoopFinalizes, postVars
  <1>3. CASE \/ LoopPublish \/ StreamStep \/ UNCHANGED controlVars
             \/ \E j \in Posts, ev \in Outputs \cup Reports : Frame(j, ev)
    <2>1. UNCHANGED <<mapVars, postVars, jobVars, raced>>
      BY <1>3, Zenon DEF LoopPublish, StreamStep, StreamGet, Subscribe, Recv, Frame, controlVars
    <2> QED BY <2>1 DEF QuietInv, QuietId, Posting, Ending, mapVars, postVars, jobVars
  <1> QED BY <1>1, <1>2, <1>3, Zenon DEF ControlNext, Loop, StreamStep

----------------------------------------------------------------------------
(* Streams.  A receiver's queue.                                           *)
Events == Outputs \cup Terminal
Published(j) == fin[j] \in {"look", "unindex", "over"}

StreamType(x) ==
    /\ DOMAIN x = {"at", "job", "queue", "lag", "late", "end"}
    /\ x.queue \in Seq(Events)
    /\ x.lag \in BOOLEAN /\ x.late \in BOOLEAN
    /\ x.at \in {"idle", "got", "open", "ended"}
    /\ x.at # "idle" => x.job \in Posts
    /\ x.at \in {"idle", "got"} => x.queue = <<>> /\ x.end = NoJob

(* The terminal event is the last one queued, once finalize has published  *)
(* it; a receiver that was there in time has it, unless it fell behind.    *)
StreamTold(x) ==
    /\ \A i \in DOMAIN x.queue : x.queue[i] \in Terminal =>
          i = Len(x.queue) /\ x.queue[i] = told[x.job] /\ Published(x.job)
    /\ x.at = "open" /\ ~x.late /\ Published(x.job) =>
          x.lag \/ (x.queue # <<>> /\ x.queue[Len(x.queue)] \in Terminal)
    /\ x.end = "closed" => x.late

StreamInv == DOMAIN sub = Streams /\ \A s \in Streams : StreamType(sub[s]) /\ StreamTold(sub[s])

(* No stream is open.                                                      *)
LEMMA StreamInit == ControlInit => StreamInv
  <1> SUFFICES ASSUME ControlInit PROVE StreamInv
    BY Zenon
  <1>1. ASSUME NEW s \in Streams PROVE sub[s] = NoStream
    BY Zenon DEF ControlInit
  <1>2. StreamType(NoStream)
    BY DEF StreamType, NoStream
  <1>3. StreamTold(NoStream)
    BY ControlAssumption DEF StreamTold, NoStream
  <1> QED BY <1>1, <1>2, <1>3, Zenon DEF ControlInit, StreamInv

(* What finalize does before and after it publishes.                       *)
LEMMA SameTelling ==
    ASSUME StreamInv, UNCHANGED sub,
           \A j \in Posts : Published(j)' <=> Published(j),
           \A j \in Posts : Published(j) => told'[j] = told[j]
    PROVE  StreamInv'
  <1> SUFFICES ASSUME NEW s \in Streams PROVE StreamTold(sub[s])'
    BY Zenon DEF StreamInv, StreamType
  <1>1. StreamType(sub[s]) /\ StreamTold(sub[s])
    BY Zenon DEF StreamInv
  <1>2. CASE sub[s].at = "idle"
    BY <1>1, <1>2 DEF StreamType, StreamTold
  <1>3. CASE sub[s].job \in Posts
    BY <1>1, <1>3, Zenon DEF StreamType, StreamTold
  <1> QED BY <1>1, <1>2, <1>3, Zenon DEF StreamType

(* An output event: finalize has not begun, so no queue has a terminal.    *)
LEMMA OutputSent ==
    ASSUME ControlInv, StreamInv, NEW j \in jobs, NEW ev \in Outputs, sub' = Sent(j, ev),
           UNCHANGED jobVars
    PROVE  StreamInv'
  <1> SUFFICES ASSUME NEW s \in Streams PROVE StreamType(sub'[s]) /\ StreamTold(sub[s])'
    BY Zenon DEF StreamInv, Sent, StreamType
  <1> DEFINE x == sub[s]
  <1>1. StreamType(x) /\ StreamTold(x)
    BY Zenon DEF StreamInv
  <1>2. ~Published(j) /\ j \in Posts /\ UNCHANGED <<fin, told>>
    BY Zenon DEF ControlInv, ControlTypes, EndsInv, Published, jobVars
  <1>3. CASE sub'[s] = x
    BY <1>1, <1>2, <1>3 DEF StreamType, StreamTold, Published
  <1>4. CASE x.at = "open" /\ x.job = j /\ sub'[s] = [x EXCEPT !.lag = TRUE]
    BY <1>1, <1>2, <1>4, Zenon DEF StreamType, StreamTold, Published
  <1>5. CASE x.at = "open" /\ x.job = j /\ sub'[s] = [x EXCEPT !.queue = Append(@, ev)]
    <2>1. x.queue \in Seq(Events) /\ ev \in Events /\ ev \notin Terminal
      BY <1>1, Zenon DEF StreamType, Events, Outputs, Terminal, Reports
    <2>2. \A i \in DOMAIN x.queue : x.queue[i] \notin Terminal
      BY <1>1, <1>2, <1>5, Zenon DEF StreamTold
    <2>3. \A i \in DOMAIN Append(x.queue, ev) : Append(x.queue, ev)[i] \notin Terminal
      BY <2>1, <2>2
    <2>4. Append(x.queue, ev) \in Seq(Events)
      BY <2>1
    <2>5. sub'[s].queue = Append(x.queue, ev) /\ sub'[s].job = j /\ sub'[s].at = "open"
          /\ sub'[s].lag = x.lag /\ sub'[s].late = x.late /\ sub'[s].end = x.end
          /\ DOMAIN sub'[s] = DOMAIN x
      BY <1>1, <1>5, Zenon DEF StreamType
    <2>6. StreamType(sub'[s])
      BY <1>1, <1>2, <2>4, <2>5, Zenon DEF StreamType
    <2>7. StreamTold(sub[s])'
      BY <1>1, <1>2, <2>3, <2>5, Zenon DEF StreamTold, Published
    <2> QED BY <2>6, <2>7, Zenon
  <1> QED BY <1>3, <1>4, <1>5, Zenon DEF Sent

(* The terminal event: it is sent once, to every receiver there is.        *)
LEMMA TerminalSent ==
    ASSUME ControlInv, StreamInv, NEW j \in Posts, Publish(j)
    PROVE  StreamInv'
  <1> DEFINE ev == told[j]
  <1>0. fin[j] = "send" /\ sub' = Sent(j, ev) /\ UNCHANGED told /\ ev \in Terminal
    BY Zenon DEF Publish, ControlInv, EndsInv
  <1>1. ~Published(j) /\ Published(j)' /\ \A k \in Posts : k # j => (Published(k)' <=> Published(k))
    BY <1>0, Zenon DEF Publish, Published, ControlInv, ControlTypes
  <1> SUFFICES ASSUME NEW s \in Streams PROVE StreamType(sub'[s]) /\ StreamTold(sub[s])'
    BY <1>0, Zenon DEF StreamInv, Sent, StreamType
  <1> DEFINE x == sub[s]
  <1>2. StreamType(x) /\ StreamTold(x)
    BY Zenon DEF StreamInv
  <1>3. CASE sub'[s] = x /\ (x.at # "open" \/ x.job # j)
    <2>1. CASE x.at = "idle"
      BY <1>2, <1>3, <2>1 DEF StreamType, StreamTold
    <2>2. CASE x.at # "idle"
      BY <1>0, <1>1, <1>2, <1>3, <2>2, Zenon DEF StreamType, StreamTold
    <2> QED BY <2>1, <2>2, Zenon
  <1>4. CASE x.at = "open" /\ x.job = j /\ sub'[s] = [x EXCEPT !.lag = TRUE]
    BY <1>0, <1>1, <1>2, <1>4 DEF StreamType, StreamTold
  <1>5. CASE x.at = "open" /\ x.job = j /\ sub'[s] = [x EXCEPT !.queue = Append(@, ev)]
    <2> DEFINE q == Append(x.queue, ev)
    <2>1. x.queue \in Seq(Events) /\ ev \in Events
      BY <1>0, <1>2, Zenon DEF StreamType, Events
    <2>2. \A i \in DOMAIN x.queue : x.queue[i] \notin Terminal
      BY <1>1, <1>2, <1>5, Zenon DEF StreamTold
    <2>3. /\ q \in Seq(Events) /\ q # <<>> /\ q[Len(q)] = ev
          /\ \A i \in DOMAIN q : q[i] \in Terminal => i = Len(q)
      BY <2>1, <2>2
    <2>4. sub'[s].queue = q /\ sub'[s].job = j /\ sub'[s].at = "open"
          /\ sub'[s].lag = x.lag /\ sub'[s].late = x.late /\ sub'[s].end = x.end
          /\ DOMAIN sub'[s] = DOMAIN x
      BY <1>2, <1>5, Zenon DEF StreamType
    <2> HIDE DEF q
    <2>5. StreamType(sub'[s])
      BY <1>2, <2>3, <2>4, Zenon DEF StreamType
    <2>6. StreamTold(sub[s])'
      BY <1>0, <1>1, <1>2, <2>3, <2>4, Zenon DEF StreamTold
    <2> QED BY <2>5, <2>6, Zenon
  <1> QED BY <1>0, <1>3, <1>4, <1>5, Zenon DEF Sent

(* The stream's own handler.                                               *)
LEMMA ReaderKeeps ==
    ASSUME ControlInv, StreamInv, NEW s \in Streams,
           (\E j \in Posts : StreamGet(s, j)) \/ Subscribe(s) \/ Recv(s)
    PROVE  StreamInv'
  <1> DEFINE x == sub[s]
  <1>0. UNCHANGED <<fin, told>>
    BY Zenon DEF StreamGet, Subscribe, Recv, jobVars
  <1>1. StreamType(x) /\ StreamTold(x)
    BY Zenon DEF StreamInv
  <1>2. DOMAIN sub' = Streams /\ \A t \in Streams : t # s => sub'[t] = sub[t]
    BY Zenon DEF StreamGet, Subscribe, Recv, End, StreamInv
  <1>3. ASSUME StreamType(sub'[s]), StreamTold(sub[s])' PROVE StreamInv'
    <2> SUFFICES ASSUME NEW t \in Streams, t # s PROVE StreamType(sub'[t]) /\ StreamTold(sub[t])'
      BY <1>2, <1>3, Zenon DEF StreamInv, StreamType
    <2>1. StreamType(sub[t]) /\ StreamTold(sub[t]) /\ sub'[t] = sub[t]
      BY <1>2, Zenon DEF StreamInv
    <2> QED BY <1>0, <2>1, Zenon DEF StreamType, StreamTold, Published
  <1>4. ASSUME NEW j \in Posts, StreamGet(s, j) PROVE StreamInv'
    <2>1. /\ DOMAIN sub'[s] = DOMAIN x
          /\ sub'[s].at \in {"got", "ended"} /\ sub'[s].job = j /\ sub'[s].queue = x.queue
          /\ sub'[s].lag = x.lag /\ sub'[s].late = x.late
          /\ sub'[s].end \in {NoJob, "404"} /\ (sub'[s].at = "got" => sub'[s].end = NoJob)
      BY <1>1, <1>4, Zenon DEF StreamGet, StreamInv, StreamType
    <2>2. x.queue = <<>>
      BY <1>1, <1>4, Zenon DEF StreamGet, StreamType
    <2>3. StreamType(sub'[s])
      BY <1>1, <2>1, <2>2, Zenon DEF StreamType
    <2>4. StreamTold(sub[s])'
      BY ControlAssumption, <2>1, <2>2 DEF StreamTold
    <2> QED BY <1>3, <2>3, <2>4, Zenon
  <1>5. CASE Subscribe(s)
    <2>1. /\ DOMAIN sub'[s] = DOMAIN x
          /\ sub'[s].at = "open" /\ sub'[s].job = x.job /\ sub'[s].queue = x.queue
          /\ sub'[s].lag = x.lag /\ sub'[s].late = (fin[x.job] \notin {"no", "send"})
          /\ sub'[s].end = x.end
      BY <1>1, <1>5, Zenon DEF Subscribe, StreamInv, StreamType
    <2>2. x.queue = <<>> /\ x.job \in Posts /\ x.end = NoJob
      BY <1>1, <1>5, Zenon DEF Subscribe, StreamType
    <2>3. StreamType(sub'[s])
      BY <1>1, <2>1, <2>2, Zenon DEF StreamType
    <2>4. Published(x.job)' => sub'[s].late
      BY <1>0, <2>1, Zenon DEF Published
    <2>5. StreamTold(sub[s])'
      BY ControlAssumption, <2>1, <2>2, <2>4 DEF StreamTold
    <2> QED BY <1>3, <2>3, <2>5, Zenon
  <1>6. CASE Recv(s)
    <2>0. x.at = "open" /\ x.job \in Posts
      BY <1>1, <1>6, Zenon DEF Recv, StreamType
    <2>1. ASSUME NEW how \in {"lagged", "terminal", "closed"}, End(s, how), how = "closed" => x.late
          PROVE  StreamInv'
      <3>1. /\ DOMAIN sub'[s] = DOMAIN x
            /\ sub'[s].at = "ended" /\ sub'[s].job = x.job /\ sub'[s].queue = x.queue
            /\ sub'[s].lag = x.lag /\ sub'[s].late = x.late /\ sub'[s].end = how
        BY <1>1, <2>1, Zenon DEF End, StreamInv, StreamType
      <3>2. StreamType(sub'[s])
        BY <1>1, <2>0, <3>1, Zenon DEF StreamType
      <3>3. StreamTold(sub[s])'
        BY <1>0, <1>1, <2>1, <3>1, Zenon DEF StreamTold, Published
      <3> QED BY <1>3, <3>2, <3>3, Zenon
    <2>2. CASE x.queue # <<>> /\ Head(x.queue) \notin Terminal /\ sub' = [sub EXCEPT ![s].queue = Tail(x.queue)]
      <3> DEFINE q == Tail(x.queue)
      <3>1. /\ DOMAIN sub'[s] = DOMAIN x
            /\ sub'[s].at = "open" /\ sub'[s].job = x.job /\ sub'[s].queue = q
            /\ sub'[s].lag = x.lag /\ sub'[s].late = x.late /\ sub'[s].end = x.end
        BY <1>1, <2>0, <2>2, Zenon DEF StreamInv, StreamType
      <3>2. x.queue \in Seq(Events)
        BY <1>1, Zenon DEF StreamType
      <3>3. /\ q \in Seq(Events) /\ Len(q) = Len(x.queue) - 1
            /\ \A i \in DOMAIN q : i + 1 \in DOMAIN x.queue /\ q[i] = x.queue[i + 1]
        BY <2>2, <3>2
      <3>4. x.queue[Len(x.queue)] \in Terminal => q # <<>> /\ q[Len(q)] = x.queue[Len(x.queue)]
        <4>1. Len(x.queue) \in Nat \ {0} /\ Head(x.queue) = x.queue[1]
          BY <2>2, <3>2
        <4>2. CASE Len(x.queue) = 1
          BY <2>2, <4>1, <4>2, Zenon
        <4>3. CASE Len(x.queue) > 1
          <5>1. Len(q) \in DOMAIN q /\ Len(q) + 1 = Len(x.queue)
            BY <3>3, <4>1, <4>3
          <5>2. q[Len(q)] = x.queue[Len(q) + 1]
            BY <3>3, <5>1, Zenon
          <5>3. q # <<>>
            BY <4>1, <4>3
          <5> QED BY <5>1, <5>2, <5>3, Zenon
        <4>4. Len(x.queue) = 1 \/ Len(x.queue) > 1
          <5> DEFINE n == Len(x.queue)
          <5>1. n \in Nat /\ n # 0
            BY <2>2, <3>2
          <5> HIDE DEF n
          <5>2. n = 1 \/ n > 1
            BY <5>1
          <5> QED BY <5>2, Zenon DEF n
        <4> QED BY <4>2, <4>3, <4>4, Zenon
      <3> HIDE DEF q
      <3>5. StreamType(sub'[s])
        BY <1>1, <2>0, <3>1, <3>3, Zenon DEF StreamType
      <3>6. \A i \in DOMAIN q : q[i] \in Terminal =>
               i = Len(q) /\ q[i] = told[x.job] /\ Published(x.job)
        <4> SUFFICES ASSUME NEW i \in DOMAIN q, q[i] \in Terminal
                     PROVE  i = Len(q) /\ q[i] = told[x.job] /\ Published(x.job)
          BY Zenon
        <4>1. i + 1 = Len(x.queue) /\ q[i] = told[x.job] /\ Published(x.job)
          BY <1>1, <3>3, Zenon DEF StreamTold
        <4>2. i \in Nat /\ Len(x.queue) \in Nat
          BY <3>2, <3>3
        <4> QED BY <3>3, <4>1, <4>2
      <3>7. x.at = "open" /\ ~x.late /\ Published(x.job) => x.lag \/ (q # <<>> /\ q[Len(q)] \in Terminal)
        BY <1>1, <3>4, Zenon DEF StreamTold
      <3>8. StreamTold(sub[s])'
        BY <1>0, <1>1, <2>0, <3>1, <3>6, <3>7 DEF StreamTold, Published
      <3> QED BY <1>3, <3>5, <3>8, Zenon
    <2>3. ~x.lag /\ x.queue = <<>> /\ Closed(x.job) => x.late
      BY <1>1, <2>0, Zenon DEF StreamTold, Closed, Published
    <2> QED BY <1>6, <2>1, <2>2, <2>3, Zenon DEF Recv
  <1> QED BY <1>4, <1>5, <1>6, Zenon

(* Every step keeps the terminal event last and in every queue that was    *)
(* there in time.                                                          *)
LEMMA StreamInvStep == ControlInv /\ StreamInv /\ [ControlNext]_controlVars => StreamInv'
  <1> SUFFICES ASSUME ControlInv, StreamInv, [ControlNext]_controlVars PROVE StreamInv'
    BY Zenon
  <1>1. ASSUME NEW j \in Posts, NEW ev, Finalize(j, ev), UNCHANGED sub PROVE StreamInv'
    <2>1. \A k \in Posts : (Published(k)' <=> Published(k)) /\ (Published(k) => told'[k] = told[k])
      BY <1>1 DEF Finalize, Published, jobVars, ControlInv, ControlTypes, EndsInv
    <2> QED BY <1>1, <2>1, SameTelling, Zenon
  <1>2. ASSUME UNCHANGED <<sub, jobVars>> PROVE StreamInv'
    BY <1>2, SameTelling, Zenon DEF jobVars, Published
  <1>3. ASSUME NEW p \in Posts, Find(p) \/ Create(p) PROVE StreamInv'
    <2>1. CASE Rollback(p)
      BY <1>1, <2>1, Zenon DEF Rollback
    <2>2. CASE ~Rollback(p)
      BY <1>2, <1>3, <2>2, Zenon DEF Find, Create, Check, DropStale, Index, InsertJob, SendEnvelope, Spawn
    <2> QED BY <2>1, <2>2, Zenon
  <1>4. ASSUME NEW j \in Posts, Job(j) PROVE StreamInv'
    <2>1. CASE Look(j) \/ Unindex(j)
      <3>1. UNCHANGED <<sub, told>> /\ \A k \in Posts : Published(k)' <=> Published(k)
        BY <2>1, Zenon DEF Look, Unindex, Published, ControlInv, ControlTypes
      <3> QED BY <3>1, SameTelling, Zenon
    <2>2. CASE TimerFires(j)
      BY <1>2, <2>2, Zenon DEF TimerFires
    <2>3. CASE TimerFinalizes(j)
      BY <1>1, <2>3, Zenon DEF TimerFinalizes
    <2> QED BY <1>4, <2>1, <2>2, <2>3, TerminalSent, Zenon DEF Job
  <1>5. CASE LoopPublish
    <2>1. CASE loop.job \in jobs
      BY <1>5, <2>1, OutputSent, Zenon DEF LoopPublish
    <2>2. CASE loop.job \notin jobs
      BY <1>2, <1>5, <2>2, Zenon DEF LoopPublish
    <2> QED BY <2>1, <2>2, Zenon
  <1>6. CASE LoopFinalizes
    BY <1>1, <1>6, Zenon DEF LoopFinalizes, ControlInv, ControlTypes
  <1>7. ASSUME NEW j \in Posts, NEW ev \in Outputs \cup Reports, Frame(j, ev) PROVE StreamInv'
    BY <1>2, <1>7, Zenon DEF Frame
  <1>8. CASE UNCHANGED controlVars
    BY <1>2, <1>8, Zenon DEF controlVars
  <1> QED BY <1>3, <1>4, <1>5, <1>6, <1>7, <1>8, ReaderKeeps, Zenon DEF ControlNext, Loop

(* The control plane's jobs end once, for every stream in the same way; a  *)
(* stream that subscribed in time is told; a quiet correlation id leads to *)
(* its one live job; a live job has someone who will end it.  The maps are *)
(* separate DashMaps that no lock spans, and every handler may be between  *)
(* two accesses.                                                           *)
THEOREM ControlJobsEndOnce == ControlSpec => []JobsEndOnce
  <1>1. ControlInit => SomeoneWillEnd
    BY Zenon DEF ControlInit, SomeoneWillEnd
  <1>2. StreamInv => TerminalLast /\ SilentOnlyLate
    BY Zenon DEF StreamInv, StreamTold, TerminalLast, SilentOnlyLate
  <1>3. QuietInv => QuietIdsUnique
    BY Zenon DEF QuietInv, QuietId, QuietIdsUnique
  <1>4. StreamInv /\ QuietInv /\ SomeoneWillEnd => JobsEndOnce
    BY <1>2, <1>3, Zenon DEF JobsEndOnce
  <1> QED BY <1>1, <1>4, ControlInvInit, ControlInvStep, EnderStep, QuietInit, QuietStep,
             StreamInit, StreamInvStep, PTL DEF ControlSpec

----------------------------------------------------------------------------
(* The audit writer.                                                       *)

(* The entries in its channel.                                             *)
AuditQueued == {auditQueue[i] : i \in DOMAIN auditQueue}

AuditTypes ==
    /\ entryPc \in [AuditEntries -> {"new", "sending", "direct", "spilled", "done"}]
    /\ auditQueue \in Seq(AuditEntries) /\ auditBuffer \in Seq(AuditEntries)
    /\ auditStored \in [AuditEntries -> Nat]
    /\ auditTx \in BOOLEAN

(* The channel and the batch hold entries whose append() returned, each    *)
(* once; the writer rests with an empty batch, and ends after its senders. *)
OneCopy ==
    /\ \A i, j \in DOMAIN auditQueue : auditQueue[i] = auditQueue[j] => i = j
    /\ AuditQueued \cup Batched \subseteq AtPc("done")
    /\ AuditQueued \cap Batched = {}
    /\ writerPc \in {"recv", "ended", "exited"} => auditBuffer = <<>>
    /\ writerPc \in {"ended", "exited"} => auditQueue = <<>> /\ AtPc("sending") = {}
    /\ writerPc = "ended" => ~auditTx

(* An entry with writing still before it was written by nobody, unless in  *)
(* doubt; one that is through was written once.                            *)
Ahead(e) == entryPc[e] # "done" \/ e \in AuditQueued \cup Batched
WrittenOnce ==
    \A e \in AuditEntries :
        \/ e \in auditDoubt
        \/ auditStored[e] = 0 /\ (Ahead(e) => e \notin auditFile)
        \/ auditStored[e] = 1 /\ ~Ahead(e) /\ e \notin auditFile

AuditInv == AuditTypes /\ OneCopy /\ WrittenOnce /\ EveryEntryKept

(* The entries of a sequence with one more at its end, and of the rest of  *)
(* one whose head is taken.                                                *)
LEMMA AuditSeqs ==
    ASSUME NEW q \in Seq(AuditEntries)
    PROVE  /\ \A e \in AuditEntries :
                 /\ Append(q, e) \in Seq(AuditEntries)
                 /\ {Append(q, e)[i] : i \in DOMAIN Append(q, e)} = {q[i] : i \in DOMAIN q} \cup {e}
           /\ q # <<>> =>
                 /\ Head(q) \in AuditEntries /\ Tail(q) \in Seq(AuditEntries)
                 /\ {q[i] : i \in DOMAIN q} = {Head(q)} \cup {Tail(q)[i] : i \in DOMAIN Tail(q)}
  <1>1. ASSUME NEW e \in AuditEntries
        PROVE  /\ Append(q, e) \in Seq(AuditEntries)
               /\ {Append(q, e)[i] : i \in DOMAIN Append(q, e)} = {q[i] : i \in DOMAIN q} \cup {e}
    <2> DEFINE a == Append(q, e)
    <2>1. /\ a \in Seq(AuditEntries) /\ DOMAIN q = 1..Len(q) /\ DOMAIN a = 1..(Len(q) + 1)
          /\ a[Len(q) + 1] = e /\ \A i \in 1..Len(q) : a[i] = q[i]
      BY SMT
    <2>2. Len(q) + 1 \in DOMAIN a /\ \A i \in DOMAIN a : i \in DOMAIN q \/ i = Len(q) + 1
      BY <2>1, SMT
    <2>3. \A i \in DOMAIN q : i \in DOMAIN a /\ a[i] = q[i]
      BY <2>1, SMT
    <2> HIDE DEF a
    <2>4. {a[i] : i \in DOMAIN a} = {q[i] : i \in DOMAIN q} \cup {e}
      BY <2>1, <2>2, <2>3, Zenon
    <2> QED BY <2>1, <2>4, Zenon DEF a
  <1>2. ASSUME q # <<>>
        PROVE  /\ Head(q) \in AuditEntries /\ Tail(q) \in Seq(AuditEntries)
               /\ {q[i] : i \in DOMAIN q} = {Head(q)} \cup {Tail(q)[i] : i \in DOMAIN Tail(q)}
    <2> DEFINE t == Tail(q)
    <2>1. /\ t \in Seq(AuditEntries) /\ DOMAIN t = 1..(Len(q) - 1) /\ DOMAIN q = 1..Len(q) /\ Len(q) \in Nat \ {0}
          /\ \A i \in 1..(Len(q) - 1) : t[i] = q[i + 1]
          /\ Head(q) = q[1] /\ 1 \in DOMAIN q /\ Head(q) \in AuditEntries
      BY <1>2, SMT
    <2>2. \A i \in DOMAIN q : i = 1 \/ \E j \in DOMAIN t : t[j] = q[i]
      <3> TAKE i \in DOMAIN q
      <3>1. i # 1 => i - 1 \in DOMAIN t /\ t[i - 1] = q[i]
        BY <2>1, SMT
      <3> QED BY <3>1, Zenon
    <2>3. \A j \in DOMAIN t : \E i \in DOMAIN q : q[i] = t[j]
      <3> TAKE j \in DOMAIN t
      <3>1. j + 1 \in DOMAIN q /\ q[j + 1] = t[j]
        BY <2>1, SMT
      <3> QED BY <3>1, Zenon
    <2> DEFINE h == Head(q)
    <2>3a. h = q[1] /\ 1 \in DOMAIN q
      BY <2>1, Zenon
    <2> HIDE DEF t, h
    <2>4a. {q[i] : i \in DOMAIN q} \subseteq {h} \cup {t[i] : i \in DOMAIN t}
      <3> SUFFICES ASSUME NEW i \in DOMAIN q PROVE q[i] \in {h} \cup {t[j] : j \in DOMAIN t}
        BY Zenon
      <3> QED BY <2>2, <2>3a, Zenon
    <2>4b. {h} \cup {t[i] : i \in DOMAIN t} \subseteq {q[i] : i \in DOMAIN q}
      BY <2>3, <2>3a, Zenon
    <2>4. {q[i] : i \in DOMAIN q} = {h} \cup {t[i] : i \in DOMAIN t}
      BY <2>4a, <2>4b, Zenon
    <2> QED BY <2>1, <2>4, Zenon DEF t, h
  <1> QED BY <1>1, <1>2, Zenon

(* Without repetitions a sequence keeps none of what is appended fresh or  *)
(* taken from its head.                                                    *)
LEMMA AuditDistinct ==
    ASSUME NEW q \in Seq(AuditEntries), \A i, j \in DOMAIN q : q[i] = q[j] => i = j
    PROVE  /\ \A e \in AuditEntries : e \notin {q[i] : i \in DOMAIN q} =>
                 \A i, j \in DOMAIN Append(q, e) : Append(q, e)[i] = Append(q, e)[j] => i = j
           /\ q # <<>> =>
                 /\ \A i, j \in DOMAIN Tail(q) : Tail(q)[i] = Tail(q)[j] => i = j
                 /\ Head(q) \notin {Tail(q)[i] : i \in DOMAIN Tail(q)}
  <1>1. ASSUME NEW e \in AuditEntries, e \notin {q[i] : i \in DOMAIN q},
               NEW i \in DOMAIN Append(q, e), NEW j \in DOMAIN Append(q, e), Append(q, e)[i] = Append(q, e)[j]
        PROVE  i = j
    <2> DEFINE a == Append(q, e)
    <2>1. /\ DOMAIN q = 1..Len(q) /\ DOMAIN a = 1..(Len(q) + 1) /\ Len(q) \in Nat
          /\ a[Len(q) + 1] = e /\ \A k \in 1..Len(q) : a[k] = q[k]
      BY SMT
    <2>2. \A k \in DOMAIN q : q[k] # e
      BY <1>1, Zenon
    <2>3. a[i] = a[j] /\ i \in DOMAIN a /\ j \in DOMAIN a
      BY <1>1, Zenon
    <2> HIDE DEF a
    <2> QED BY <2>1, <2>2, <2>3, SMT
  <1>2. ASSUME q # <<>>
        PROVE  /\ \A i, j \in DOMAIN Tail(q) : Tail(q)[i] = Tail(q)[j] => i = j
               /\ Head(q) \notin {Tail(q)[i] : i \in DOMAIN Tail(q)}
    <2> DEFINE t == Tail(q)
    <2>1. /\ DOMAIN t = 1..(Len(q) - 1) /\ DOMAIN q = 1..Len(q) /\ Len(q) \in Nat \ {0}
          /\ \A i \in 1..(Len(q) - 1) : t[i] = q[i + 1]
          /\ Head(q) = q[1]
      BY <1>2, SMT
    <2> HIDE DEF t
    <2>2. \A i, j \in DOMAIN t : t[i] = t[j] => i = j
      BY <2>1, SMT
    <2>3. \A i \in DOMAIN t : t[i] # Head(q)
      BY <2>1, SMT
    <2> QED BY <2>2, <2>3, Zenon DEF t
  <1> QED BY <1>1, <1>2, Zenon

(* The channel and the batch do not change when their sequences do not.    *)
LEMMA SameHeld ==
    ASSUME auditQueue' = auditQueue, auditBuffer' = auditBuffer
    PROVE  AuditQueued' = AuditQueued /\ Batched' = Batched
  BY Zenon DEF AuditQueued, Batched

(* What holds of an entry whose append() has not returned.                 *)
LEMMA StillAppending ==
    ASSUME AuditInv, NEW e \in AuditEntries, entryPc[e] # "done"
    PROVE  /\ e \notin AuditQueued \cup Batched
           /\ e \in auditDoubt \/ (auditStored[e] = 0 /\ e \notin auditFile)
  BY Zenon DEF AuditInv, OneCopy, WrittenOnce, Ahead, AtPc

(* An entry is found in the channel or is one of AuditQueued.              *)
LEMMA KeptSets ==
    /\ EveryEntryKept <=> \A e \in AtPc("done") :
          \/ e \in AuditQueued \cup Batched \cup auditFile \cup auditLost \/ auditStored[e] > 0
    /\ EveryEntryKept' <=> \A e \in AtPc("done")' :
          \/ e \in AuditQueued' \cup Batched' \cup auditFile' \cup auditLost' \/ auditStored'[e] > 0
  BY Zenon DEF EveryEntryKept, AuditQueued

(* append() goes on without leaving anything behind.                       *)
LEMMA AppendGoesOn ==
    ASSUME AuditInv, NEW e \in AuditEntries, entryPc[e] # "done",
           NEW pc \in {"sending", "direct", "spilled"}, EntryTo(e, pc),
           pc = "sending" => writerPc \notin {"ended", "exited"},
           auditTx' = auditTx, auditQueue' = auditQueue, auditBuffer' = auditBuffer, writerPc' = writerPc,
           auditFile' = auditFile, auditLost' = auditLost, auditDoubt \subseteq auditDoubt',
           auditStored' \in [AuditEntries -> Nat],
           \A f \in AuditEntries : f # e => auditStored'[f] = auditStored[f],
           auditStored'[e] = auditStored[e] \/ e \in auditDoubt'
    PROVE  AuditInv'
  <1>1. /\ entryPc' \in [AuditEntries -> {"new", "sending", "direct", "spilled", "done"}]
        /\ entryPc'[e] = pc /\ \A f \in AuditEntries : f # e => entryPc'[f] = entryPc[f]
    BY Zenon DEF AuditInv, AuditTypes, EntryTo
  <1>2. \A f \in AuditEntries : entryPc'[f] = "done" <=> entryPc[f] = "done"
    BY <1>1, Zenon
  <1>3. AtPc("done")' = AtPc("done") /\ (AtPc("sending") = {} /\ pc # "sending" => AtPc("sending")' = {})
    BY <1>1, <1>2, Zenon DEF AtPc
  <1>4. AuditTypes'
    BY <1>1, Zenon DEF AuditInv, AuditTypes
  <1>5. OneCopy'
    BY <1>3, SameHeld, Zenon DEF AuditInv, OneCopy
  <1>6. WrittenOnce'
    <2> SUFFICES ASSUME NEW f \in AuditEntries, f \notin auditDoubt'
                 PROVE  \/ auditStored'[f] = 0 /\ (Ahead(f)' => f \notin auditFile')
                        \/ auditStored'[f] = 1 /\ ~Ahead(f)' /\ f \notin auditFile'
      BY Zenon DEF WrittenOnce
    <2>1. (Ahead(f)' <=> Ahead(f)) /\ auditStored'[f] = auditStored[f] /\ f \notin auditDoubt
      BY <1>2, SameHeld, Zenon DEF Ahead
    <2> QED BY <2>1, Zenon DEF AuditInv, WrittenOnce
  <1>7. EveryEntryKept'
    <2> SUFFICES ASSUME NEW f \in AtPc("done")'
                 PROVE  f \in AuditQueued' \cup Batched' \cup auditFile' \cup auditLost' \/ auditStored'[f] > 0
      BY KeptSets, Zenon
    <2>1. f \in AtPc("done") /\ f \in AuditEntries /\ f # e
      BY <1>1, <1>3, Zenon DEF AtPc
    <2> QED BY <2>1, KeptSets, SameHeld, Zenon DEF AuditInv
  <1> QED BY <1>4, <1>5, <1>6, <1>7, Zenon DEF AuditInv

(* append() returns: the entry is in the channel, written or given up.     *)
LEMMA AppendReturns ==
    ASSUME AuditInv, NEW e \in AuditEntries, entryPc[e] # "done", EntryTo(e, "done"),
           writerPc' = writerPc, auditTx' = auditTx, auditBuffer' = auditBuffer,
           \/ auditQueue' = auditQueue
           \/ auditQueue' = Append(auditQueue, e) /\ writerPc \notin {"ended", "exited"},
           auditStored' \in [AuditEntries -> Nat], \A f \in AuditEntries : f # e => auditStored'[f] = auditStored[f],
           auditDoubt' = auditDoubt, auditFile \subseteq auditFile', auditFile' \subseteq auditFile \cup {e},
           auditLost \subseteq auditLost',
           auditQueue' # auditQueue => auditStored' = auditStored /\ auditFile' = auditFile,
           auditStored'[e] = auditStored[e] \/ (auditStored'[e] = auditStored[e] + 1 /\ auditFile' = auditFile),
           auditQueue' # auditQueue \/ auditStored'[e] > 0 \/ e \in auditFile' \cup auditLost'
    PROVE  AuditInv'
  <1>1. /\ entryPc' \in [AuditEntries -> {"new", "sending", "direct", "spilled", "done"}]
        /\ entryPc'[e] = "done" /\ \A f \in AuditEntries : f # e => entryPc'[f] = entryPc[f]
    BY Zenon DEF AuditInv, AuditTypes, EntryTo
  <1>2. AtPc("done")' = AtPc("done") \cup {e} /\ (AtPc("sending") = {} => AtPc("sending")' = {})
    BY <1>1, Zenon DEF AtPc
  <1>3. PICK new \in {{}, {e}} :
           /\ AuditQueued' = AuditQueued \cup new /\ Batched' = Batched
           /\ auditQueue' \in Seq(AuditEntries)
           /\ \A i, j \in DOMAIN auditQueue' : auditQueue'[i] = auditQueue'[j] => i = j
           /\ writerPc \in {"ended", "exited"} => auditQueue' = auditQueue
           /\ new = {e} => auditStored' = auditStored /\ auditFile' = auditFile
           /\ new = {} => auditStored'[e] > 0 \/ e \in auditFile' \cup auditLost'
    <2>0. auditQueue \in Seq(AuditEntries) /\ Batched' = Batched
      BY Zenon DEF AuditInv, AuditTypes, Batched
    <2>1. CASE auditQueue' = auditQueue
      <3>1. AuditQueued' = AuditQueued \cup {}
        BY <2>1, Zenon DEF AuditQueued
      <3>2. \A i, j \in DOMAIN auditQueue' : auditQueue'[i] = auditQueue'[j] => i = j
        BY <2>1, Zenon DEF AuditInv, OneCopy
      <3> QED BY <2>0, <2>1, <3>1, <3>2, Zenon
    <2>2. CASE auditQueue' # auditQueue
      <3>1. auditQueue' = Append(auditQueue, e) /\ writerPc \notin {"ended", "exited"}
        BY <2>2, Zenon
      <3>2. AuditQueued' = AuditQueued \cup {e} /\ auditQueue' \in Seq(AuditEntries)
        <4>1. /\ Append(auditQueue, e) \in Seq(AuditEntries)
              /\ {Append(auditQueue, e)[i] : i \in DOMAIN Append(auditQueue, e)}
                 = {auditQueue[i] : i \in DOMAIN auditQueue} \cup {e}
          BY <2>0, AuditSeqs, Zenon
        <4> QED BY <3>1, <4>1, Zenon DEF AuditQueued
      <3>3. \A i, j \in DOMAIN auditQueue' : auditQueue'[i] = auditQueue'[j] => i = j
        <4>1. e \notin {auditQueue[i] : i \in DOMAIN auditQueue}
          BY StillAppending, Zenon DEF AuditQueued
        <4>2. \A i, j \in DOMAIN auditQueue : auditQueue[i] = auditQueue[j] => i = j
          BY Zenon DEF AuditInv, OneCopy
        <4> QED BY <2>0, <3>1, <4>1, <4>2, AuditDistinct, Zenon
      <3> QED BY <2>0, <2>2, <3>1, <3>2, <3>3, Zenon
    <2> QED BY <2>1, <2>2, Zenon
  <1>4. AuditTypes'
    BY <1>1, <1>3, Zenon DEF AuditInv, AuditTypes
  <1>5. e \notin AuditQueued \cup Batched /\ (e \in auditDoubt \/ (auditStored[e] = 0 /\ e \notin auditFile))
    BY StillAppending, Zenon
  <1>6. OneCopy'
    <2>0. /\ AuditQueued \cup Batched \subseteq AtPc("done") /\ AuditQueued \cap Batched = {}
          /\ AuditQueued' = AuditQueued \cup new /\ Batched' = Batched /\ new \subseteq {e}
      BY <1>3, Zenon DEF AuditInv, OneCopy
    <2>1. AuditQueued' \cup Batched' \subseteq AtPc("done")' /\ AuditQueued' \cap Batched' = {}
      BY <1>2, <1>5, <2>0, Zenon
    <2> QED BY <1>2, <1>3, <2>1, Zenon DEF AuditInv, OneCopy
  <1>7. WrittenOnce'
    <2> SUFFICES ASSUME NEW f \in AuditEntries
                 PROVE  \/ f \in auditDoubt
                        \/ auditStored'[f] = 0 /\ (Ahead(f)' => f \notin auditFile')
                        \/ auditStored'[f] = 1 /\ ~Ahead(f)' /\ f \notin auditFile'
      BY Zenon DEF WrittenOnce
    <2>1. CASE f # e
      <3>1. Ahead(f)' <=> Ahead(f)
        BY <1>1, <1>3, <2>1, Zenon DEF Ahead
      <3>2. auditStored'[f] = auditStored[f] /\ (f \in auditFile' <=> f \in auditFile)
        BY <2>1, Zenon
      <3> QED BY <3>1, <3>2, Zenon DEF AuditInv, WrittenOnce
    <2>2. CASE f = e /\ new = {e}
      BY <1>3, <1>5, <2>2, Zenon
    <2>3. CASE f = e /\ new = {} /\ e \notin auditDoubt
      <3>1. ~Ahead(e)'
        BY <1>1, <1>3, <1>5, <2>3, Zenon DEF Ahead
      <3>2. auditStored[e] = 0 /\ e \notin auditFile
        BY <1>5, <2>3, Zenon
      <3>3. auditStored'[e] = 0 \/ (auditStored'[e] = 1 /\ auditFile' = auditFile)
        BY <3>2, SMT
      <3> QED BY <2>3, <3>1, <3>2, <3>3, Zenon
    <2> QED BY <1>3, <2>1, <2>2, <2>3, Zenon
  <1>8. EveryEntryKept'
    <2> SUFFICES ASSUME NEW f \in AtPc("done")'
                 PROVE  f \in AuditQueued' \cup Batched' \cup auditFile' \cup auditLost' \/ auditStored'[f] > 0
      BY KeptSets, Zenon
    <2>1. CASE f = e
      BY <1>3, <2>1, Zenon
    <2>2. CASE f # e
      <3>1. f \in AtPc("done") /\ f \in AuditEntries /\ auditStored'[f] = auditStored[f]
        BY <1>2, <2>2, Zenon DEF AtPc
      <3> QED BY <1>3, <3>1, KeptSets, Zenon DEF AuditInv
    <2> QED BY <2>1, <2>2, Zenon
  <1> QED BY <1>4, <1>6, <1>7, <1>8, Zenon DEF AuditInv

(* The writer takes the head of the channel into its batch.                *)
LEMMA RecvKeeps == ASSUME AuditInv, WriterRecv PROVE AuditInv'
  <1>1. /\ writerPc \in {"recv", "gather"} /\ auditQueue # <<>>
        /\ auditBuffer' = Append(auditBuffer, Head(auditQueue)) /\ auditQueue' = Tail(auditQueue)
        /\ writerPc' \in {"gather", "first"}
        /\ entryPc' = entryPc /\ auditTx' = auditTx /\ auditStored' = auditStored
        /\ auditFile' = auditFile /\ auditDoubt' = auditDoubt /\ auditLost' = auditLost
    BY Zenon DEF WriterRecv, Kept
  <1>2. auditQueue \in Seq(AuditEntries) /\ auditBuffer \in Seq(AuditEntries)
    BY Zenon DEF AuditInv, AuditTypes
  <1>3. PICK e \in AuditEntries : e = Head(auditQueue)
    BY <1>1, <1>2, AuditSeqs, Zenon
  <1>4. /\ auditQueue' \in Seq(AuditEntries) /\ auditBuffer' \in Seq(AuditEntries)
        /\ AuditQueued = {e} \cup AuditQueued'
    <2>1. /\ Tail(auditQueue) \in Seq(AuditEntries)
          /\ {auditQueue[i] : i \in DOMAIN auditQueue}
             = {Head(auditQueue)} \cup {Tail(auditQueue)[i] : i \in DOMAIN Tail(auditQueue)}
      BY <1>1, <1>2, AuditSeqs, Zenon
    <2>2. Append(auditBuffer, e) \in Seq(AuditEntries)
      BY <1>2, AuditSeqs, Zenon
    <2> QED BY <1>1, <1>3, <2>1, <2>2, Zenon DEF AuditQueued
  <1>5. Batched' = Batched \cup {e}
    <2>1. {Append(auditBuffer, e)[i] : i \in DOMAIN Append(auditBuffer, e)}
          = {auditBuffer[i] : i \in DOMAIN auditBuffer} \cup {e}
      BY <1>2, AuditSeqs, Zenon
    <2> QED BY <1>1, <1>3, <2>1, Zenon DEF Batched
  <1>6. \A i, j \in DOMAIN auditQueue : auditQueue[i] = auditQueue[j] => i = j
    BY Zenon DEF AuditInv, OneCopy
  <1>7. /\ \A i, j \in DOMAIN auditQueue' : auditQueue'[i] = auditQueue'[j] => i = j
        /\ e \notin AuditQueued'
    BY <1>1, <1>2, <1>3, <1>6, AuditDistinct, Zenon DEF AuditQueued
  <1>8. AuditTypes'
    BY <1>1, <1>4, Zenon DEF AuditInv, AuditTypes
  <1>9. AtPc("done")' = AtPc("done") /\ AuditQueued' \cup Batched' = AuditQueued \cup Batched
    BY <1>1, <1>4, <1>5, Zenon DEF AtPc
  <1>10. OneCopy'
    <2>1. AuditQueued' \cap Batched' = {} /\ AuditQueued' \cup Batched' \subseteq AtPc("done")'
      BY <1>4, <1>5, <1>7, <1>9, Zenon DEF AuditInv, OneCopy
    <2>2. writerPc' \notin {"recv", "ended", "exited"}
      BY <1>1, Zenon
    <2> QED BY <1>7, <2>1, <2>2, Zenon DEF OneCopy
  <1>11. WrittenOnce'
    BY <1>1, <1>9, Zenon DEF AuditInv, WrittenOnce, Ahead
  <1>12. EveryEntryKept'
    <2> SUFFICES ASSUME NEW f \in AtPc("done")'
                 PROVE  f \in AuditQueued' \cup Batched' \cup auditFile' \cup auditLost' \/ auditStored'[f] > 0
      BY KeptSets, Zenon
    <2> QED BY <1>1, <1>9, KeptSets, Zenon DEF AuditInv
  <1> QED BY <1>8, <1>10, <1>11, <1>12, Zenon DEF AuditInv

(* Only the writer's place changes, and it never rests on a full batch nor *)
(* ends before the channel is drained.                                     *)
LEMMA WriterMoves ==
    ASSUME AuditInv, entryPc' = entryPc, auditQueue' = auditQueue, auditBuffer' = auditBuffer,
           auditStored' = auditStored, auditFile' = auditFile, auditDoubt' = auditDoubt, auditLost' = auditLost,
           auditTx' \in BOOLEAN, auditTx' => auditTx,
           \/ writerPc' = writerPc
           \/ writerPc' = "first" /\ auditTx' = auditTx
           \/ writerPc' = "ended" /\ auditBuffer = <<>> /\ auditQueue = <<>> /\ ~auditTx /\ AtPc("sending") = {}
    PROVE  AuditInv'
  <1>1. AtPc("done")' = AtPc("done") /\ AtPc("sending")' = AtPc("sending")
    BY Zenon DEF AtPc
  <1>2. AuditTypes'
    BY Zenon DEF AuditInv, AuditTypes
  <1>3. OneCopy'
    BY <1>1, SameHeld, Zenon DEF AuditInv, OneCopy
  <1>4. WrittenOnce'
    BY SameHeld, Zenon DEF AuditInv, WrittenOnce, Ahead
  <1>5. EveryEntryKept'
    BY <1>1, SameHeld, Zenon DEF AuditInv, EveryEntryKept
  <1> QED BY <1>2, <1>3, <1>4, <1>5, Zenon DEF AuditInv

(* The batch leaves the writer's hands, written or given up.               *)
LEMMA BatchLeaves ==
    ASSUME AuditInv, entryPc' = entryPc, auditTx' = auditTx, auditQueue' = auditQueue, auditBuffer' = <<>>,
           writerPc \in {"first", "retry", "fallback"}, writerPc' = "recv",
           auditStored' \in [AuditEntries -> Nat], auditDoubt' = auditDoubt,
           auditFile \subseteq auditFile', auditLost \subseteq auditLost',
           \A f \in AuditEntries : f \notin Batched => auditStored'[f] = auditStored[f] /\ (f \in auditFile' <=> f \in auditFile),
           \A f \in Batched : \/ auditStored'[f] = auditStored[f] + 1 /\ (f \in auditFile' <=> f \in auditFile)
                              \/ auditStored'[f] = auditStored[f] /\ f \in auditFile' \cup auditLost'
    PROVE  AuditInv'
  <1>1. AtPc("done")' = AtPc("done") /\ Batched' = {} /\ AuditQueued' = AuditQueued
    <2>1. Batched' = {}
      BY SMT DEF Batched
    <2> QED BY <2>1, Zenon DEF AtPc, AuditQueued
  <1>2. AuditTypes'
    <2>1. <<>> \in Seq(AuditEntries)
      BY SMT
    <2> QED BY <2>1, Zenon DEF AuditInv, AuditTypes
  <1>3. OneCopy'
    <2>1. AuditQueued' \cup Batched' \subseteq AtPc("done")' /\ AuditQueued' \cap Batched' = {}
      BY <1>1, Zenon DEF AuditInv, OneCopy
    <2>2. writerPc' \notin {"ended", "exited"}
      BY Zenon
    <2> QED BY <2>1, <2>2, Zenon DEF AuditInv, OneCopy
  <1>4. Batched \subseteq AuditEntries /\ \A f \in Batched : entryPc[f] = "done" /\ f \notin AuditQueued
    BY Zenon DEF AuditInv, OneCopy, AtPc
  <1>5. WrittenOnce'
    <2> SUFFICES ASSUME NEW f \in AuditEntries, f \notin auditDoubt
                 PROVE  \/ auditStored'[f] = 0 /\ (Ahead(f)' => f \notin auditFile')
                        \/ auditStored'[f] = 1 /\ ~Ahead(f)' /\ f \notin auditFile'
      BY Zenon DEF WrittenOnce
    <2>1. CASE f \notin Batched
      <3>1. Ahead(f)' <=> Ahead(f)
        BY <1>1, <2>1, Zenon DEF Ahead
      <3> QED BY <2>1, <3>1, Zenon DEF AuditInv, WrittenOnce
    <2>2. CASE f \in Batched
      <3>1. ~Ahead(f)' /\ Ahead(f)
        BY <1>1, <1>4, <2>2, Zenon DEF Ahead
      <3>2. auditStored[f] = 0 /\ f \notin auditFile
        BY <3>1, Zenon DEF AuditInv, WrittenOnce
      <3>3. auditStored[f] + 1 = 1
        BY <3>2, SMT
      <3> QED BY <2>2, <3>1, <3>2, <3>3, Zenon
    <2> QED BY <2>1, <2>2, Zenon
  <1>6. EveryEntryKept'
    <2> SUFFICES ASSUME NEW f \in AtPc("done")'
                 PROVE  f \in AuditQueued' \cup Batched' \cup auditFile' \cup auditLost' \/ auditStored'[f] > 0
      BY KeptSets, Zenon
    <2>1. f \in AtPc("done") /\ f \in AuditEntries
      BY <1>1, Zenon DEF AtPc
    <2>2. CASE f \in Batched
      <3>1. auditStored[f] \in Nat
        BY <2>1, Zenon DEF AuditInv, AuditTypes
      <3>2. auditStored[f] + 1 > 0
        BY <3>1, SMT
      <3> QED BY <2>2, <3>2, Zenon
    <2>3. CASE f \notin Batched
      <3>1. auditStored'[f] = auditStored[f]
        BY <2>1, <2>3, Zenon
      <3> QED BY <1>1, <2>1, <2>3, <3>1, KeptSets, Zenon DEF AuditInv
    <2> QED BY <2>2, <2>3, Zenon
  <1> QED BY <1>2, <1>3, <1>5, <1>6, Zenon DEF AuditInv

(* The process ends: what its memory held is lost, and known to be.        *)
LEMMA ExitKeeps == ASSUME AuditInv, NEW killed \in BOOLEAN, ProcessExits(killed) PROVE AuditInv'
  <1>1. /\ auditLost' = auditLost \cup AtPc("sending") \cup AtPc("direct") \cup AtPc("spilled")
                           \cup Batched \cup AuditQueued
        /\ entryPc' = [e \in AuditEntries |-> IF entryPc[e] = "new" THEN "new" ELSE "done"]
        /\ auditQueue' = <<>> /\ auditBuffer' = <<>> /\ writerPc' = "exited" /\ auditTx' = auditTx
        /\ auditStored' = auditStored /\ auditFile' = auditFile /\ auditDoubt' = auditDoubt
    BY Zenon DEF ProcessExits, AuditQueued
  <1>2. Batched' = {} /\ AuditQueued' = {} /\ <<>> \in Seq(AuditEntries)
    BY <1>1, SMT DEF Batched, AuditQueued
  <1>3. \A f \in AuditEntries :
            \/ entryPc[f] = "new" /\ entryPc'[f] = "new"
            \/ entryPc[f] # "new" /\ entryPc'[f] = "done"
    BY <1>1, Zenon
  <1>4. AuditTypes'
    BY <1>1, <1>2, Zenon DEF AuditInv, AuditTypes
  <1>5. OneCopy'
    <2>1. AtPc("sending")' = {}
      BY <1>3, Zenon DEF AtPc
    <2>2. AuditQueued' \cup Batched' \subseteq AtPc("done")' /\ AuditQueued' \cap Batched' = {}
      BY <1>2, Zenon
    <2>3. \A i, j \in DOMAIN auditQueue' : auditQueue'[i] = auditQueue'[j] => i = j
      BY <1>1, SMT
    <2> QED BY <1>1, <2>1, <2>2, <2>3, Zenon DEF OneCopy
  <1>6. WrittenOnce'
    <2> SUFFICES ASSUME NEW f \in AuditEntries, f \notin auditDoubt
                 PROVE  \/ auditStored[f] = 0 /\ (Ahead(f)' => f \notin auditFile)
                        \/ auditStored[f] = 1 /\ ~Ahead(f)' /\ f \notin auditFile
      BY <1>1, Zenon DEF WrittenOnce
    <2>1. Ahead(f)' => Ahead(f)
      BY <1>2, <1>3, Zenon DEF Ahead
    <2> QED BY <2>1, Zenon DEF AuditInv, WrittenOnce
  <1>7. EveryEntryKept'
    <2> SUFFICES ASSUME NEW f \in AtPc("done")'
                 PROVE  f \in auditFile' \cup auditLost' \/ auditStored'[f] > 0
      BY KeptSets, Zenon
    <2>1. f \in AuditEntries /\ entryPc[f] \in {"sending", "direct", "spilled", "done"}
      BY <1>3, Zenon DEF AtPc, AuditInv, AuditTypes
    <2>2. CASE entryPc[f] = "done"
      <3>1. f \in AtPc("done")
        BY <2>1, <2>2, Zenon DEF AtPc
      <3> QED BY <1>1, <3>1, KeptSets, Zenon DEF AuditInv
    <2>3. CASE entryPc[f] # "done"
      BY <1>1, <2>1, <2>3, Zenon DEF AtPc
    <2> QED BY <2>2, <2>3, Zenon
  <1> QED BY <1>4, <1>5, <1>6, <1>7, Zenon DEF AuditInv

(* A batch that the store did not confirm stays with the writer; if the    *)
(* store has it all the same, its entries are in doubt.                    *)
LEMMA BatchStays ==
    ASSUME AuditInv, entryPc' = entryPc, auditTx' = auditTx, auditQueue' = auditQueue, auditBuffer' = auditBuffer,
           writerPc' \in {"retry", "fallback"}, auditFile' = auditFile, auditLost' = auditLost,
           auditStored' \in [AuditEntries -> Nat], \A f \in AuditEntries : auditStored'[f] >= auditStored[f],
           auditDoubt \subseteq auditDoubt',
           \A f \in AuditEntries : auditStored'[f] = auditStored[f] \/ f \in auditDoubt'
    PROVE  AuditInv'
  <1>1. AtPc("done")' = AtPc("done")
    BY Zenon DEF AtPc
  <1>2. AuditTypes'
    BY Zenon DEF AuditInv, AuditTypes
  <1>3. OneCopy'
    <2>1. writerPc' \notin {"recv", "ended", "exited"}
      BY Zenon
    <2> QED BY <1>1, <2>1, SameHeld, Zenon DEF AuditInv, OneCopy
  <1>4. WrittenOnce'
    <2> SUFFICES ASSUME NEW f \in AuditEntries, f \notin auditDoubt'
                 PROVE  \/ auditStored'[f] = 0 /\ (Ahead(f)' => f \notin auditFile')
                        \/ auditStored'[f] = 1 /\ ~Ahead(f)' /\ f \notin auditFile'
      BY Zenon DEF WrittenOnce
    <2>1. Ahead(f)' <=> Ahead(f)
      BY SameHeld, Zenon DEF Ahead
    <2> QED BY <2>1, Zenon DEF AuditInv, WrittenOnce
  <1>5. EveryEntryKept'
    <2> SUFFICES ASSUME NEW f \in AtPc("done")'
                 PROVE  f \in AuditQueued' \cup Batched' \cup auditFile' \cup auditLost' \/ auditStored'[f] > 0
      BY KeptSets, Zenon
    <2>1. f \in AtPc("done") /\ f \in AuditEntries
      BY <1>1, Zenon DEF AtPc
    <2>2. auditStored[f] > 0 => auditStored'[f] > 0
      <3>1. auditStored[f] \in Nat /\ auditStored'[f] \in Nat /\ auditStored'[f] >= auditStored[f]
        BY <2>1, Zenon DEF AuditInv, AuditTypes
      <3> QED BY <3>1, SMT
    <2> QED BY <2>1, <2>2, KeptSets, SameHeld, Zenon DEF AuditInv
  <1> QED BY <1>2, <1>3, <1>4, <1>5, Zenon DEF AuditInv

(* Every step of the appends, of the writer and of the process.            *)
LEMMA AuditStep == AuditInv /\ [AuditWriterNext]_auditVars => AuditInv'
  <1> SUFFICES ASSUME AuditInv, [AuditWriterNext]_auditVars PROVE AuditInv'
    BY Zenon
  <1>0. /\ auditStored \in [AuditEntries -> Nat] /\ auditTx \in BOOLEAN
        /\ auditQueue \in Seq(AuditEntries)
    BY Zenon DEF AuditInv, AuditTypes
  <1>1. ASSUME NEW e \in AuditEntries, AuditAppend(e) PROVE AuditInv'
    <2>1. /\ entryPc[e] # "done" /\ auditTx' = auditTx /\ auditQueue' = auditQueue
          /\ auditBuffer' = auditBuffer /\ writerPc' = writerPc /\ auditStored' = auditStored
          /\ auditFile' = auditFile /\ auditDoubt' = auditDoubt /\ auditLost' = auditLost
          /\ writerPc # "exited"
      BY <1>1, Zenon DEF AuditAppend, Kept, ProcessUp
    <2>2. PICK pc \in {"sending", "direct"} : EntryTo(e, pc) /\ (pc = "sending" => auditTx)
      BY <1>1, Zenon DEF AuditAppend
    <2>3. pc = "sending" => writerPc \notin {"ended", "exited"}
      BY <2>1, <2>2, Zenon DEF AuditInv, OneCopy
    <2> QED BY <1>0, <2>1, <2>2, <2>3, AppendGoesOn, Zenon
  <1>2. ASSUME NEW e \in AuditEntries, TrySend(e) PROVE AuditInv'
    <2>1. /\ entryPc[e] = "sending" /\ auditTx' = auditTx
          /\ auditBuffer' = auditBuffer /\ writerPc' = writerPc /\ auditStored' = auditStored
          /\ auditFile' = auditFile /\ auditDoubt' = auditDoubt /\ auditLost' = auditLost
      BY <1>2, Zenon DEF TrySend, Kept
    <2>2. writerPc \notin {"ended", "exited"}
      BY <2>1, Zenon DEF AuditInv, OneCopy, AtPc
    <2>3. CASE EntryTo(e, "done") /\ auditQueue' = Append(auditQueue, e)
      <3>1. auditQueue' # auditQueue
        BY <1>0, <2>3, SMT
      <3> QED BY <1>0, <2>1, <2>2, <2>3, <3>1, AppendReturns, Zenon
    <2>4. CASE EntryTo(e, "spilled") /\ auditQueue' = auditQueue
      BY <1>0, <2>1, <2>4, AppendGoesOn, Zenon
    <2> QED BY <1>2, <2>3, <2>4, Zenon DEF TrySend
  <1>3. ASSUME NEW e \in AuditEntries, AppendDirect(e) PROVE AuditInv'
    <2>1. /\ entryPc[e] = "direct" /\ auditTx' = auditTx /\ auditQueue' = auditQueue
          /\ auditBuffer' = auditBuffer /\ writerPc' = writerPc /\ auditFile' = auditFile
          /\ auditLost' = auditLost
      BY <1>3, Zenon DEF AppendDirect
    <2>2. PICK wrote \in BOOLEAN, ok \in BOOLEAN :
              /\ ok => wrote
              /\ EntryTo(e, IF ok THEN "done" ELSE "spilled")
              /\ auditStored' = [auditStored EXCEPT ![e] = @ + (IF wrote THEN 1 ELSE 0)]
              /\ auditDoubt' = IF wrote /\ ~ok THEN auditDoubt \cup {e} ELSE auditDoubt
      BY <1>3, Zenon DEF AppendDirect
    <2>3. /\ auditStored' \in [AuditEntries -> Nat]
          /\ \A f \in AuditEntries : f # e => auditStored'[f] = auditStored[f]
          /\ wrote => auditStored'[e] = auditStored[e] + 1 /\ auditStored'[e] > 0
          /\ ~wrote => auditStored'[e] = auditStored[e]
      BY <1>0, <2>2, SMT
    <2>4. CASE ok
      BY <2>1, <2>2, <2>3, <2>4, AppendReturns, Zenon
    <2>5. CASE ~ok
      <3>1. EntryTo(e, "spilled") /\ auditDoubt \subseteq auditDoubt'
            /\ (auditStored'[e] = auditStored[e] \/ e \in auditDoubt')
        BY <2>2, <2>3, <2>5, Zenon
      <3> QED BY <2>1, <2>3, <3>1, AppendGoesOn, Zenon
    <2> QED BY <2>4, <2>5, Zenon
  <1>4. ASSUME NEW e \in AuditEntries, WriteSpilled(e) PROVE AuditInv'
    <2>1. /\ entryPc[e] = "spilled" /\ EntryTo(e, "done") /\ auditTx' = auditTx /\ auditQueue' = auditQueue
          /\ auditBuffer' = auditBuffer /\ writerPc' = writerPc /\ auditStored' = auditStored
          /\ auditDoubt' = auditDoubt
      BY <1>4, Zenon DEF WriteSpilled
    <2>2. /\ auditFile \subseteq auditFile' /\ auditFile' \subseteq auditFile \cup {e}
          /\ auditLost \subseteq auditLost' /\ e \in auditFile' \cup auditLost'
      BY <1>4, Zenon DEF WriteSpilled
    <2> QED BY <1>0, <2>1, <2>2, AppendReturns, Zenon
  <1>5. CASE WriterTimer
    BY <1>0, <1>5, WriterMoves, Zenon DEF WriterTimer, Kept
  <1>6. CASE FlushBatch
    <2>1. /\ writerPc \in {"first", "retry"} /\ entryPc' = entryPc /\ auditTx' = auditTx
          /\ auditQueue' = auditQueue /\ auditFile' = auditFile /\ auditLost' = auditLost
      BY <1>6, Zenon DEF FlushBatch
    <2>2. PICK wrote \in BOOLEAN, ok \in BOOLEAN :
          /\ ok => wrote
          /\ auditStored' = [e \in AuditEntries |-> auditStored[e] +
                                IF wrote /\ e \in Batched THEN 1 ELSE 0]
          /\ auditDoubt' = IF wrote /\ ~ok THEN auditDoubt \cup Batched ELSE auditDoubt
          /\ IF ok THEN writerPc' = "recv" /\ auditBuffer' = <<>>
             ELSE /\ writerPc' = IF writerPc = "first" THEN "retry" ELSE "fallback"
                  /\ UNCHANGED auditBuffer
      BY <1>6, Zenon DEF FlushBatch
    <2> HIDE DEF Batched
    <2>3. /\ auditStored' \in [AuditEntries -> Nat]
          /\ \A f \in AuditEntries :
                /\ auditStored'[f] >= auditStored[f]
                /\ ~(wrote /\ f \in Batched) => auditStored'[f] = auditStored[f]
                /\ wrote /\ f \in Batched => auditStored'[f] = auditStored[f] + 1
      BY <1>0, <2>2, SMT
    <2>4. Batched \subseteq AuditEntries
      BY Zenon DEF AuditInv, OneCopy, AtPc
    <2>5. CASE ok
      <3>1. /\ \A f \in AuditEntries : f \notin Batched => auditStored'[f] = auditStored[f]
            /\ \A f \in Batched : auditStored'[f] = auditStored[f] + 1
            /\ auditDoubt' = auditDoubt /\ writerPc' = "recv" /\ auditBuffer' = <<>>
        BY <2>2, <2>3, <2>4, <2>5, Zenon
      <3> QED BY <2>1, <2>3, <3>1, BatchLeaves, Zenon
    <2>6. CASE ~ok
      <3>1. /\ auditDoubt \subseteq auditDoubt' /\ auditBuffer' = auditBuffer
            /\ writerPc' \in {"retry", "fallback"}
            /\ \A f \in AuditEntries : auditStored'[f] = auditStored[f] \/ f \in auditDoubt'
        BY <2>2, <2>3, <2>6, Zenon
      <3> QED BY <2>1, <2>3, <3>1, BatchStays, Zenon
    <2> QED BY <2>5, <2>6, Zenon
  <1>7. CASE WriteFallback
    <2>1. /\ writerPc = "fallback" /\ entryPc' = entryPc /\ auditTx' = auditTx /\ auditQueue' = auditQueue
          /\ auditBuffer' = <<>> /\ writerPc' = "recv" /\ auditStored' = auditStored
          /\ auditDoubt' = auditDoubt
      BY <1>7, Zenon DEF WriteFallback
    <2>2. /\ auditFile \subseteq auditFile' /\ auditLost \subseteq auditLost'
          /\ \A f : f \notin Batched => (f \in auditFile' <=> f \in auditFile)
          /\ \A f \in Batched : f \in auditFile' \cup auditLost'
      BY <1>7, Zenon DEF WriteFallback
    <2> QED BY <1>0, <2>1, <2>2, BatchLeaves, Zenon
  <1>8. CASE WriterEnds
    <2>1. auditBuffer = <<>>
      BY <1>8, Zenon DEF WriterEnds, AuditInv, OneCopy
    <2> QED BY <1>0, <1>8, <2>1, WriterMoves, Zenon DEF WriterEnds, Kept
  <1>9. CASE TakeSender
    BY <1>9, WriterMoves, Zenon DEF TakeSender, Kept
  <1>10. CASE UNCHANGED auditVars
    BY <1>0, <1>10, WriterMoves, Zenon DEF auditVars
  <1> QED BY <1>1, <1>2, <1>3, <1>4, <1>5, <1>6, <1>7, <1>8, <1>9, <1>10, RecvKeeps, ExitKeeps, Zenon
          DEF AuditWriterNext

(* No audit entry is dropped between append() and its writing, only an     *)
(* append that failed after its commit is written twice, and a shutdown    *)
(* that ran to its end left nothing behind: for any entries, capacities    *)
(* and batch sizes, whatever the database and the process do.              *)
THEOREM AuditEntriesAccounted == AuditWriterSpec => AuditAccounted
  <1>1. AuditWriterInit => AuditInv
    <2> SUFFICES ASSUME AuditWriterInit PROVE AuditInv
      BY Zenon
    <2>1. /\ AuditQueued = {} /\ Batched = {} /\ <<>> \in Seq(AuditEntries) /\ 0 \in Nat
          /\ \A i, j \in DOMAIN auditQueue : auditQueue[i] = auditQueue[j] => i = j
      BY SMT DEF AuditWriterInit, AuditQueued, Batched
    <2>2. AtPc("done") = {} /\ AtPc("sending") = {}
      BY Zenon DEF AuditWriterInit, AtPc
    <2>3. AuditTypes
      BY <2>1, Zenon DEF AuditWriterInit, AuditTypes
    <2>4. OneCopy
      BY <2>1, <2>2, Zenon DEF AuditWriterInit, OneCopy
    <2>5. WrittenOnce /\ EveryEntryKept
      BY <2>2, Zenon DEF AuditWriterInit, WrittenOnce, EveryEntryKept
    <2> QED BY <2>3, <2>4, <2>5, Zenon DEF AuditInv
  <1>2. AuditInv => EveryEntryKept /\ TwiceOnlyInDoubt /\ DrainedAtEnd
    <2> SUFFICES ASSUME AuditInv PROVE TwiceOnlyInDoubt /\ DrainedAtEnd
      BY Zenon DEF AuditInv
    <2>1. TwiceOnlyInDoubt
      <3> SUFFICES ASSUME NEW e \in AuditEntries, e \notin auditDoubt
                   PROVE  ~(auditStored[e] + (IF e \in auditFile THEN 1 ELSE 0) > 1)
        BY Zenon DEF TwiceOnlyInDoubt
      <3>1. auditStored[e] = 0 \/ (auditStored[e] = 1 /\ e \notin auditFile)
        BY Zenon DEF AuditInv, WrittenOnce
      <3> QED BY <3>1, SMT
    <2>2. DrainedAtEnd
      BY Zenon DEF AuditInv, OneCopy, DrainedAtEnd
    <2> QED BY <2>1, <2>2, Zenon
  <1> QED BY <1>1, <1>2, AuditStep, PTL DEF AuditWriterSpec, AuditAccounted

----------------------------------------------------------------------------
(* Admission.                                                              *)

(* Where a hello is while its reservation stands.                          *)
OnItsWay == {"verified", "checked", "written", "accepted", "closing"}

AdmissionShape ==
    /\ hpc = [h \in Hellos |-> hpc[h]]
    /\ holds = [h \in Hellos |-> holds[h]]
    /\ reservedBy = [t \in BootTokens |-> reservedBy[t]]
    /\ DOMAIN devRow = {"there", "key", "user"}
    /\ \A h \in Hellos : cred[h].key # NoOne

(* A device has one token at a time, only that one is reserved, and by the *)
(* hello that shows it; a hello that holds a reservation knows of it until *)
(* it lapses.                                                              *)
TokensBound ==
    /\ bound \subseteq BootTokens /\ bound \subseteq {pointer}
    /\ \A t \in BootTokens : reservedBy[t] \in Hellos \cup {NoOne}
    /\ \A t \in BootTokens : reservedBy[t] # NoOne => t \in bound

Reserving ==
    \A t \in BootTokens, h \in Hellos :
        reservedBy[t] = h => /\ t = cred[h].token
                             /\ holds[h] \/ h \in unreleased
                             /\ hpc[h] \in OnItsWay \/ h \in unreleased

Holding ==
    \A h \in Hellos : holds[h] =>
        /\ cred[h].method = "token" /\ cred[h].token \in BootTokens
        /\ h \notin lapsed => reservedBy[cred[h].token] = h

OneToken == TokensBound /\ Reserving /\ Holding

(* The key a hello wrote under its reservation is the row's, and no hello  *)
(* that looked at the row before it still has one.                         *)
KeyInv ==
    /\ keyBy # NoOne => devRow.key # NoOne
    /\ \A h \in Hellos : hpc[h] = "checked" /\ holds[h] /\ h \notin lapsed => keyBy = NoOne

AdmissionInv == AdmissionShape /\ OneToken /\ KeyInv

(* A hello moves on: the others stay where they are.                       *)
LEMMA HelloMoves ==
    ASSUME NEW h \in Hellos, NEW l, AdmissionShape, HelloTo(h, l)
    PROVE  /\ hpc' = [x \in Hellos |-> hpc'[x]]
           /\ hpc'[h] = l
           /\ \A g \in Hellos \ {h} : hpc'[g] = hpc[g]
  BY Zenon DEF AdmissionShape, HelloTo

(* Two hellos never hold a standing reservation at once (SET NX on the one *)
(* token of the device).                                                   *)
LEMMA OneHolder ==
    ASSUME OneToken, NEW g \in Hellos, NEW h \in Hellos, holds[g], g \notin lapsed,
           holds[h], h \notin lapsed
    PROVE  g = h
  <1>1. cred[g].token \in BootTokens /\ reservedBy[cred[g].token] = g
    BY Zenon DEF OneToken, Holding
  <1>2. cred[h].token \in BootTokens /\ reservedBy[cred[h].token] = h
    BY Zenon DEF OneToken, Holding
  <1>3. cred[g].token \in bound /\ cred[h].token \in bound
    <2>1. g # NoOne /\ h # NoOne
      BY AdmissionAssumption, Zenon
    <2> QED BY <1>1, <1>2, <2>1, Zenon DEF OneToken, TokensBound
  <1>4. cred[g].token = cred[h].token
    BY <1>3, Zenon DEF OneToken, TokensBound
  <1> QED BY <1>1, <1>2, <1>4, Zenon

(* A step that leaves the token store alone, and no hello with a           *)
(* reservation behind, keeps its invariant.                                *)
LEMMA TokensRest ==
    ASSUME OneToken, UNCHANGED tokenVars, UNCHANGED <<cred, holds, unreleased, lapsed>>,
           \A h \in Hellos : hpc[h] \in OnItsWay => hpc'[h] \in OnItsWay
    PROVE  OneToken'
  <1>1. /\ bound' = bound /\ pointer' = pointer /\ reservedBy' = reservedBy
        /\ cred' = cred /\ holds' = holds /\ unreleased' = unreleased /\ lapsed' = lapsed
    BY Zenon DEF tokenVars
  <1>2. TokensBound'
    BY <1>1, Zenon DEF OneToken, TokensBound
  <1>3. Reserving'
    BY <1>1, Zenon DEF OneToken, Reserving
  <1>4. Holding'
    BY <1>1, Zenon DEF OneToken, Holding
  <1> QED BY <1>2, <1>3, <1>4, Zenon DEF OneToken

(* The row's history is kept by a step that writes no key under a          *)
(* reservation and lets no hello past the check.                           *)
LEMMA KeysRest ==
    ASSUME KeyInv, keyBy' = NoOne \/ keyBy' = keyBy, keyBy' # NoOne => devRow'.key # NoOne,
           lapsed \subseteq lapsed',
           \A h \in Hellos : hpc'[h] = "checked" =>
               hpc[h] = "checked" /\ (holds'[h] => holds[h])
    PROVE  KeyInv'
  BY Zenon DEF KeyInv

(* reserve: the token was bound and free.                                  *)
LEMMA VerifyTokens ==
    ASSUME AdmissionShape, OneToken, NEW h \in Hellos, VerifyHello(h)
    PROVE  OneToken'
  <1> DEFINE t == cred[h].token
  <1>1. /\ bound' = bound /\ pointer' = pointer /\ issuedToks' = issuedToks
        /\ cred' = cred /\ unreleased' = unreleased /\ lapsed' = lapsed
    BY Zenon DEF VerifyHello
  <1>2. hpc'[h] \in OnItsWay /\ \A g \in Hellos \ {h} : hpc'[g] = hpc[g]
    BY HelloMoves, Zenon DEF VerifyHello, OnItsWay
  <1>3. \A g \in Hellos : hpc[g] \in OnItsWay => hpc'[g] \in OnItsWay
    BY <1>2, Zenon
  <1>4. CASE reservedBy' = reservedBy /\ holds' = holds
    BY <1>1, <1>3, <1>4, TokensRest, Zenon DEF tokenVars
  <1>5. CASE ~(reservedBy' = reservedBy /\ holds' = holds)
    <2>1. /\ cred[h].method = "token" /\ t \in bound /\ reservedBy[t] = NoOne
          /\ reservedBy' = [reservedBy EXCEPT ![t] = h]
          /\ holds' = [holds EXCEPT ![h] = TRUE]
      BY <1>5, Zenon DEF VerifyHello, Reservable
    <2>2. t \in BootTokens
      BY <2>1, Zenon DEF OneToken, TokensBound
    <2>3. /\ reservedBy'[t] = h /\ \A u \in BootTokens \ {t} : reservedBy'[u] = reservedBy[u]
          /\ holds'[h] /\ \A g \in Hellos \ {h} : holds'[g] = holds[g]
      BY <2>1, <2>2, Zenon DEF AdmissionShape
    <2>4. TokensBound'
      BY <1>1, <2>1, <2>3, Zenon DEF OneToken, TokensBound
    <2>5. Reserving'
      <3> SUFFICES ASSUME NEW u \in BootTokens, NEW g \in Hellos, reservedBy'[u] = g
                   PROVE  /\ u = cred[g].token
                          /\ holds'[g] \/ g \in unreleased
                          /\ hpc'[g] \in OnItsWay \/ g \in unreleased
        BY <1>1, Zenon DEF Reserving
      <3>1. CASE u = t
        BY <1>2, <2>3, <3>1, Zenon
      <3>2. CASE u # t
        <4>1. reservedBy[u] = g
          BY <2>3, <3>2, Zenon
        <4>2. /\ u = cred[g].token
              /\ holds[g] \/ g \in unreleased
              /\ hpc[g] \in OnItsWay \/ g \in unreleased
          BY <4>1, Zenon DEF OneToken, Reserving
        <4> QED BY <1>3, <2>3, <4>2, Zenon
      <3> QED BY <3>1, <3>2, Zenon
    <2>6. Holding'
      <3> SUFFICES ASSUME NEW g \in Hellos, holds'[g]
                   PROVE  /\ cred[g].method = "token" /\ cred[g].token \in BootTokens
                          /\ g \notin lapsed => reservedBy'[cred[g].token] = g
        BY <1>1, Zenon DEF Holding
      <3>1. CASE g = h
        BY <2>1, <2>2, <2>3, <3>1, Zenon
      <3>2. CASE g # h
        <4>1. /\ cred[g].method = "token" /\ cred[g].token \in BootTokens
              /\ g \notin lapsed => reservedBy[cred[g].token] = g
          BY <2>3, <3>2, Zenon DEF OneToken, Holding
        <4>2. g # NoOne
          BY AdmissionAssumption, Zenon
        <4> QED BY <2>1, <2>3, <4>1, <4>2, Zenon
      <3> QED BY <3>1, <3>2, Zenon
    <2> QED BY <2>4, <2>5, <2>6, Zenon DEF OneToken
  <1> QED BY <1>4, <1>5, Zenon

(* A reservation ends: consumed or released by its hello, or lapsed with   *)
(* the hello none the wiser; with it, perhaps, its token.                  *)
LEMMA ReservationEnds ==
    ASSUME OneToken, NEW t, cred' = cred, unreleased' = unreleased, lapsed \subseteq lapsed',
           bound' \subseteq BootTokens, bound' \subseteq {pointer'}, bound \ {t} \subseteq bound',
           \A u \in BootTokens : reservedBy'[u] = IF u = t THEN NoOne ELSE reservedBy[u],
           \A g \in Hellos : holds'[g] => holds[g],
           \A g \in Hellos : holds[g] /\ ~holds'[g] => cred[g].token = t,
           \A g \in Hellos : hpc[g] \in OnItsWay /\ hpc'[g] \notin OnItsWay => ~holds'[g],
           \A g \in Hellos : t \in BootTokens /\ reservedBy[t] = g => g \in lapsed' \/ ~holds'[g]
    PROVE  OneToken'
  <1>1. TokensBound'
    <2>1. \A u \in BootTokens : reservedBy'[u] # NoOne => u # t /\ u \in bound
      BY Zenon DEF OneToken, TokensBound
    <2>2. \A u \in BootTokens : reservedBy'[u] \in Hellos \cup {NoOne}
      BY Zenon DEF OneToken, TokensBound
    <2> QED BY <2>1, <2>2, Zenon DEF TokensBound
  <1>2. Reserving'
    <2> SUFFICES ASSUME NEW u \in BootTokens, NEW g \in Hellos, reservedBy'[u] = g
                 PROVE  /\ u = cred[g].token
                        /\ holds'[g] \/ g \in unreleased
                        /\ hpc'[g] \in OnItsWay \/ g \in unreleased
      BY Zenon DEF Reserving
    <2>1. u # t /\ reservedBy[u] = g
      <3>1. g # NoOne
        BY AdmissionAssumption, Zenon
      <3> QED BY <3>1, Zenon
    <2>2. /\ u = cred[g].token
          /\ holds[g] \/ g \in unreleased
          /\ hpc[g] \in OnItsWay \/ g \in unreleased
      BY <2>1, Zenon DEF OneToken, Reserving
    <2>3. holds'[g] \/ g \in unreleased
      BY <2>1, <2>2, Zenon
    <2> QED BY <2>2, <2>3, Zenon
  <1>3. Holding'
    <2> SUFFICES ASSUME NEW g \in Hellos, holds'[g]
                 PROVE  /\ cred[g].method = "token" /\ cred[g].token \in BootTokens
                        /\ g \notin lapsed' => reservedBy'[cred[g].token] = g
      BY Zenon DEF Holding
    <2>1. /\ cred[g].method = "token" /\ cred[g].token \in BootTokens
          /\ g \notin lapsed => reservedBy[cred[g].token] = g
      BY Zenon DEF OneToken, Holding
    <2> QED BY <2>1, Zenon
  <1> QED BY <1>1, <1>2, <1>3, Zenon DEF OneToken

(* A hello leaves without a reservation, or with one it could not release. *)
LEMMA HolderLeaves ==
    ASSUME OneToken, NEW h \in Hellos, cred' = cred, lapsed' = lapsed, UNCHANGED tokenVars,
           unreleased \subseteq unreleased',
           ~Covered(h) \/ h \in unreleased', ~holds'[h],
           \A g \in Hellos \ {h} : hpc'[g] = hpc[g] /\ holds'[g] = holds[g]
    PROVE  OneToken'
  <1>1. bound' = bound /\ pointer' = pointer /\ reservedBy' = reservedBy
    BY Zenon DEF tokenVars
  <1>2. TokensBound'
    BY <1>1, Zenon DEF OneToken, TokensBound
  <1>3. \A u \in BootTokens : reservedBy[u] = h => h \in unreleased'
    BY Zenon DEF OneToken, Reserving, Covered
  <1>4. Reserving'
    <2> SUFFICES ASSUME NEW u \in BootTokens, NEW g \in Hellos, reservedBy[u] = g
                 PROVE  /\ u = cred[g].token
                        /\ holds'[g] \/ g \in unreleased'
                        /\ hpc'[g] \in OnItsWay \/ g \in unreleased'
      BY <1>1, Zenon DEF Reserving
    <2>1. /\ u = cred[g].token
          /\ holds[g] \/ g \in unreleased
          /\ hpc[g] \in OnItsWay \/ g \in unreleased
      BY Zenon DEF OneToken, Reserving
    <2> QED BY <1>3, <2>1, Zenon
  <1>5. Holding'
    <2> SUFFICES ASSUME NEW g \in Hellos, holds'[g]
                 PROVE  /\ cred[g].method = "token" /\ cred[g].token \in BootTokens
                        /\ g \notin lapsed => reservedBy[cred[g].token] = g
      BY <1>1, Zenon DEF Holding
    <2>1. g # h /\ holds[g]
      BY Zenon
    <2> QED BY <2>1, Zenon DEF OneToken, Holding
  <1> QED BY <1>2, <1>4, <1>5, Zenon DEF OneToken

(* consume and the release at the end of a connection.                     *)
LEMMA LeavingTokens ==
    ASSUME AdmissionShape, OneToken, NEW h \in Hellos, Consume(h) \/ Teardown(h)
    PROVE  OneToken'
  <1> DEFINE t == cred[h].token
  <1>1. /\ cred' = cred /\ lapsed' = lapsed /\ issuedToks' = issuedToks
        /\ unreleased \subseteq unreleased'
    BY Zenon DEF Consume, Teardown
  <1>2. \A g \in Hellos \ {h} : hpc'[g] = hpc[g]
    BY HelloMoves, Zenon DEF Consume, Teardown
  <1>3. ~holds'[h] /\ \A g \in Hellos \ {h} : holds'[g] = holds[g]
    BY Zenon DEF Consume, Teardown, AdmissionShape
  <1>4. CASE UNCHANGED tokenVars /\ (~Covered(h) \/ h \in unreleased')
    BY <1>1, <1>2, <1>3, <1>4, HolderLeaves, Zenon
  <1>5. CASE ~(UNCHANGED tokenVars /\ (~Covered(h) \/ h \in unreleased'))
    <2>1. /\ Covered(h) /\ unreleased' = unreleased
          /\ reservedBy' = [reservedBy EXCEPT ![t] = NoOne]
          /\ \/ bound' = bound /\ pointer' = pointer
             \/ bound' = bound \ {t} /\ pointer' = 0
      BY <1>5, Zenon DEF Consume, Teardown, tokenVars
    <2>2. holds[h] /\ reservedBy[t] = h /\ t \in BootTokens
      BY <2>1, Zenon DEF Covered, OneToken, Holding
    <2>3. t \in bound
      <3>1. h # NoOne
        BY AdmissionAssumption, Zenon
      <3> QED BY <2>2, <3>1, Zenon DEF OneToken, TokensBound
    <2>4. /\ bound' \subseteq BootTokens /\ bound' \subseteq {pointer'}
          /\ bound \ {t} \subseteq bound'
      BY <2>1, <2>3, Zenon DEF OneToken, TokensBound
    <2>5. \A u \in BootTokens : reservedBy'[u] = IF u = t THEN NoOne ELSE reservedBy[u]
      BY <2>1, Zenon DEF AdmissionShape
    <2>6. /\ \A g \in Hellos : holds'[g] => holds[g]
          /\ \A g \in Hellos : holds[g] /\ ~holds'[g] => cred[g].token = t
          /\ \A g \in Hellos : hpc[g] \in OnItsWay /\ hpc'[g] \notin OnItsWay => ~holds'[g]
          /\ \A g \in Hellos : t \in BootTokens /\ reservedBy[t] = g => g \in lapsed' \/ ~holds'[g]
      BY <1>2, <1>3, <2>2, Zenon
    <2>7. cred' = cred /\ unreleased' = unreleased /\ lapsed \subseteq lapsed'
      BY <1>1, <2>1, Zenon
    <2> HIDE DEF t
    <2> QED BY <2>4, <2>5, <2>6, <2>7, ReservationEnds, Zenon
  <1> QED BY <1>4, <1>5, Zenon

(* A token dies under its reservation: its time is up, another is issued   *)
(* for the device, or the device is deleted.                               *)
LEMMA DyingTokens ==
    ASSUME AdmissionShape, OneToken,
           \/ \E t \in BootTokens : ReservationLapses(t)
           \/ \E a \in Admins : IssueToken(a) \/ DeleteTokens(a)
    PROVE  OneToken'
  <1>1. PICK t : /\ \A u \in BootTokens : reservedBy'[u] = IF u = t THEN NoOne ELSE reservedBy[u]
                 /\ Loses(t)
                 /\ \/ bound' = bound /\ pointer' = pointer
                    \/ t = pointer /\ bound' = bound \ {t} /\ pointer' = 0
                    \/ \E n \in BootTokens : t = pointer /\ bound' = (bound \ {t}) \cup {n} /\ pointer' = n
    <2>1. ASSUME NEW t \in BootTokens, ReservationLapses(t)
          PROVE  /\ \A u \in BootTokens : reservedBy'[u] = IF u = t THEN NoOne ELSE reservedBy[u]
                 /\ Loses(t) /\ bound' = bound /\ pointer' = pointer
      BY <2>1, Zenon DEF ReservationLapses, AdmissionShape
    <2>2. ASSUME NEW a \in Admins, IssueToken(a)
          PROVE  /\ \A u \in BootTokens : reservedBy'[u] = IF u = pointer THEN NoOne ELSE reservedBy[u]
                 /\ Loses(pointer)
                 /\ \E n \in BootTokens : bound' = (bound \ {pointer}) \cup {n} /\ pointer' = n
      BY <2>2, Zenon DEF IssueToken
    <2>3. ASSUME NEW a \in Admins, DeleteTokens(a)
          PROVE  /\ \A u \in BootTokens : reservedBy'[u] = IF u = pointer THEN NoOne ELSE reservedBy[u]
                 /\ Loses(pointer) /\ bound' = bound \ {pointer} /\ pointer' = 0
      BY <2>3, Zenon DEF DeleteTokens, Without
    <2> QED BY <2>1, <2>2, <2>3, Zenon
  <1>2. cred' = cred /\ unreleased' = unreleased /\ hpc' = hpc /\ holds' = holds
    BY Zenon DEF ReservationLapses, IssueToken, DeleteTokens
  <1>3. /\ lapsed \subseteq lapsed'
        /\ \A g \in Hellos : t \in BootTokens /\ reservedBy[t] = g => g \in lapsed'
    BY <1>1, Zenon DEF Loses
  <1>4. /\ bound' \subseteq BootTokens /\ bound' \subseteq {pointer'}
        /\ bound \ {t} \subseteq bound'
    BY <1>1, Zenon DEF OneToken, TokensBound
  <1> QED BY <1>1, <1>2, <1>3, <1>4, ReservationEnds, Zenon

(* accept_verified_hello and upsert_device: a hello with a standing        *)
(* reservation writes its key over none, and it is the only one.           *)
LEMMA WritesOnce ==
    ASSUME AdmissionInv, NEW h \in Hellos,
           AcceptInMemory(h) \/ CheckHello(h) \/ UpsertHello(h)
    PROVE  /\ KeyInv'
           /\ KeyPinned
           /\ OwnerKept
           /\ DOMAIN devRow' = {"there", "key", "user"}
  <1>1. /\ holds' = holds /\ lapsed' = lapsed /\ cred[h].key # NoOne
        /\ DOMAIN devRow = {"there", "key", "user"}
    BY Zenon DEF AcceptInMemory, CheckHello, UpsertHello, AdmissionInv, AdmissionShape
  <1>2. \A g \in Hellos \ {h} : hpc'[g] = hpc[g]
    BY HelloMoves, Zenon DEF AcceptInMemory, CheckHello, UpsertHello, AdmissionInv
  <1>3. CASE devRow' = devRow /\ keyBy' = keyBy
    <2>1. ASSUME NEW g \in Hellos, hpc'[g] = "checked", holds[g], g \notin lapsed
          PROVE  keyBy = NoOne
      <3>1. CASE hpc[g] = "checked"
        BY <2>1, <3>1, Zenon DEF AdmissionInv, KeyInv
      <3>2. CASE hpc[g] # "checked"
        <4>1. g = h /\ hpc'[h] = "checked"
          BY <1>2, <2>1, <3>2, Zenon
        <4>2. CheckHello(h)
          <5>1. CASE AcceptInMemory(h)
            <6>1. hpc'[h] \in {"accepted", "closing"}
              BY <5>1, HelloMoves, Zenon DEF AcceptInMemory, AdmissionInv
            <6> QED BY <4>1, <6>1, SMT
          <5>2. CASE UpsertHello(h)
            <6>1. hpc'[h] = "written"
              BY <5>2, HelloMoves, Zenon DEF UpsertHello, AdmissionInv
            <6> QED BY <4>1, <6>1, SMT
          <5> QED BY <5>1, <5>2, Zenon
        <4>3. MayEnter(h)
          <5> SUFFICES ASSUME ~MayEnter(h) PROVE FALSE
            BY Zenon
          <5>1. hpc'[h] = "closing"
            BY <4>2, HelloMoves, Zenon DEF CheckHello, AdmissionInv
          <5> QED BY <4>1, <5>1, SMT
        <4>4. cred[h].method = "token"
          BY <2>1, <4>1, Zenon DEF AdmissionInv, OneToken, Holding
        <4>5. devRow.key = NoOne
          BY <4>3, <4>4, SMT DEF MayEnter
        <4> QED BY <4>5, Zenon DEF AdmissionInv, KeyInv
      <3> QED BY <3>1, <3>2, Zenon
    <2>2. keyBy # NoOne => devRow.key # NoOne
      BY Zenon DEF AdmissionInv, KeyInv
    <2>3. KeyInv'
      BY <1>1, <1>3, <2>1, <2>2, Zenon DEF KeyInv
    <2> QED BY <1>1, <1>3, <2>3, Zenon DEF KeyPinned, OwnerKept
  <1>4. CASE ~(devRow' = devRow /\ keyBy' = keyBy)
    <2>1. /\ DOMAIN devRow' = {"there", "key", "user"}
          /\ devRow'.key = cred[h].key /\ devRow'.user = devRow.user
      <3>1. CASE AcceptInMemory(h)
        <4>1. devRow' = [devRow EXCEPT !.key = cred[h].key]
          BY <1>4, <3>1, Zenon DEF AcceptInMemory
        <4> QED BY <1>1, <4>1, SMT
      <3>2. CASE UpsertHello(h)
        <4>1. devRow' = [there |-> TRUE, key |-> cred[h].key, user |-> devRow.user]
          BY <3>2, Zenon DEF UpsertHello
        <4> QED BY <4>1, SMT
      <3> QED BY <1>4, <3>1, <3>2, Zenon DEF CheckHello, devRowVars
    <2>2. \/ keyBy' = keyBy \/ keyBy' = NoOne
          \/ /\ keyBy' = h /\ holds[h] /\ h \notin lapsed
             /\ keyBy = NoOne
      <3>1. CASE AcceptInMemory(h)
        <4>1. keyBy' = keyBy \/ (devRow.key = NoOne /\ keyBy' = WritesKey(h))
          BY <3>1, Zenon DEF AcceptInMemory
        <4>2. devRow.key = NoOne => keyBy = NoOne
          BY Zenon DEF AdmissionInv, KeyInv
        <4> QED BY <4>1, <4>2, Zenon DEF WritesKey
      <3>2. CASE UpsertHello(h)
        <4>1. hpc[h] = "checked" /\ (keyBy' = keyBy \/ keyBy' = WritesKey(h))
          BY <3>2, Zenon DEF UpsertHello
        <4>2. holds[h] /\ h \notin lapsed => keyBy = NoOne
          BY <4>1, Zenon DEF AdmissionInv, KeyInv
        <4> QED BY <4>1, <4>2, Zenon DEF WritesKey
      <3> QED BY <1>4, <3>1, <3>2, Zenon DEF CheckHello, devRowVars
    <2>3. hpc'[h] # "checked"
      <3>1. AcceptInMemory(h) \/ UpsertHello(h)
        BY <1>4, Zenon DEF CheckHello, devRowVars
      <3>2. hpc'[h] \in {"accepted", "closing", "written"}
        BY <3>1, HelloMoves, Zenon DEF AcceptInMemory, UpsertHello, AdmissionInv
      <3> QED BY <3>2, SMT
    <2>4. ASSUME NEW g \in Hellos, hpc'[g] = "checked", holds[g], g \notin lapsed
          PROVE  keyBy' = NoOne
      <3>1. g # h /\ hpc[g] = "checked"
        BY <1>2, <2>3, <2>4, Zenon
      <3>2. keyBy = NoOne
        BY <2>4, <3>1, Zenon DEF AdmissionInv, KeyInv
      <3>3. ~(holds[h] /\ h \notin lapsed)
        BY <2>4, <3>1, OneHolder, Zenon DEF AdmissionInv
      <3> QED BY <2>2, <3>2, <3>3, Zenon
    <2>5. KeyInv'
      BY <1>1, <2>1, <2>4, Zenon DEF KeyInv
    <2>6. KeyPinned
      BY <2>2, Zenon DEF KeyPinned
    <2>7. OwnerKept
      BY <2>1, Zenon DEF OwnerKept
    <2> QED BY <2>1, <2>5, <2>6, <2>7, Zenon
  <1> QED BY <1>3, <1>4, Zenon

(* The admin's calls: they empty the row, fill one that is not there, or   *)
(* claim it for an owner it has or for its first one (pre_register_once).  *)
LEMMA AdminRows ==
    ASSUME DOMAIN devRow = {"there", "key", "user"}, NEW a \in Admins, AdminStep(a)
    PROVE  /\ keyBy' = NoOne \/ (keyBy' = keyBy /\ devRow' = devRow)
           /\ DOMAIN devRow' = {"there", "key", "user"}
           /\ OwnerKept
  <1>1. CASE devRow' = devRow /\ keyBy' = keyBy
    BY <1>1, Zenon DEF OwnerKept
  <1>2. CASE \E l : DeleteRow(a, l)
    <2>1. devRow' = NoRow /\ keyBy' = NoOne
      BY <1>2, Zenon DEF DeleteRow
    <2>2. DOMAIN devRow' = {"there", "key", "user"} /\ ~devRow'.there
      BY <2>1, SMT DEF NoRow
    <2> QED BY <2>1, <2>2, Zenon DEF OwnerKept
  <1>3. CASE InsertDevice(a) /\ ~devRow.there
    <2>1. devRow' = FreshRow /\ keyBy' = NoOne
      BY <1>3, Zenon DEF InsertDevice
    <2>2. DOMAIN devRow' = {"there", "key", "user"}
      BY <2>1, SMT DEF FreshRow, NoRow
    <2> QED BY <1>3, <2>1, <2>2, Zenon DEF OwnerKept
  <1>4. CASE (ClaimRow(a) \/ ClaimInMemory(a)) /\ Claimable(a)
    <2>1. devRow' = ClaimedBy(a) /\ keyBy' = NoOne
      BY <1>4, Zenon DEF ClaimRow, ClaimInMemory
    <2>2. DOMAIN devRow' = {"there", "key", "user"} /\ devRow'.user = aask[a].user
      BY <2>1, SMT DEF ClaimedBy
    <2> QED BY <1>4, <2>1, <2>2, Zenon DEF OwnerKept, Claimable
  <1>5. CASE InsertDevice(a) /\ devRow.there
    <2>1. devRow' = devRow /\ keyBy' = keyBy
      BY <1>5, Zenon DEF InsertDevice
    <2> QED BY <1>1, <2>1, Zenon
  <1>6. CASE (ClaimRow(a) \/ ClaimInMemory(a)) /\ ~Claimable(a)
    <2>1. devRow' = devRow /\ keyBy' = keyBy
      BY <1>6, Zenon DEF ClaimRow, ClaimInMemory
    <2> QED BY <1>1, <2>1, Zenon
  <1>7. CASE UndoInsert(a) \/ DeleteDevice(a) \/ RevokeDevice(a)
    <2>1. (\E l : DeleteRow(a, l)) \/ (devRow' = devRow /\ keyBy' = keyBy)
      BY <1>7, Zenon DEF UndoInsert, DeleteDevice, RevokeDevice, DropEntry, devRowVars
    <2> QED BY <1>1, <1>2, <2>1, Zenon
  <1>8. CASE IssueToken(a) \/ DeleteTokens(a) \/ Kick(a) \/ CheckOwner(a) \/ CacheClaim(a)
    <2>1. devRow' = devRow /\ keyBy' = keyBy
      BY <1>8, Zenon DEF IssueToken, DeleteTokens, Kick, CheckOwner, CacheClaim, devRowVars
    <2> QED BY <1>1, <2>1, Zenon
  <1> QED BY <1>3, <1>4, <1>5, <1>6, <1>7, <1>8, Zenon DEF AdminStep

(* What admin calls and hellos leave of the tables' shape.                 *)
LEMMA AdmissionShapeStep ==
    ASSUME AdmissionShape, AdmissionNext, DOMAIN devRow' = {"there", "key", "user"}
    PROVE  AdmissionShape'
  <1> USE DEF AdmissionNext, HelloStep, AdminStep, VerifyHello, AcceptInMemory, CheckHello,
          UpsertHello, CacheHello, Consume, JoinHub, HandshakeFails, Teardown, ReservationLapses,
          InsertDevice, IssueToken, UndoInsert, DeleteRow, DropEntry, DeleteDevice, DeleteTokens,
          RevokeDevice, Kick, CheckOwner, ClaimRow, CacheClaim, ClaimInMemory, HelloTo, Without,
          helloVars, tokenVars
  <1>1. cred' = cred
    BY Zenon
  <1>2. hpc' = [h \in Hellos |-> hpc'[h]]
    <2>1. \/ hpc' = hpc \/ \E h \in Hellos : \E l : hpc' = [hpc EXCEPT ![h] = l]
          \/ hpc' = [h \in Hellos |-> IF hpc[h] = "serving" THEN "closing" ELSE hpc[h]]
      BY Zenon
    <2> QED BY <2>1, Zenon DEF AdmissionShape
  <1>3. holds' = [h \in Hellos |-> holds'[h]]
    <2>1. holds' = holds \/ \E h \in Hellos : \E l : holds' = [holds EXCEPT ![h] = l]
      BY Zenon
    <2> QED BY <2>1, Zenon DEF AdmissionShape
  <1>4. reservedBy' = [t \in BootTokens |-> reservedBy'[t]]
    <2>1. \/ reservedBy' = reservedBy \/ \E t, l : reservedBy' = [reservedBy EXCEPT ![t] = l]
          \/ reservedBy' = [u \in BootTokens |-> IF u = pointer THEN NoOne ELSE reservedBy[u]]
      BY Zenon
    <2> QED BY <2>1, Zenon DEF AdmissionShape
  <1> QED BY <1>1, <1>2, <1>3, <1>4, Zenon DEF AdmissionShape

(* Every step of a hello keeps the invariant, the owner and the key.       *)
LEMMA HelloSteps ==
    ASSUME AdmissionInv, NEW h \in Hellos, HelloStep(h)
    PROVE  OneToken' /\ KeyInv' /\ DOMAIN devRow' = {"there", "key", "user"} /\ OwnerKept /\ KeyPinned
  <1>0. /\ AdmissionShape /\ OneToken /\ KeyInv
        /\ DOMAIN devRow = {"there", "key", "user"}
    BY Zenon DEF AdmissionInv, AdmissionShape
  <1>1. CASE AcceptInMemory(h) \/ CheckHello(h) \/ UpsertHello(h)
    <2>1. /\ UNCHANGED tokenVars /\ UNCHANGED <<cred, holds, unreleased, lapsed>>
          /\ \E l \in OnItsWay : HelloTo(h, l)
      BY <1>1, Zenon DEF AcceptInMemory, CheckHello, UpsertHello, OnItsWay
    <2>2. \A g \in Hellos : hpc[g] \in OnItsWay => hpc'[g] \in OnItsWay
      BY <1>0, <2>1, HelloMoves, Zenon
    <2>3. OneToken'
      BY <1>0, <2>1, <2>2, TokensRest, Zenon
    <2> QED BY <1>1, <2>3, WritesOnce, Zenon
  <1>2. CASE \/ VerifyHello(h) \/ CacheHello(h) \/ Consume(h) \/ JoinHub(h) \/ HandshakeFails(h)
             \/ Teardown(h)
    <2>1. devRow' = devRow /\ keyBy' = keyBy /\ lapsed' = lapsed
      BY <1>2, Zenon DEF VerifyHello, CacheHello, Consume, JoinHub, HandshakeFails, Teardown, devRowVars
    <2>2. PICK l \in {"verified", "closing", "accepted", "admitted", "serving", "closed"} : HelloTo(h, l)
      BY <1>2, Zenon DEF VerifyHello, CacheHello, Consume, JoinHub, HandshakeFails, Teardown
    <2>3. hpc'[h] = l /\ \A g \in Hellos \ {h} : hpc'[g] = hpc[g]
      BY <1>0, <2>2, HelloMoves, Zenon
    <2>4. hpc'[h] # "checked"
      BY <2>3, SMT
    <2>5. \A g \in Hellos \ {h} : holds'[g] = holds[g]
      BY <1>0, <1>2, Zenon DEF VerifyHello, CacheHello, Consume, JoinHub, HandshakeFails, Teardown,
             AdmissionShape
    <2>6. KeyInv'
      BY <1>0, <2>1, <2>3, <2>4, <2>5, Zenon DEF KeyInv
    <2>7. OwnerKept /\ KeyPinned /\ DOMAIN devRow' = {"there", "key", "user"}
      BY <1>0, <2>1, Zenon DEF OwnerKept, KeyPinned
    <2>8. CASE VerifyHello(h) \/ Consume(h) \/ Teardown(h)
      BY <1>0, <2>6, <2>7, <2>8, VerifyTokens, LeavingTokens, Zenon
    <2>9. CASE CacheHello(h) \/ JoinHub(h) \/ HandshakeFails(h)
      <3>1. UNCHANGED tokenVars /\ UNCHANGED <<cred, holds, unreleased, lapsed>>
        BY <2>9, Zenon DEF CacheHello, JoinHub, HandshakeFails
      <3>2. hpc[h] \in OnItsWay => hpc'[h] \in OnItsWay
        <4>1. CASE JoinHub(h)
          BY <4>1, SMT DEF JoinHub, OnItsWay
        <4>2. CASE CacheHello(h) \/ HandshakeFails(h)
          <5>1. \E k \in {"accepted", "closing"} : HelloTo(h, k)
            BY <4>2, Zenon DEF CacheHello, HandshakeFails
          <5>2. hpc'[h] \in {"accepted", "closing"}
            BY <1>0, <5>1, HelloMoves, Zenon
          <5> QED BY <5>2, Zenon DEF OnItsWay
        <4> QED BY <2>9, <4>1, <4>2, Zenon
      <3>3. OneToken'
        BY <1>0, <2>3, <3>1, <3>2, TokensRest, Zenon
      <3> QED BY <2>6, <2>7, <3>3, Zenon
    <2> QED BY <1>2, <2>8, <2>9, Zenon
  <1> QED BY <1>1, <1>2, Zenon DEF HelloStep

(* Every step of an admin call keeps the invariant, the owner and the key. *)
LEMMA AdminSteps ==
    ASSUME AdmissionInv, NEW a \in Admins, AdminStep(a)
    PROVE  OneToken' /\ KeyInv' /\ DOMAIN devRow' = {"there", "key", "user"} /\ OwnerKept /\ KeyPinned
  <1>0. /\ AdmissionShape /\ OneToken /\ KeyInv
        /\ DOMAIN devRow = {"there", "key", "user"}
    BY Zenon DEF AdmissionInv, AdmissionShape
  <1>1. /\ keyBy' = NoOne \/ (keyBy' = keyBy /\ devRow' = devRow)
        /\ DOMAIN devRow' = {"there", "key", "user"}
        /\ OwnerKept
    BY <1>0, AdminRows, Zenon
  <1>2. KeyPinned
    BY <1>1, Zenon DEF KeyPinned
  <1>3. /\ holds' = holds /\ cred' = cred /\ unreleased' = unreleased /\ lapsed \subseteq lapsed'
        /\ \/ hpc' = hpc
           \/ hpc' = [h \in Hellos |-> IF hpc[h] = "serving" THEN "closing" ELSE hpc[h]]
    BY Zenon DEF AdminStep, InsertDevice, IssueToken, UndoInsert, DeleteRow, DropEntry, DeleteDevice,
          DeleteTokens, RevokeDevice, Kick, CheckOwner, ClaimRow, CacheClaim, ClaimInMemory, helloVars,
          Loses
  <1>4. \A h \in Hellos : /\ hpc'[h] = "checked" => hpc[h] = "checked"
                          /\ hpc[h] \in OnItsWay => hpc'[h] \in OnItsWay
    BY <1>3, SMT DEF OnItsWay
  <1>5. KeyInv'
    <2>1. keyBy' # NoOne => devRow'.key # NoOne
      BY <1>0, <1>1, Zenon DEF KeyInv
    <2> QED BY <1>0, <1>1, <1>3, <1>4, <2>1, KeysRest, Zenon
  <1>6. OneToken'
    <2>1. CASE IssueToken(a) \/ DeleteTokens(a)
      BY <1>0, <2>1, DyingTokens, Zenon
    <2>2. CASE ~(IssueToken(a) \/ DeleteTokens(a))
      <3>1. UNCHANGED tokenVars /\ lapsed' = lapsed
        BY <2>2, Zenon DEF AdminStep, InsertDevice, UndoInsert, DeleteRow, DropEntry, DeleteDevice,
              RevokeDevice, Kick, CheckOwner, ClaimRow, CacheClaim, ClaimInMemory, helloVars
      <3> QED BY <1>0, <1>3, <1>4, <3>1, TokensRest, Zenon
    <2> QED BY <2>1, <2>2, Zenon
  <1> QED BY <1>1, <1>2, <1>5, <1>6, Zenon

(* Every step of admission keeps the invariant and what it promises.       *)
LEMMA AdmissionStep ==
    ASSUME AdmissionInv, AdmissionNext
    PROVE  AdmissionInv' /\ OwnerKept /\ KeyPinned
  <1>1. OneToken' /\ KeyInv' /\ DOMAIN devRow' = {"there", "key", "user"} /\ OwnerKept /\ KeyPinned
    <2>1. CASE \E t \in BootTokens : ReservationLapses(t)
      <3>1. /\ devRow' = devRow /\ keyBy' = keyBy /\ hpc' = hpc /\ holds' = holds
            /\ lapsed \subseteq lapsed'
        BY <2>1, Zenon DEF ReservationLapses, Loses, devRowVars
      <3>2. OneToken'
        BY <2>1, DyingTokens, Zenon DEF AdmissionInv
      <3>3. KeyInv'
        BY <3>1, Zenon DEF AdmissionInv, KeyInv
      <3>4. DOMAIN devRow' = {"there", "key", "user"} /\ OwnerKept /\ KeyPinned
        BY <3>1, Zenon DEF AdmissionInv, AdmissionShape, OwnerKept, KeyPinned
      <3> QED BY <3>2, <3>3, <3>4, Zenon
    <2> QED BY <2>1, HelloSteps, AdminSteps, Zenon DEF AdmissionNext
  <1> QED BY <1>1, AdmissionShapeStep, Zenon DEF AdmissionInv

(* Whatever hellos, admin calls, errors and expiries fall between the      *)
(* queries of admission: a device's owner never changes while it exists, a *)
(* key registered under one reservation is not overwritten under another,  *)
(* and no token stays reserved by a hello that has ended.                  *)
THEOREM AdmissionKeepsWord == AdmissionSpec => AdmissionSound
  <1>1. AdmissionInit => AdmissionInv
    <2> SUFFICES ASSUME AdmissionInit PROVE AdmissionInv
      OBVIOUS
    <2>1. \A h \in Hellos : cred[h].key # NoOne
      BY AdmissionAssumption, Zenon DEF AdmissionInit
    <2>2. DOMAIN devRow = {"there", "key", "user"}
      BY SMT DEF AdmissionInit, NoRow, FreshRow
    <2>3. AdmissionShape
      BY <2>1, <2>2, Zenon DEF AdmissionInit, AdmissionShape
    <2>4. bound \subseteq BootTokens /\ bound \subseteq {pointer}
      <3>1. issuedToks = 0 \/ issuedToks = 1
        BY Zenon DEF AdmissionInit
      <3>2. bound = 1..issuedToks /\ pointer = issuedToks
        BY Zenon DEF AdmissionInit
      <3> QED BY <3>1, <3>2, AdmissionAssumption, SMT
    <2>5. /\ \A t \in BootTokens : reservedBy[t] = NoOne
          /\ \A h \in Hellos : ~holds[h]
          /\ keyBy = NoOne
      BY Zenon DEF AdmissionInit
    <2>6. OneToken
      BY <2>4, <2>5, AdmissionAssumption, Zenon DEF OneToken, TokensBound, Reserving, Holding
    <2> QED BY <2>3, <2>5, <2>6, Zenon DEF AdmissionInv, KeyInv
  <1>2. ASSUME AdmissionInv, [AdmissionNext]_admissionVars
        PROVE  AdmissionInv'
    <2>1. CASE UNCHANGED admissionVars
      <3>1. /\ hpc' = hpc /\ holds' = holds /\ reservedBy' = reservedBy /\ devRow' = devRow
            /\ cred' = cred /\ keyBy' = keyBy /\ lapsed' = lapsed /\ UNCHANGED tokenVars
            /\ unreleased' = unreleased
        BY <2>1, Zenon DEF admissionVars, tokenVars
      <3>2. AdmissionShape'
        BY <1>2, <3>1, Zenon DEF AdmissionInv, AdmissionShape
      <3>3. OneToken'
        BY <1>2, <3>1, TokensRest, Zenon DEF AdmissionInv
      <3>4. KeyInv'
        BY <1>2, <3>1, Zenon DEF AdmissionInv, KeyInv
      <3> QED BY <3>2, <3>3, <3>4, Zenon DEF AdmissionInv
    <2> QED BY <1>2, <2>1, AdmissionStep, Zenon
  <1>3. ASSUME AdmissionInv, AdmissionInv', [AdmissionNext]_admissionVars
        PROVE  [OwnerKept /\ KeyPinned /\ NoStuckReservation]_admissionVars
    <2>1. NoStuckReservation
      <3> SUFFICES ASSUME NEW t \in BootTokens, reservedBy'[t] # NoOne
                   PROVE  hpc'[reservedBy'[t]] \in OnItsWay \/ reservedBy'[t] \in unreleased'
        BY Zenon DEF NoStuckReservation, OnItsWay
      <3>1. reservedBy'[t] \in Hellos
        BY <1>3, Zenon DEF AdmissionInv, OneToken, TokensBound
      <3> QED BY <1>3, <3>1, Zenon DEF AdmissionInv, OneToken, Reserving
    <2> QED BY <1>3, <2>1, AdmissionStep, Zenon
  <1> QED BY <1>1, <1>2, <1>3, PTL DEF AdmissionSpec, AdmissionSound
=============================================================================

------------------------- MODULE DaemonLinkProofs ---------------------------
(***************************************************************************)
(* The daemon's link to the hub, for any jobs, connections, frames and     *)
(* buffer; then the app-tool calls that come over it, for any number of    *)
(* deliveries and permits and any times.                                   *)
(***************************************************************************)
EXTENDS DaemonLink, AppTools, FiniteSetTheorems, TLAPS

(***************************************************************************)
(* AckBehindHub is not inductive: peer_ack comes from acknowledgements on  *)
(* their way, those from numbers the hub read, and a frame the hub drops   *)
(* as a duplicate is acknowledged too.  The invariant follows the number   *)
(* from the counter through channel, hub and acknowledgement.              *)
(***************************************************************************)
Frames == Nat \ {0}

LinkTypes ==
    /\ conn \in 0..MaxConn
    /\ nextSeq \in Frames
    /\ buffer \in SUBSET Frames /\ IsFiniteSet(buffer)
    /\ clone \in [Producers -> 0..MaxConn]
    /\ mine \in [Producers -> Nat]
    /\ sendTask \in SUBSET Connections
    /\ queue \in [Connections -> Seq(Frames)]

HubTypes ==
    /\ peerAck \in Nat
    /\ acks \in [Connections -> SUBSET Frames]
    /\ hubLast \in [Connections -> Nat]
    /\ processed \in SUBSET Frames

(* The loop is up or waiting only on a connection it made.                 *)
Dialled == dpc \in {"dial", "up", "await"} /\ (dpc # "dial" => conn \in Connections)

(* A connection's dedup mark is a number the hub handled.                  *)
MarkHandled == \A k \in Connections : hubLast[k] # 0 => hubLast[k] \in processed

(* So every acknowledgement in flight is at most a number it handled.      *)
AcksHandled == \A k \in Connections : \A n \in acks[k] : \E m \in processed : n <= m

LinkInv ==
    LinkTypes /\ HubTypes /\ Dialled /\ MarkHandled /\ AcksHandled /\ AckBehindHub

(* A fresh daemon with nothing sent.                                       *)
LEMMA InitLinkInv == Init => LinkInv
<1> SUFFICES ASSUME Init PROVE LinkInv
  BY Zenon
<1>1. LinkTypes
  BY LinkAssumption, FS_EmptySet DEF Init, LinkTypes, Frames, Connections
<1>2. HubTypes /\ Dialled /\ MarkHandled /\ AcksHandled /\ AckBehindHub
  BY Zenon DEF Init, HubTypes, Dialled, MarkHandled, AcksHandled, AckBehindHub
<1> QED BY <1>1, <1>2, Zenon DEF LinkInv

(* Outbox::store keeps a finite buffer of numbers.                         *)
LEMMA StoreType ==
    ASSUME buffer \in SUBSET Frames, IsFiniteSet(buffer), NEW n \in Frames
    PROVE  Store(n) \in SUBSET Frames /\ IsFiniteSet(Store(n))
<1>1. IsFiniteSet(buffer \cup {n})
  BY FS_AddElement, Zenon
<1>2. Store(n) \in SUBSET (buffer \cup {n})
  BY Zenon DEF Store
<1>3. IsFiniteSet(Store(n))
  BY <1>1, <1>2, FS_Subset, Zenon
<1> QED BY <1>2, <1>3, Zenon

(* Outbox::drain_unacked yields a sequence of buffered numbers.            *)
LEMMA DrainType ==
    ASSUME buffer \in SUBSET Frames, IsFiniteSet(buffer), NEW q \in DrainUnacked
    PROVE  q \in Seq(Frames)
<1> DEFINE n == Cardinality(buffer)
<1>1. n \in Nat
  BY FS_CardinalityType, Zenon
<1>2. q \in [1..n -> buffer]
  BY Zenon DEF DrainUnacked
<1> HIDE DEF n
<1>3. q \in [1..n -> Frames]
  BY <1>2, Zenon
<1> QED BY <1>1, <1>3

(* Steps that leave the hub, its marks and its acknowledgements alone.     *)
LEMMA HubIdle ==
    ASSUME LinkInv, UNCHANGED <<peerAck, acks, hubLast, processed>>
    PROVE  HubTypes' /\ MarkHandled' /\ AcksHandled' /\ AckBehindHub'
  BY Zenon DEF LinkInv, HubTypes, MarkHandled, AcksHandled, AckBehindHub

(* Reading a frame or a duplicate: the mark stays a handled number, and    *)
(* what is acknowledged is at most that mark.                              *)
LEMMA HubReadsKeeps == ASSUME LinkInv, HubReads PROVE LinkInv'
<1> DEFINE q == queue[conn]
           n == Head(q)
<1>1. conn \in Connections /\ q \in Seq(Frames) /\ q # <<>>
  BY Zenon DEF LinkInv, Dialled, LinkTypes, HubReads
<1>2. /\ processed' = IF n > hubLast[conn] THEN processed \cup {n} ELSE processed
      /\ hubLast' = [hubLast EXCEPT ![conn] = IF n > @ THEN n ELSE @]
      /\ acks' = [acks EXCEPT ![conn] = @ \cup {n}]
      /\ queue' = [queue EXCEPT ![conn] = Tail(q)]
      /\ UNCHANGED <<dpc, conn, nextSeq, peerAck, buffer, clone, mine, sendTask>>
  BY Zenon DEF HubReads
<1>3. n \in Frames /\ Tail(q) \in Seq(Frames)
  BY <1>1
<1> HIDE DEF n, q
<1>4. LinkTypes' /\ Dialled'
  BY <1>1, <1>2, <1>3, Zenon DEF LinkInv, LinkTypes, Dialled
<1>5. HubTypes'
  BY <1>1, <1>2, <1>3, Zenon DEF LinkInv, HubTypes, Frames
<1>6. processed \subseteq processed'
  BY <1>2, Zenon
<1>7. MarkHandled'
  BY <1>1, <1>2, <1>6, Zenon DEF LinkInv, HubTypes, MarkHandled
<1>8. \E m \in processed' : n <= m
  <2>1. CASE n > hubLast[conn]
    <3>1. n \in processed' /\ n \in Nat
      BY <1>2, <1>3, <2>1, Zenon DEF Frames
    <3> QED BY <3>1
  <2>2. CASE ~(n > hubLast[conn])
    BY <1>1, <1>2, <1>3, <2>2 DEF LinkInv, HubTypes, MarkHandled, Frames
  <2> QED BY <2>1, <2>2, Zenon
<1>9. AcksHandled'
  <2> SUFFICES ASSUME NEW k \in Connections, NEW a \in acks'[k]
               PROVE  \E m \in processed' : a <= m
    BY Zenon DEF AcksHandled
  <2>1. a \in acks[k] \/ a = n
    BY <1>2, Zenon DEF LinkInv, HubTypes
  <2> QED BY <1>6, <1>8, <2>1, Zenon DEF LinkInv, AcksHandled
<1>10. AckBehindHub'
  BY <1>2, <1>6, Zenon DEF LinkInv, AckBehindHub
<1> QED BY <1>4, <1>5, <1>7, <1>9, <1>10, Zenon DEF LinkInv

(* on_peer_ack: peer_ack takes a number that was on its way.               *)
LEMMA AckArrivesKeeps == ASSUME LinkInv, AckArrives PROVE LinkInv'
<1>1. PICK n \in acks[conn] :
          /\ acks' = [acks EXCEPT ![conn] = @ \ {n}]
          /\ peerAck' = IF n > peerAck THEN n ELSE peerAck
          /\ buffer' = {x \in buffer : x > peerAck'}
  BY Zenon DEF AckArrives
<1>2. conn \in Connections /\ UNCHANGED <<dpc, conn, nextSeq, clone, mine, sendTask,
                                          queue, hubLast, processed>>
  BY Zenon DEF LinkInv, Dialled, AckArrives
<1>3. n \in Frames /\ \E m \in processed : n <= m
  BY <1>1, <1>2, Zenon DEF LinkInv, HubTypes, AcksHandled
<1>4. IsFiniteSet(buffer')
  BY <1>1, FS_Subset, Zenon DEF LinkInv, LinkTypes
<1>5. LinkTypes' /\ Dialled'
  BY <1>1, <1>2, <1>4, Zenon DEF LinkInv, LinkTypes, Dialled
<1>6. HubTypes' /\ MarkHandled'
  BY <1>1, <1>2, <1>3, Zenon DEF LinkInv, HubTypes, MarkHandled, Frames
<1>7. AcksHandled'
  BY <1>1, <1>2, Zenon DEF LinkInv, HubTypes, AcksHandled
<1>8. AckBehindHub'
  BY <1>1, <1>2, <1>3, Zenon DEF LinkInv, AckBehindHub
<1> QED BY <1>5, <1>6, <1>7, <1>8, Zenon DEF LinkInv

(* Stamping stores a fresh number; pushing moves it to a live channel.     *)
LEMMA SendKeeps ==
    ASSUME LinkInv, NEW p \in Producers, Stamp(p) \/ Push(p)
    PROVE  LinkTypes'
<1>1. CASE Stamp(p)
  <2>1. Store(nextSeq) \in SUBSET Frames /\ IsFiniteSet(Store(nextSeq))
    BY StoreType, Zenon DEF LinkInv, LinkTypes
  <2>2. buffer' = Store(nextSeq) /\ nextSeq' = nextSeq + 1
        /\ mine' = [mine EXCEPT ![p] = nextSeq]
        /\ UNCHANGED <<conn, clone, sendTask, queue>>
    BY <1>1, Zenon DEF Stamp
  <2> QED BY <2>1, <2>2 DEF LinkInv, LinkTypes, Frames
<1>2. CASE Push(p)
  <2>1. mine[p] \in Frames /\ UNCHANGED <<conn, nextSeq, buffer, clone, sendTask>>
    BY <1>2, Zenon DEF Push, LinkInv, LinkTypes, Frames
  <2>2. mine' \in [Producers -> Nat]
    BY <1>2, Zenon DEF Push, LinkInv, LinkTypes
  <2>3. queue' \in [Connections -> Seq(Frames)]
    <3>1. CASE clone[p] \in sendTask
      <4> DEFINE c == clone[p]
                 q == Append(queue[c], mine[p])
      <4>1. c \in Connections /\ queue[c] \in Seq(Frames)
        BY <3>1, Zenon DEF LinkInv, LinkTypes
      <4>2. q \in Seq(Frames)
        BY <2>1, <4>1
      <4>3. queue' = [queue EXCEPT ![c] = q]
        BY <1>2, <3>1, Zenon DEF Push
      <4> HIDE DEF c, q
      <4> QED BY <4>1, <4>2, <4>3, Zenon DEF LinkInv, LinkTypes
    <3>2. CASE clone[p] \notin sendTask
      BY <1>2, <3>2, Zenon DEF Push, LinkInv, LinkTypes
    <3> QED BY <3>1, <3>2, Zenon
  <2> QED BY <2>1, <2>2, <2>3, Zenon DEF LinkInv, LinkTypes
<1> QED BY <1>1, <1>2, Zenon

(* Every step of daemon, jobs and hub preserves the invariant.             *)
LEMMA StepLinkInv == LinkInv /\ [Next]_vars => LinkInv'
<1> SUFFICES ASSUME LinkInv, [Next]_vars PROVE LinkInv'
  BY Zenon
<1> USE LinkAssumption
<1>1. ASSUME UNCHANGED <<peerAck, acks, hubLast, processed>>, LinkTypes', Dialled'
      PROVE  LinkInv'
  BY <1>1, HubIdle, Zenon DEF LinkInv
<1>2. CASE Connect
  <2>1. PICK q \in DrainUnacked : queue' = [queue EXCEPT ![conn + 1] = q]
    BY <1>2, Zenon DEF Connect
  <2>2. q \in Seq(Frames)
    BY DrainType, Zenon DEF LinkInv, LinkTypes
  <2>3. conn + 1 \in Connections
    BY <1>2 DEF Connect, Connections, LinkInv, LinkTypes
  <2>4. LinkTypes' /\ Dialled'
    BY <1>2, <2>1, <2>2, <2>3
       DEF Connect, Connections, Producers, LinkInv, LinkTypes, Dialled
  <2> QED BY <1>1, <1>2, <2>4, Zenon DEF Connect
<1>3. CASE SocketBreaks \/ Disconnected \/ \E k \in Connections : SendTaskEnds(k)
  <2>1. LinkTypes' /\ Dialled'
    BY <1>3, Zenon DEF SocketBreaks, Disconnected, SendTaskEnds, LinkInv, LinkTypes, Dialled
  <2> QED BY <1>1, <1>3, <2>1, Zenon DEF SocketBreaks, Disconnected, SendTaskEnds
<1>4. CASE Teardown
  <2>1. LinkTypes' /\ Dialled'
    BY <1>4 DEF Teardown, Producers, LinkInv, LinkTypes, Dialled
  <2> QED BY <1>1, <1>4, <2>1, Zenon DEF Teardown
<1>5. ASSUME NEW j \in Jobs, StartJob(j) \/ FinishJob(j) PROVE LinkInv'
  <2>1. clone' = [clone EXCEPT ![j] = conn] \/ clone' = [clone EXCEPT ![j] = 0]
    BY <1>5, Zenon DEF StartJob, FinishJob
  <2>2. UNCHANGED <<dpc, conn, nextSeq, buffer, mine, sendTask, queue>>
    BY <1>5, Zenon DEF StartJob, FinishJob
  <2>3. clone' \in [Producers -> 0..MaxConn]
    BY <2>1, SMTT(40) DEF Producers, LinkInv, LinkTypes
  <2>4. LinkTypes' /\ Dialled'
    BY <2>2, <2>3, Zenon DEF LinkInv, LinkTypes, Dialled
  <2> QED BY <1>1, <1>5, <2>4, Zenon DEF StartJob, FinishJob
<1>6. CASE \E p \in Producers : Stamp(p) \/ Push(p)
  <2>1. LinkTypes'
    BY <1>6, SendKeeps, Zenon
  <2>2. Dialled'
    BY <1>6, Zenon DEF Stamp, Push, LinkInv, Dialled
  <2> QED BY <1>1, <1>6, <2>1, <2>2, Zenon DEF Stamp, Push
<1>7. CASE HubReads
  BY <1>7, HubReadsKeeps, Zenon
<1>8. CASE AckArrives
  BY <1>8, AckArrivesKeeps, Zenon
<1>9. CASE UNCHANGED vars
  <2>1. LinkTypes' /\ Dialled'
    BY <1>9, Zenon DEF vars, LinkInv, LinkTypes, Dialled
  <2> QED BY <1>1, <1>9, <2>1, Zenon DEF vars
<1> QED BY <1>2, <1>3, <1>4, <1>5, <1>6, <1>7, <1>8, <1>9, Zenon DEF Next

(* However jobs of old connections race the heartbeat of the new one, the  *)
(* daemon's Outbox never trims past what the hub has handled.              *)
THEOREM AckNeverAhead == Spec => []AckBehindHub
<1>1. LinkInv => AckBehindHub
  BY Zenon DEF LinkInv
<1> QED BY <1>1, InitLinkInv, StepLinkInv, PTL DEF Spec

----------------------------------------------------------------------------
(***************************************************************************)
(* App-tool calls: CallsSound.                                             *)
(***************************************************************************)
Stages == {"new", "checked", "lookup", "approval", "ready", "exec", "finish", "push", "done"}
Underway == Stages \ {"new", "done"}
Completed == {d \in Deliveries : call[d] = "done"}

CallTypes ==
    /\ loopOn \in Deliveries \cup {NoCall}
    /\ call \in [Deliveries -> Stages]
    /\ age \in [Deliveries -> Nat]
    /\ execSince \in [Deliveries -> Nat] /\ execBudget \in [Deliveries -> Nat]
    /\ runningIds \subseteq CallIds
    /\ remembered \in Seq(CallIds)
    /\ toolPermits \in Nat
    /\ handling \subseteq Deliveries
    /\ asked \in [CallIds -> Deliveries \cup {NoCall}]
    /\ handled \in [CallIds -> Nat]
    /\ slipped \subseteq Deliveries

(* Approval and execution share the call's time.                           *)
TimeInv ==
    \A d \in Deliveries :
        /\ call[d] \in {"new", "checked", "lookup"} => age[d] = 0
        /\ call[d] \in {"approval", "ready"} => age[d] <= ApprovalWait
        /\ call[d] = "exec" =>
              /\ execSince[d] <= ApprovalWait
              /\ execSince[d] <= age[d] /\ age[d] <= execSince[d] + execBudget[d]
              /\ execBudget[d] = IF execSince[d] + MinExec < Total THEN Total - execSince[d] ELSE MinExec
        /\ age[d] <= Total + MinExec

HandlerInv ==
    /\ \A d \in handling : call[d] \in {"exec", "finish", "push", "done"}
    /\ PermitsHeldByHandlers

Slipped(i) == \E d \in slipped : callOf[d] = i

(* Of a call id no copy of which slipped by, at most one delivery is under *)
(* way; it is served by the loop or its id is running; before it executes  *)
(* the id was neither handled nor remembered, afterwards it is one of them.*)
OneUnderway(i) ==
    \A d, e \in Deliveries :
        callOf[d] = i /\ callOf[e] = i /\ call[d] \in Underway /\ call[e] \in Underway => d = e
Guarded(i) ==
    \A d \in Deliveries :
        callOf[d] = i /\ call[d] \in Underway \ {"push"} => loopOn = d \/ i \in runningIds
Unhandled(i) ==
    \A d \in Deliveries :
        callOf[d] = i /\ call[d] \in {"lookup", "approval", "ready"} => handled[i] = 0
Kept(i) ==
    handled[i] > 0 =>
        \/ \E d \in Deliveries : callOf[d] = i /\ call[d] \in {"exec", "finish", "push"}
        \/ \E k \in DOMAIN remembered : remembered[k] = i

OnceInv(i) == OneUnderway(i) /\ Guarded(i) /\ Unhandled(i) /\ Kept(i) /\ handled[i] <= 1

RememberInv ==
    /\ Len(remembered) <= Cardinality(Completed)
    /\ Cardinality(Completed) <= MaxRemembered => \A i \in CallIds : ~Slipped(i) => OnceInv(i)

CallInv == CallTypes /\ TimeInv /\ HandlerInv /\ RememberInv

(* No delivery, no handler, every permit free.                             *)
LEMMA CallInvInit == CallInit => CallInv
  <1> SUFFICES ASSUME CallInit PROVE CallInv
    BY Zenon
  <1> USE AppToolAssumption DEF CallInit
  <1>1. CallTypes
    BY DEF CallTypes, Stages, CallIds
  <1>2. TimeInv
    BY DEF TimeInv, ApprovalWait
  <1>3. HandlerInv
    BY FS_EmptySet DEF HandlerInv, PermitsHeldByHandlers
  <1>4. Completed = {}
    BY Zenon DEF Completed
  <1>5. RememberInv
    BY <1>4, FS_EmptySet DEF RememberInv, OnceInv, OneUnderway, Guarded, Unhandled, Kept, Underway, Stages
  <1> QED BY <1>1, <1>2, <1>3, <1>5, Zenon DEF CallInv

(* A step of one delivery.                                                 *)
DeliveryStep(d) == CheckToolRunning(d) \/ Serve(d) \/ HandlerEnds(d)

(* The steps of a delivery keep the types.                                 *)
LEMMA CallTypesStep ==
    ASSUME CallTypes, NEW d \in Deliveries, DeliveryStep(d)
    PROVE  CallTypes'
  <1> USE AppToolAssumption
  <1>0. callOf[d] \in CallIds
    BY Zenon DEF CallIds
  <1>1. call' \in [Deliveries -> Stages]
    <2>1. PICK st \in Stages : At(d, st) \/ UNCHANGED call
      BY Zenon DEF DeliveryStep, Serve, CheckToolRunning, CheckToolCompleted, Refuse, NeedsApproval,
         Allow, WaiterAnswered, WaiterExpires, Invalid, Execute, Begin, TimedOut, HandlerEnds, Joined,
         RemoveRunning, PushCompleted, Stages
    <2> QED BY <2>1, ZenonT(40) DEF At, CallTypes
  <1>2. loopOn' \in Deliveries \cup {NoCall} /\ slipped' \subseteq Deliveries /\ age' = age
    BY Zenon DEF DeliveryStep, Serve, CheckToolRunning, CheckToolCompleted, Refuse, NeedsApproval,
       Allow, WaiterAnswered, WaiterExpires, Invalid, Execute, Begin, TimedOut, HandlerEnds, Joined,
       RemoveRunning, PushCompleted, CallTypes
  <1>3. runningIds' \subseteq CallIds /\ asked' \in [CallIds -> Deliveries \cup {NoCall}]
    BY <1>0, ZenonT(40) DEF DeliveryStep, Serve, CheckToolRunning, CheckToolCompleted, Refuse, NeedsApproval,
       Allow, WaiterAnswered, WaiterExpires, Invalid, Execute, Begin, TimedOut, HandlerEnds, Joined,
       RemoveRunning, PushCompleted, CallTypes
  <1>4. /\ toolPermits' \in Nat /\ handling' \subseteq Deliveries /\ handled' \in [CallIds -> Nat]
        /\ execSince' \in [Deliveries -> Nat] /\ execBudget' \in [Deliveries -> Nat]
    <2>1. CASE Execute(d)
      <3>1. PICK b \in Nat : Begin(d, b)
        <4>1. age[d] \in Nat
          BY Zenon DEF CallTypes
        <4>2. (IF age[d] + MinExec < Total THEN Total - age[d] ELSE MinExec) \in Nat
          BY <4>1, SMTT(40)
        <4> QED BY <2>1, <4>2, Zenon DEF Execute
      <3> QED BY <1>0, <3>1 DEF Begin, CallTypes
    <2>2. CASE ~Execute(d)
      BY <2>2 DEF DeliveryStep, Serve, CheckToolRunning, CheckToolCompleted, Refuse, NeedsApproval,
         Allow, WaiterAnswered, WaiterExpires, Invalid, TimedOut, HandlerEnds, Joined,
         RemoveRunning, PushCompleted, CallTypes
    <2> QED BY <2>1, <2>2, Zenon
  <1>5. remembered' \in Seq(CallIds)
    <2>1. CASE PushCompleted(d)
      <3> DEFINE all == Append(remembered, callOf[d])
      <3>0. remembered \in Seq(CallIds)
        BY Zenon DEF CallTypes
      <3>1. all \in Seq(CallIds) /\ all # <<>>
        BY <1>0, <3>0
      <3> HIDE DEF all
      <3>2. Tail(all) \in Seq(CallIds)
        BY <3>1
      <3> USE DEF all
      <3> QED BY <2>1, <3>1, <3>2, Zenon DEF PushCompleted
    <2>2. CASE ~PushCompleted(d)
      BY <2>2, Zenon DEF DeliveryStep, Serve, CheckToolRunning, CheckToolCompleted, Refuse, NeedsApproval,
         Allow, WaiterAnswered, WaiterExpires, Invalid, Execute, Begin, TimedOut, HandlerEnds, Joined,
         RemoveRunning, CallTypes
    <2> QED BY <2>1, <2>2, Zenon
  <1> QED BY <1>1, <1>2, <1>3, <1>4, <1>5, Zenon DEF CallTypes

(* Approval and execution stay within the time they share.                 *)
LEMMA TimeStep ==
    ASSUME CallTypes, TimeInv, NEW d \in Deliveries, DeliveryStep(d)
    PROVE  TimeInv'
  <1> USE AppToolAssumption DEF CallTypes, ApprovalWait
  <1>1. CASE CheckToolRunning(d) \/ CheckToolCompleted(d) \/ Refuse(d)
    BY <1>1, ZenonT(40) DEF CheckToolRunning, CheckToolCompleted, Refuse, At, TimeInv
  <1>2. CASE NeedsApproval(d) \/ Allow(d)
    BY <1>2 DEF NeedsApproval, Allow, At, TimeInv
  <1>3. CASE WaiterAnswered(d) \/ WaiterExpires(d) \/ Invalid(d)
    BY <1>3, SMTT(40) DEF WaiterAnswered, WaiterExpires, Invalid, At, TimeInv
  <1>4. CASE Execute(d)
    <2> DEFINE b == IF age[d] + MinExec < Total THEN Total - age[d] ELSE MinExec
    <2>1. /\ call[d] = "ready" /\ age' = age /\ call' = [call EXCEPT ![d] = "exec"]
          /\ execSince' = [execSince EXCEPT ![d] = age[d]]
          /\ execBudget' = [execBudget EXCEPT ![d] = b]
      BY <1>4, Zenon DEF Execute, Begin, At
    <2>2. b \in Nat /\ age[d] <= ApprovalWait
      BY <2>1 DEF TimeInv
    <2> QED BY <2>1, <2>2, SMTT(40) DEF TimeInv
  <1>5. CASE TimedOut(d) \/ Joined(d) \/ RemoveRunning(d) \/ PushCompleted(d)
    BY <1>5, ZenonT(40) DEF TimedOut, Joined, RemoveRunning, PushCompleted, At, TimeInv
  <1>6. CASE HandlerEnds(d)
    BY <1>6, Zenon DEF HandlerEnds, TimeInv
  <1> QED BY <1>1, <1>2, <1>3, <1>4, <1>5, <1>6, Zenon DEF DeliveryStep, Serve

(* A handler holds its permit until it returns.                            *)
LEMMA HandlerStep ==
    ASSUME CallTypes, HandlerInv, NEW d \in Deliveries, DeliveryStep(d)
    PROVE  HandlerInv'
  <1> USE AppToolAssumption DEF CallTypes
  <1>0. IsFiniteSet(handling) /\ Cardinality(handling) \in Nat
    BY FS_Subset, FS_CardinalityType, Zenon
  <1>1. CASE Execute(d)
    <2>1. /\ call[d] = "ready" /\ toolPermits > 0 /\ toolPermits' = toolPermits - 1
          /\ handling' = handling \cup {d} /\ call' = [call EXCEPT ![d] = "exec"]
      BY <1>1, Zenon DEF Execute, Begin, At
    <2>2. d \notin handling
      BY <2>1, Zenon DEF HandlerInv
    <2>3. Cardinality(handling') = Cardinality(handling) + 1
      BY <1>0, <2>1, <2>2, FS_AddElement, Zenon
    <2> QED BY <1>0, <2>1, <2>3, SMTT(40) DEF HandlerInv, PermitsHeldByHandlers
  <1>2. CASE HandlerEnds(d)
    <2>1. Cardinality(handling') = Cardinality(handling) - 1
      BY <1>0, <1>2, FS_RemoveElement, Zenon DEF HandlerEnds
    <2> QED BY <1>0, <1>2, <2>1 DEF HandlerEnds, HandlerInv, PermitsHeldByHandlers
  <1>3. CASE ~Execute(d) /\ ~HandlerEnds(d)
    <2>1. UNCHANGED <<handling, toolPermits>>
      BY <1>3, Zenon DEF DeliveryStep, Serve, CheckToolRunning, CheckToolCompleted, Refuse, NeedsApproval,
         Allow, WaiterAnswered, WaiterExpires, Invalid, TimedOut, Joined, RemoveRunning, PushCompleted
    <2>2. PICK st \in Stages : call' = [call EXCEPT ![d] = st] /\
             (call[d] \in {"exec", "finish", "push", "done"} => st \in {"finish", "push", "done"})
      BY <1>3, Zenon DEF DeliveryStep, Serve, CheckToolRunning, CheckToolCompleted, Refuse, NeedsApproval,
         Allow, WaiterAnswered, WaiterExpires, Invalid, TimedOut, Joined, RemoveRunning, PushCompleted,
         At, Stages
    <2> QED BY <2>1, <2>2, Zenon DEF HandlerInv, PermitsHeldByHandlers
  <1> QED BY <1>1, <1>2, <1>3, Zenon

(* A delivery that is done stays done.                                     *)
LEMMA CompletedGrows ==
    ASSUME CallTypes, NEW d \in Deliveries, DeliveryStep(d)
    PROVE  /\ IsFiniteSet(Completed') /\ Cardinality(Completed) \in Nat /\ Cardinality(Completed') \in Nat
           /\ Cardinality(Completed) <= Cardinality(Completed')
           /\ slipped \subseteq slipped'
  <1> USE AppToolAssumption
  <1>1. IsFiniteSet(Completed) /\ IsFiniteSet(Completed')
    BY FS_Subset, Zenon DEF Completed
  <1>2. call[d] = "done" => UNCHANGED call
    BY Zenon DEF DeliveryStep, Serve, CheckToolRunning, CheckToolCompleted, Refuse, NeedsApproval,
       Allow, WaiterAnswered, WaiterExpires, Invalid, Execute, Begin, TimedOut, HandlerEnds, Joined,
       RemoveRunning, PushCompleted
  <1>3. \A e \in Deliveries : e # d => call'[e] = call[e]
    BY Zenon DEF DeliveryStep, Serve, CheckToolRunning, CheckToolCompleted, Refuse, NeedsApproval,
       Allow, WaiterAnswered, WaiterExpires, Invalid, Execute, Begin, TimedOut, HandlerEnds, Joined,
       RemoveRunning, PushCompleted, At, CallTypes
  <1>4. Completed \subseteq Completed'
    BY <1>2, <1>3, Zenon DEF Completed
  <1>5. slipped \subseteq slipped'
    BY Zenon DEF DeliveryStep, Serve, CheckToolRunning, CheckToolCompleted, Refuse, NeedsApproval,
       Allow, WaiterAnswered, WaiterExpires, Invalid, Execute, Begin, TimedOut, HandlerEnds, Joined,
       RemoveRunning, PushCompleted
  <1> QED BY <1>1, <1>4, <1>5, FS_Subset, FS_CardinalityType, Zenon

(* mark_completed drops an id only when there are more completed calls     *)
(* than it keeps.                                                          *)
LEMMA PushRemembers ==
    ASSUME CallTypes, Len(remembered) <= Cardinality(Completed), NEW d \in Deliveries, PushCompleted(d)
    PROVE  /\ Len(remembered') <= Cardinality(Completed')
           /\ Cardinality(Completed') <= MaxRemembered => remembered' = Append(remembered, callOf[d])
  <1> USE AppToolAssumption
  <1> DEFINE all == Append(remembered, callOf[d])
  <1>1. IsFiniteSet(Completed) /\ Cardinality(Completed) \in Nat
    BY FS_Subset, FS_CardinalityType, Zenon DEF Completed
  <1>2. d \notin Completed /\ Completed' = Completed \cup {d}
    BY DEF PushCompleted, At, Completed, CallTypes
  <1>3. Cardinality(Completed') = Cardinality(Completed) + 1
    BY <1>1, <1>2, FS_AddElement, Zenon
  <1>4. remembered \in Seq(CallIds) /\ callOf[d] \in CallIds
    BY Zenon DEF CallTypes, CallIds
  <1>5. all \in Seq(CallIds) /\ Len(all) = Len(remembered) + 1 /\ Len(remembered) \in Nat
    BY <1>4
  <1>6. Len(Tail(all)) = Len(remembered)
    BY <1>4, <1>5
  <1>7. remembered' = IF Len(all) > MaxRemembered THEN Tail(all) ELSE all
    BY Zenon DEF PushCompleted
  <1> HIDE DEF all
  <1>8. Len(remembered') <= Cardinality(Completed')
    BY <1>1, <1>3, <1>5, <1>6, <1>7
  <1>9. Cardinality(Completed') <= MaxRemembered => remembered' = all
    BY <1>1, <1>3, <1>5, <1>7
  <1> QED BY <1>8, <1>9, Zenon DEF all

(* A call id that no copy slipped by is handled once.                      *)
LEMMA OnceStep ==
    ASSUME CallTypes, NEW i \in CallIds, OnceInv(i), NEW d \in Deliveries, DeliveryStep(d), ~Slipped(i)',
           PushCompleted(d) => remembered' = Append(remembered, callOf[d])
    PROVE  OnceInv(i)'
  <1> USE AppToolAssumption
  <1>0. callOf[d] \in CallIds
    BY Zenon DEF CallIds
  <1>1. CASE CheckToolRunning(d)
    <2>1. CASE call' = [call EXCEPT ![d] = "done"] /\ UNCHANGED loopOn
      BY <1>1, <2>1, Zenon DEF CheckToolRunning, OnceInv, OneUnderway, Guarded, Unhandled, Kept, Underway,
         Stages, CallTypes
    <2>2. CASE callOf[d] \notin runningIds /\ call' = [call EXCEPT ![d] = "checked"] /\ loopOn' = d
      <3>1. callOf[d] = i => \A e \in Deliveries : callOf[e] = i => call[e] # "push"
        BY <1>1, <2>2, Zenon DEF CheckToolRunning, Slipped
      <3>2. callOf[d] = i => \A e \in Deliveries : callOf[e] = i => call[e] \notin Underway
        BY <1>1, <2>2, <3>1, Zenon DEF CheckToolRunning, OnceInv, OneUnderway, Guarded, CallTypes, Underway
      <3>3. UNCHANGED <<runningIds, remembered, handled>> /\ loopOn = NoCall /\ call[d] = "new"
        BY <1>1, Zenon DEF CheckToolRunning
      <3> QED BY <2>2, <3>2, <3>3, SMTT(40) DEF OnceInv, OneUnderway, Guarded, Unhandled, Kept, Underway, Stages, CallTypes
    <2> QED BY <1>1, <2>1, <2>2, Zenon DEF CheckToolRunning, At
  <1>2. CASE CheckToolCompleted(d)
    <2>1. UNCHANGED <<runningIds, remembered, handled>> /\ loopOn = d /\ call[d] = "checked"
      BY <1>2, Zenon DEF CheckToolCompleted
    <2>2. CASE call' = [call EXCEPT ![d] = "done"] /\ loopOn' = NoCall
      <3>1. \A e \in Deliveries : e # d /\ callOf[e] = i /\ call[e] \in Underway \ {"push"} => i \in runningIds
        BY <2>1, Zenon DEF OnceInv, Guarded, Unhandled
      <3> QED BY <2>1, <2>2, <3>1, Zenon DEF OnceInv, OneUnderway, Guarded, Unhandled, Kept, Underway, Stages, CallTypes
    <2>3. CASE /\ ~\E k \in DOMAIN remembered : remembered[k] = callOf[d]
               /\ call' = [call EXCEPT ![d] = "lookup"] /\ loopOn' = loopOn
      <3>1. callOf[d] = i => ~\E e \in Deliveries : callOf[e] = i /\ call[e] \in {"exec", "finish", "push"}
        BY <2>1, Zenon DEF OnceInv, OneUnderway, Guarded, Unhandled, Kept, Underway, Stages
      <3>2. callOf[d] = i => handled[i] = 0
        BY <2>3, <3>1 DEF OnceInv, Kept, CallTypes
      <3>3. OneUnderway(i)' /\ Guarded(i)'
        BY <2>1, <2>3, SMTT(40) DEF OnceInv, OneUnderway, Guarded, Underway, Stages, CallTypes
      <3>4. Unhandled(i)' /\ Kept(i)'
        BY <2>1, <2>3, <3>2, Zenon DEF OnceInv, Unhandled, Kept, CallTypes
      <3> QED BY <2>1, <3>3, <3>4, Zenon DEF OnceInv
    <2> QED BY <1>2, <2>2, <2>3, Zenon DEF CheckToolCompleted, At
  <1>3. CASE Refuse(d)
    <2>1. \A e \in Deliveries : e # d /\ callOf[e] = i /\ call[e] \in Underway \ {"push"} => i \in runningIds
      BY <1>3, Zenon DEF Refuse, OnceInv, Guarded
    <2> QED BY <1>3, <2>1, Zenon DEF Refuse, At, OnceInv, OneUnderway, Guarded, Unhandled, Kept, Underway, Stages, CallTypes
  <1>4. CASE NeedsApproval(d)
    <2>1. \A e \in Deliveries : e # d /\ callOf[e] = i /\ call[e] \in Underway \ {"push"} => i \in runningIds
      BY <1>4, Zenon DEF NeedsApproval, OnceInv, Guarded
    <2>2. /\ loopOn = d /\ call[d] = "lookup" /\ call' = [call EXCEPT ![d] = "approval"]
          /\ runningIds' = runningIds \cup {callOf[d]} /\ UNCHANGED <<remembered, handled>>
      BY <1>4, Zenon DEF NeedsApproval, At
    <2>3. OneUnderway(i)' /\ Guarded(i)'
      BY <2>1, <2>2 DEF OnceInv, OneUnderway, Guarded, Underway, Stages, CallTypes
    <2>4. Unhandled(i)' /\ Kept(i)'
      BY <2>2, Zenon DEF OnceInv, Unhandled, Kept, CallTypes
    <2> QED BY <2>2, <2>3, <2>4, Zenon DEF OnceInv
  <1>5. CASE Allow(d) \/ WaiterAnswered(d) \/ WaiterExpires(d) \/ Invalid(d) \/ TimedOut(d) \/ Joined(d)
    <2>1. PICK st \in {"ready", "finish"} : call' = [call EXCEPT ![d] = st] /\
             (st = "ready" => call[d] \in {"lookup", "approval"})
      BY <1>5, Zenon DEF Allow, WaiterAnswered, WaiterExpires, Invalid, TimedOut, Joined, At
    <2>2. UNCHANGED <<loopOn, runningIds, remembered, handled>>
          /\ call[d] \in {"lookup", "approval", "ready", "exec"}
      BY <1>5, Zenon DEF Allow, WaiterAnswered, WaiterExpires, Invalid, TimedOut, Joined
    <2>3. OneUnderway(i)' /\ Guarded(i)'
      BY <2>1, <2>2, SMTT(40) DEF OnceInv, OneUnderway, Guarded, Underway, Stages, CallTypes
    <2>4. Unhandled(i)'
      BY <2>1, <2>2, Zenon DEF OnceInv, Unhandled, CallTypes
    <2>5. Kept(i)'
      BY <2>1, <2>2, Zenon DEF OnceInv, Kept, CallTypes
    <2> QED BY <2>2, <2>3, <2>4, <2>5, Zenon DEF OnceInv
  <1>6. CASE Execute(d)
    <2>1. /\ call[d] = "ready" /\ call' = [call EXCEPT ![d] = "exec"]
          /\ runningIds' = runningIds \cup {callOf[d]}
          /\ handled' = [handled EXCEPT ![callOf[d]] = @ + 1]
          /\ loopOn' = IF loopOn = d THEN NoCall ELSE loopOn
          /\ UNCHANGED remembered
      BY <1>6, Zenon DEF Execute, Begin, At
    <2>2. callOf[d] = i => handled[i] = 0
      BY <2>1, Zenon DEF OnceInv, Guarded, Unhandled
    <2>3. handled'[i] = IF callOf[d] = i THEN 1 ELSE handled[i]
      BY <1>0, <2>1, <2>2 DEF CallTypes
    <2>4. \A e \in Deliveries : e # d /\ callOf[e] = i /\ callOf[d] = i => call[e] \notin Underway
      BY <2>1, Zenon DEF OnceInv, OneUnderway, Guarded, Unhandled, Kept, Underway, Stages
    <2>5. \A e \in Deliveries : e # d /\ callOf[e] = i /\ call[e] \in Underway \ {"push"} => loopOn' = e \/ i \in runningIds'
      BY <2>1, Zenon DEF OnceInv, Guarded, Unhandled
    <2>6. OneUnderway(i)'
      BY <2>1, <2>4 DEF OnceInv, OneUnderway, Underway, Stages, CallTypes
    <2>7. Guarded(i)'
      BY <2>1, <2>5, Zenon DEF Guarded, CallTypes
    <2>8. Unhandled(i)'
      BY <2>1, <2>3, <2>4, Zenon DEF OnceInv, Unhandled, Underway, Stages, CallTypes
    <2>9. Kept(i)'
      BY <2>1, <2>3, Zenon DEF OnceInv, Kept, CallTypes
    <2> QED BY <2>3, <2>6, <2>7, <2>8, <2>9 DEF OnceInv
  <1>7. CASE HandlerEnds(d)
    BY <1>7, Zenon DEF HandlerEnds, OnceInv, OneUnderway, Guarded, Unhandled, Kept
  <1>8. CASE RemoveRunning(d)
    BY <1>8, Zenon DEF RemoveRunning, At, OnceInv, OneUnderway, Guarded, Unhandled, Kept, Underway, Stages, CallTypes
  <1>9. CASE PushCompleted(d)
    <2>1. /\ call[d] = "push" /\ call' = [call EXCEPT ![d] = "done"]
          /\ loopOn' = IF loopOn = d THEN NoCall ELSE loopOn
          /\ UNCHANGED <<runningIds, handled>>
      BY <1>9, Zenon DEF PushCompleted, At
    <2>2. \A j \in CallIds : (\E k \in DOMAIN remembered' : remembered'[k] = j) <=>
             (j = callOf[d] \/ \E k \in DOMAIN remembered : remembered[k] = j)
      <3>1. remembered \in Seq(CallIds) /\ remembered' = Append(remembered, callOf[d])
        BY <1>9, Zenon DEF CallTypes
      <3> QED BY <1>0, <3>1
    <2> QED BY <2>1, <2>2, SMTT(40) DEF OnceInv, OneUnderway, Guarded, Unhandled, Kept, Underway, Stages, CallTypes
  <1> QED BY <1>1, <1>2, <1>3, <1>4, <1>5, <1>6, <1>7, <1>8, <1>9, Zenon DEF DeliveryStep, Serve

(* What mark_completed remembers is enough while it forgets nothing.       *)
LEMMA RememberStep ==
    ASSUME CallTypes, RememberInv, NEW d \in Deliveries, DeliveryStep(d)
    PROVE  RememberInv'
  <1> USE AppToolAssumption
  <1>1. /\ PushCompleted(d) => Len(remembered') <= Cardinality(Completed')
        /\ PushCompleted(d) /\ Cardinality(Completed') <= MaxRemembered =>
              remembered' = Append(remembered, callOf[d])
    BY PushRemembers, Zenon DEF RememberInv
  <1>2. ~PushCompleted(d) => UNCHANGED remembered
    BY Zenon DEF DeliveryStep, Serve, CheckToolRunning, CheckToolCompleted, Refuse, NeedsApproval,
       Allow, WaiterAnswered, WaiterExpires, Invalid, Execute, Begin, TimedOut, HandlerEnds, Joined,
       RemoveRunning
  <1>3. Len(remembered) \in Nat
    BY DEF CallTypes
  <1>0. /\ Cardinality(Completed) \in Nat /\ Cardinality(Completed') \in Nat
        /\ Cardinality(Completed) <= Cardinality(Completed')
        /\ slipped \subseteq slipped'
    BY CompletedGrows, Zenon
  <1>4. Len(remembered') <= Cardinality(Completed')
    BY <1>0, <1>1, <1>2, <1>3 DEF RememberInv
  <1>5. ASSUME Cardinality(Completed') <= MaxRemembered, NEW i \in CallIds, ~Slipped(i)'
        PROVE  OnceInv(i)'
    <2>1. Cardinality(Completed) <= MaxRemembered
      BY <1>0, <1>5
    <2>2. ~Slipped(i)
      BY <1>0, <1>5, Zenon DEF Slipped
    <2>3. OnceInv(i)
      BY <2>1, <2>2, Zenon DEF RememberInv
    <2>4. PushCompleted(d) => remembered' = Append(remembered, callOf[d])
      BY <1>1, <1>5, Zenon
    <2> QED BY <1>5, <2>3, <2>4, OnceStep, Zenon
  <1> QED BY <1>4, <1>5, Zenon DEF RememberInv

(* Time and the user's answers touch no delivery's stage.                  *)
LEMMA OutsideStep ==
    ASSUME CallInv, \/ Tick \/ UNCHANGED callVars
                    \/ \E i \in CallIds, v \in {"granted", "denied"} : Resolve(i, v)
    PROVE  CallInv'
  <1> USE AppToolAssumption
  <1>1. UNCHANGED <<loopOn, call, execSince, execBudget, runningIds, remembered, toolPermits, handling,
                    handled, slipped>>
    BY Zenon DEF Tick, Resolve, callVars
  <1>2. /\ age' \in [Deliveries -> Nat]
        /\ asked' \in [CallIds -> Deliveries \cup {NoCall}]
    <2>1. CASE Tick
      BY <2>1 DEF Tick, CallInv, CallTypes
    <2>2. CASE ~Tick
      BY <2>2, Zenon DEF Resolve, callVars, CallInv, CallTypes
    <2> QED BY <2>1, <2>2, Zenon
  <1>3. CallTypes'
    BY <1>1, <1>2, Zenon DEF CallInv, CallTypes
  <1>4. TimeInv'
    <2>1. CASE Tick
      <3> SUFFICES ASSUME NEW d \in Deliveries, call[d] \in {"approval", "exec"}
                   PROVE  /\ call[d] = "approval" => age[d] + 1 <= ApprovalWait
                          /\ call[d] = "exec" => age[d] + 1 <= execSince[d] + execBudget[d]
                          /\ age[d] + 1 <= Total + MinExec
        BY <1>1, <2>1, SMTT(40) DEF Tick, CallInv, TimeInv, CallTypes
      <3>1. ~Due(d)
        BY <2>1, Zenon DEF Tick
      <3>2. age[d] \in Nat /\ execSince[d] \in Nat /\ execBudget[d] \in Nat /\ ApprovalWait \in Nat
        BY Zenon DEF CallInv, CallTypes, ApprovalWait
      <3>3. call[d] = "approval" => age[d] < ApprovalWait
        BY <3>1, <3>2 DEF Due
      <3>4. call[d] = "exec" => age[d] < execSince[d] + execBudget[d]
        BY <3>1, <3>2 DEF Due
      <3> QED BY <3>2, <3>3, <3>4, SMTT(40) DEF CallInv, TimeInv, ApprovalWait
    <2>2. CASE UNCHANGED age
      BY <1>1, <2>2, Zenon DEF CallInv, TimeInv
    <2> QED BY <2>1, <2>2, Zenon DEF Resolve, callVars
  <1>5. HandlerInv'
    BY <1>1, Zenon DEF CallInv, HandlerInv, PermitsHeldByHandlers
  <1>6. RememberInv'
    BY <1>1 DEF CallInv, RememberInv, OnceInv, OneUnderway, Guarded, Unhandled, Kept, Slipped, Completed
  <1> QED BY <1>3, <1>4, <1>5, <1>6, Zenon DEF CallInv

(* Every step of deliveries, approvals and time keeps the invariant.       *)
LEMMA CallInvStep == CallInv /\ [CallNext]_callVars => CallInv'
  <1>1. ASSUME CallInv, NEW d \in Deliveries, DeliveryStep(d) PROVE CallInv'
    BY <1>1, CallTypesStep, TimeStep, HandlerStep, RememberStep, Zenon DEF CallInv
  <1> QED BY <1>1, OutsideStep, Zenon DEF CallNext, DeliveryStep

(* The catalogue: a revision is marked as seen before the snapshot is      *)
(* taken, so a change can be advertised twice but not missed.              *)
CatalogInv == CatalogFresh /\ noticed \in Nat /\ revision \in Nat /\ noticed <= revision

(* An app tool call is answered within its caller's time, its permit is    *)
(* held exactly while its handler lives, its handler runs once unless a    *)
(* copy slipped between the halves of mark_completed or the id was         *)
(* evicted, and the hub is told of the tools there are.                    *)
THEOREM AppToolCallsSound == AppToolSpec => []CallsSound
  <1>1. CallInv => AnsweredInWindow /\ PermitsHeldByHandlers
    BY AppToolAssumption DEF CallInv, CallTypes, TimeInv, HandlerInv, AnsweredInWindow
  <1>2. CallInv => HandledOnce
    <2> SUFFICES ASSUME CallInv, NEW i \in CallIds, handled[i] > 1, ~Slipped(i)
                 PROVE  Cardinality(Completed) > MaxRemembered
      BY Zenon DEF HandledOnce, Slipped, Completed
    <2>1. ~OnceInv(i)
      BY DEF OnceInv, CallInv, CallTypes
    <2>2. Cardinality(Completed) \in Nat
      BY AppToolAssumption, FS_Subset, FS_CardinalityType, Zenon DEF Completed
    <2> QED BY <2>1, <2>2, AppToolAssumption DEF CallInv, RememberInv
  <1>3. CatalogInit => CatalogInv
    BY DEF CatalogInit, CatalogInv, CatalogFresh
  <1>4. CatalogInv /\ [CatalogNext]_catalogVars => CatalogInv'
    BY DEF CatalogInv, CatalogFresh, CatalogNext, register, unregister, AdvertiseOnConnect,
       RevisionChanged, SendSnapshot, catalogVars
  <1>5. [\/ CatalogNext /\ UNCHANGED callVars
         \/ CallNext /\ UNCHANGED catalogVars]_<<catalogVars, callVars>>
        => [CatalogNext]_catalogVars /\ [CallNext]_callVars
    BY Zenon DEF catalogVars, callVars
  <1>6. AnsweredInWindow /\ PermitsHeldByHandlers /\ HandledOnce /\ CatalogInv => CallsSound
    BY Zenon DEF CallsSound, CatalogInv
  <1> QED BY <1>1, <1>2, <1>3, <1>4, <1>5, <1>6, CallInvInit, CallInvStep, PTL DEF AppToolSpec
=============================================================================

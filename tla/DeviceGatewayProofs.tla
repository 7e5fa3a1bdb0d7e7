------------------------ MODULE DeviceGatewayProofs ------------------------
(* The outbox store under StoreSpec, for any sessions, bounds and faults;  *)
(* then the gateway, which only uses the store the way StoreSpec allows,   *)
(* so that what holds of the store holds of the running hub, for any       *)
(* number of replicas, connections, messages and faults.                   *)
EXTENDS DeviceGateway, FiniteSetTheorems, TLAPS

(***************************************************************************)
(* The inductive invariant.  UniqueNumbers and ReplayInLeaseOrder talk     *)
(* about what is in the stream; whether the next XADD preserves them       *)
(* depends on the number its session reserved earlier.                     *)
(***************************************************************************)
(* The stream is bounded by its last generated id, that by the counter.    *)
StreamBounded ==
    /\ top <= seq
    /\ \A e \in stream : e.id <= top

(* Writers of entries once held the lease; the holder is the newest.       *)
HolderIsNewest ==
    /\ \A s \in Sessions : epoch[s] <= grants
    /\ lock # NoSession => epoch[lock] = grants /\ grants > 0
    /\ \A e \in stream : epoch[e.by] > 0

(* Numbers reserved come from the counter; a session that never held the   *)
(* lease reserved none.                                                    *)
ClaimsCounted ==
    \A s \in Sessions :
        /\ epoch[s] = 0 => claims[s] = {}
        /\ lock = s => \A n \in claims[s] : n <= seq

StoreInv ==
    /\ StoreTypeOK
    /\ StreamBounded
    /\ HolderIsNewest
    /\ ClaimsCounted
    /\ UniqueNumbers
    /\ ReplayInLeaseOrder

(* Trimming or evicting never introduces an entry (XTRIM, MAXLEN).         *)
LEMMA SubStream ==
    ASSUME StoreInv, stream' \subseteq stream, epoch' = epoch
    PROVE  /\ stream' \in SUBSET Entries
           /\ UniqueNumbers'
           /\ ReplayInLeaseOrder'
  BY Zenon DEF StoreInv, StoreTypeOK, UniqueNumbers, ReplayInLeaseOrder

(* The scripts start from an empty store.                                  *)
LEMMA InitStoreInv == StoreInit => StoreInv
  BY StoreAssumption DEF StoreInit, StoreInv, StoreTypeOK, StreamBounded,
     HolderIsNewest, ClaimsCounted, UniqueNumbers, ReplayInLeaseOrder

(* Every script, from any caller, preserves the invariant.                 *)
LEMMA StepStoreInv == StoreInv /\ [StoreNext]_storeVars => StoreInv'
<1> SUFFICES ASSUME StoreInv, [StoreNext]_storeVars PROVE StoreInv'
  BY Zenon
<1> USE StoreAssumption
<1>1. ASSUME NEW s \in Sessions, TryAcquireLock(s) PROVE StoreInv'
  <2>1. StoreTypeOK' /\ StreamBounded' /\ UniqueNumbers'
    BY <1>1 DEF TryAcquireLock, StoreInv, StoreTypeOK, StreamBounded, UniqueNumbers
  <2>2. \A e \in stream : e.by \in Sessions /\ e.by # s
    BY <1>1 DEF TryAcquireLock, StoreInv, StoreTypeOK, HolderIsNewest, Entries
  <2>3. HolderIsNewest'
    BY <1>1, <2>2 DEF TryAcquireLock, StoreInv, StoreTypeOK, HolderIsNewest
  <2>4. ClaimsCounted'
    BY <1>1, Zenon DEF TryAcquireLock, StoreInv, StoreTypeOK, ClaimsCounted
  <2>5. ReplayInLeaseOrder'
    BY <1>1, <2>2, Zenon DEF TryAcquireLock, StoreInv, StoreTypeOK, ReplayInLeaseOrder
  <2> QED BY <2>1, <2>3, <2>4, <2>5, Zenon DEF StoreInv
<1>2. ASSUME NEW s \in Sessions, ReleaseLock(s) PROVE StoreInv'
  BY <1>2, Zenon DEF ReleaseLock, StoreInv, StoreTypeOK, StreamBounded, HolderIsNewest,
     ClaimsCounted, UniqueNumbers, ReplayInLeaseOrder
<1>3. ASSUME NEW s \in Sessions, FencedIncrSeq(s) PROVE StoreInv'
  <2>1. StoreTypeOK' /\ HolderIsNewest'
    BY <1>3 DEF FencedIncrSeq, StoreInv, StoreTypeOK, HolderIsNewest
  <2>2. StreamBounded' /\ UniqueNumbers' /\ ReplayInLeaseOrder'
    BY <1>3 DEF FencedIncrSeq, StoreInv, StoreTypeOK, StreamBounded, UniqueNumbers,
       ReplayInLeaseOrder
  <2>3. ClaimsCounted'
    <3>1. lock' = s /\ epoch' = epoch /\ epoch[s] # 0 /\ seq' = seq + 1
      BY <1>3 DEF FencedIncrSeq, StoreInv, StoreTypeOK, HolderIsNewest
    <3>2. claims'[s] = claims[s] \cup {seq + 1}
      BY <1>3, Zenon DEF FencedIncrSeq, StoreInv, StoreTypeOK
    <3>3. \A t \in Sessions \ {s} : claims'[t] = claims[t]
      BY <1>3, Zenon DEF FencedIncrSeq, StoreInv, StoreTypeOK
    <3>4. seq \in Nat /\ claims[s] \in SUBSET Nat /\ \A n \in claims[s] : n <= seq
      BY <1>3 DEF FencedIncrSeq, StoreInv, StoreTypeOK, ClaimsCounted
    <3> QED BY <3>1, <3>2, <3>3, <3>4 DEF StoreInv, ClaimsCounted
  <2> QED BY <2>1, <2>2, <2>3, Zenon DEF StoreInv
<1>4. ASSUME NEW s \in Sessions, NEW ack \in 0..MaxSeq, ReconcileOnHello(s, ack)
      PROVE  StoreInv'
  <2>1. stream' \subseteq stream /\ epoch' = epoch
    BY <1>4, Zenon DEF ReconcileOnHello, Trim
  <2>2. StoreTypeOK' /\ HolderIsNewest'
    BY <1>4, <2>1, SubStream DEF ReconcileOnHello, StoreInv, StoreTypeOK, HolderIsNewest
  <2>3. StreamBounded' /\ ClaimsCounted'
    BY <1>4 DEF ReconcileOnHello, Trim, StoreInv, StoreTypeOK, StreamBounded, ClaimsCounted
  <2> QED BY <2>1, <2>2, <2>3, SubStream, Zenon DEF StoreInv
<1>5. ASSUME NEW s \in Sessions, NEW n \in Nat, FencedXadd(s, n) PROVE StoreInv'
  <2> DEFINE new == [id |-> n, by |-> s]
  <2>1. stream' \subseteq stream \cup {new} /\ epoch' = epoch /\ lock = s
    BY <1>5, Zenon DEF FencedXadd, Capped
  <2>2. new \in Entries /\ new.id = n /\ new.by = s
    BY Zenon DEF Entries
  <2>3. \A e \in stream : e \in Entries /\ e.id \in Nat /\ e.id < n /\ e.by \in Sessions
    BY <1>5 DEF FencedXadd, StoreInv, StoreTypeOK, StreamBounded, Entries
  <2>4. StoreTypeOK'
    BY <1>5, <2>1, <2>2, Zenon DEF FencedXadd, StoreInv, StoreTypeOK
  <2>5. StreamBounded'
    <3>1. top' = n /\ seq' = seq /\ n <= seq
      BY <1>5, Zenon DEF FencedXadd, StoreInv, ClaimsCounted
    <3> QED BY <2>1, <2>2, <2>3, <3>1 DEF StreamBounded
  <2>6. HolderIsNewest'
    BY <1>5, <2>1, <2>2, Zenon DEF FencedXadd, StoreInv, HolderIsNewest
  <2>7. ClaimsCounted'
    BY <1>5, Zenon DEF FencedXadd, StoreInv, StoreTypeOK, ClaimsCounted
  <2>8. UniqueNumbers'
    BY <2>1, <2>2, <2>3 DEF StoreInv, UniqueNumbers
  <2>9. ReplayInLeaseOrder'
    <3>1. \A t \in Sessions : epoch[t] <= epoch[s] /\ epoch[t] \in Nat
      BY <2>1, Zenon DEF StoreInv, StoreTypeOK, HolderIsNewest
    <3> QED BY <2>1, <2>2, <2>3, <3>1 DEF StoreInv, ReplayInLeaseOrder
  <2> QED BY <2>4, <2>5, <2>6, <2>7, <2>8, <2>9, Zenon DEF StoreInv
<1>6. ASSUME NEW s \in Sessions, NEW n \in Nat, XaddRefused(s, n) PROVE StoreInv'
  <2>1. StoreTypeOK' /\ ClaimsCounted'
    BY <1>6, Zenon DEF XaddRefused, StoreInv, StoreTypeOK, ClaimsCounted
  <2> QED BY <1>6, <2>1, Zenon DEF XaddRefused, StoreInv, StreamBounded, HolderIsNewest,
             UniqueNumbers, ReplayInLeaseOrder
<1>7. ASSUME NEW ack \in Nat, ObserveAck(ack) PROVE StoreInv'
  <2>1. stream' \subseteq stream /\ epoch' = epoch
    BY <1>7, Zenon DEF ObserveAck, Trim
  <2>2. StoreTypeOK' /\ HolderIsNewest' /\ StreamBounded' /\ ClaimsCounted'
    BY <1>7, <2>1, SubStream, Zenon DEF ObserveAck, StoreInv, StoreTypeOK, HolderIsNewest,
       StreamBounded, ClaimsCounted
  <2> QED BY <2>1, <2>2, SubStream, Zenon DEF StoreInv
<1>8. CASE LockExpires
  BY <1>8, Zenon DEF LockExpires, StoreInv, StoreTypeOK, StreamBounded, HolderIsNewest,
     ClaimsCounted, UniqueNumbers, ReplayInLeaseOrder
<1>9. CASE StoreLosesState
  BY <1>9 DEF StoreLosesState, StoreInv, StoreTypeOK, StreamBounded, HolderIsNewest,
     ClaimsCounted, UniqueNumbers, ReplayInLeaseOrder
<1>10. CASE UNCHANGED storeVars
  BY <1>10, Zenon DEF storeVars, StoreInv, StoreTypeOK, StreamBounded, HolderIsNewest,
     ClaimsCounted, UniqueNumbers, ReplayInLeaseOrder
<1> QED BY <1>1, <1>2, <1>3, <1>4, <1>5, <1>6, <1>7, <1>8, <1>9, <1>10 DEF StoreNext

(* The invariant holds throughout any history of script calls.             *)
THEOREM StoreInvariant == StoreSpec => []StoreInv
  BY InitStoreInv, StepStoreInv, PTL DEF StoreSpec

(* Two sends racing a change of lease holder never put one number on two   *)
(* entries (fenced_incr_seq and xadd_frame are separate round trips).      *)
THEOREM NumbersAreUnique == StoreSpec => []UniqueNumbers
  BY StoreInvariant, PTL DEF StoreInv

(* Replaying the stream by number replays lease holders in the order they  *)
(* held the lease: a displaced session cannot append behind its successor. *)
THEOREM ReplayOrder == StoreSpec => []ReplayInLeaseOrder
  BY StoreInvariant, PTL DEF StoreInv

(* Appends come from the lease holder and go on top; removals cut a prefix.*)
THEOREM HolderAppends == StoreSpec => OnlyHolderAppends
<1>1. StoreInv /\ [StoreNext]_storeVars => [StreamStep]_storeVars
  <2> SUFFICES ASSUME StoreInv, StoreNext PROVE StreamStep
    BY Zenon DEF StreamStep
  <2>1. ASSUME NEW ack \in Nat, stream' = Trim(ack) PROVE StreamStep
    BY <2>1 DEF Trim, StreamStep, StoreInv, StoreTypeOK, Entries
  <2>2. ASSUME stream' = stream \/ stream' = {} PROVE StreamStep
    BY <2>2, Zenon DEF StreamStep
  <2>3. ASSUME NEW s \in Sessions, NEW n \in Nat, FencedXadd(s, n) PROVE StreamStep
    <3> DEFINE new == [id |-> n, by |-> s]
    <3>1. stream' \in SUBSET (stream \cup {new}) /\ lock = s /\ n > top
      BY <2>3, Zenon DEF FencedXadd, Capped
    <3>2. \A e \in stream \ stream', k \in stream' : e.id < k.id
      BY <2>3, Zenon DEF FencedXadd, Capped
    <3> QED BY <3>1, <3>2 DEF StreamStep
  <2> QED BY <2>1, <2>2, <2>3 DEF StoreNext, TryAcquireLock, ReleaseLock, FencedIncrSeq,
             ReconcileOnHello, XaddRefused, ObserveAck, LockExpires, StoreLosesState
<1> QED BY <1>1, StoreInvariant, PTL DEF StoreSpec, OnlyHolderAppends

(* Every script is a step the OutboxStore trait allows, or changes nothing *)
(* the trait speaks of.                                                    *)
LEMMA StepContract ==
    StoreInv /\ [StoreNext]_storeVars => [Contract!Next]_(Contract!contractVars)
<1> SUFFICES ASSUME StoreInv, StoreNext PROVE [Contract!Next]_(Contract!contractVars)
  BY Zenon DEF storeVars, Contract!contractVars
<1> USE StoreAssumption DEF Contract!Next, Contract!contractVars
<1>1. ASSUME NEW s \in Sessions, TryAcquireLock(s) PROVE Contract!Next
  BY <1>1, Zenon DEF TryAcquireLock, Contract!Grant
<1>2. ASSUME NEW s \in Sessions, ReleaseLock(s) PROVE [Contract!Next]_(Contract!contractVars)
  BY <1>2, Zenon DEF ReleaseLock, Contract!EndLease
<1>3. ASSUME NEW s \in Sessions, FencedIncrSeq(s) PROVE Contract!Next
  BY <1>3, Zenon DEF FencedIncrSeq, Contract!Issue
<1>4. ASSUME NEW ack \in 0..seq, stream' = Trim(ack), UNCHANGED <<lock, seq>> PROVE Contract!Next
  BY <1>4, Zenon DEF Trim, Contract!Discard
<1>5. ASSUME NEW s \in Sessions, NEW ack \in 0..MaxSeq, ReconcileOnHello(s, ack)
      PROVE  Contract!Next
  <2>1. CASE ack > seq
    BY <1>5, <2>1, Zenon DEF ReconcileOnHello, Contract!Bootstrap
  <2>2. CASE ack <= seq
    BY <1>4, <1>5, <2>2 DEF ReconcileOnHello, StoreInv, StoreTypeOK
  <2> QED BY <2>1, <2>2 DEF StoreInv, StoreTypeOK
<1>6. ASSUME NEW s \in Sessions, NEW n \in 1..MaxSeq, FencedXadd(s, n) PROVE Contract!Next
  <2>1. n \in 1..seq /\ \A e \in stream : e.id # n
    BY <1>6 DEF FencedXadd, StoreInv, StoreTypeOK, StreamBounded, ClaimsCounted, Entries
  <2>2. \A kept : Contract!Cardinality(kept) = Cardinality(kept)
    BY Zenon DEF Cardinality, Contract!Cardinality
  <2>3. Contract!Accept(s, n)
    BY <1>6, <2>1, <2>2 DEF FencedXadd, Capped, Contract!Accept
  <2> QED BY <2>1, <2>3, Zenon
<1>7. ASSUME NEW ack \in 1..MaxSeq, ObserveAck(ack)
      PROVE  [Contract!Next]_(Contract!contractVars)
  <2>1. CASE ack > seq
    BY <1>7, <2>1, Zenon DEF ObserveAck
  <2>2. CASE ack <= seq
    BY <1>4, <1>7, <2>2 DEF ObserveAck, StoreInv, StoreTypeOK
  <2> QED BY <2>1, <2>2 DEF StoreInv, StoreTypeOK
<1>8. CASE LockExpires
  BY <1>8, Zenon DEF LockExpires, Contract!EndLease
<1>9. CASE StoreLosesState
  BY <1>9, Zenon DEF StoreLosesState, Contract!Lose
<1>10. ASSUME NEW s \in Sessions, NEW n \in 1..MaxSeq, XaddRefused(s, n)
       PROVE  UNCHANGED (Contract!contractVars)
  BY <1>10, Zenon DEF XaddRefused
<1> QED BY <1>1, <1>2, <1>3, <1>5, <1>6, <1>7, <1>8, <1>9, <1>10, Zenon DEF StoreNext

(* The Redis store keeps the OutboxStore contract, for any sessions, any   *)
(* counter bound and any cap: the refinement of OutboxContract.            *)
THEOREM RedisKeepsContract == StoreSpec => KeepsContract
<1>1. StoreInit => Contract!Init
  BY Zenon DEF StoreInit, Contract!Init
<1> QED BY <1>1, StepContract, StoreInvariant, PTL DEF StoreSpec, KeepsContract, Contract!Spec

----------------------------------------------------------------------------
(* A send() call past its first step works on a connection it picked; past *)
(* its second it owns a number from the counter.                           *)
SendsPicked ==
    \A m \in Msgs :
        /\ mpc[m] # "new" => mconn[m] \in Conns
        /\ mpc[m] \in {"write", "push", "ok"} => mseq[m] \in 1..MaxSeq

(* A registering connection has an attempt left.                           *)
TriesLeft ==
    \A c \in Conns : pc[c] \in {"acquire", "kick", "retry"} => tries[c] \in 1..Retries

(* The part of the invariant that is not the store's.                      *)
RegistryInv ==
    /\ ConnTypeOK
    /\ QueueTypeOK
    /\ SendTypeOK
    /\ DeviceTypeOK
    /\ RowTypeOK
    /\ faults \in 0..MaxFaults
    /\ SendsPicked
    /\ TriesLeft

GatewayInv == StoreInv /\ RegistryInv

(* The hub starts with an empty registry and an empty store.               *)
LEMMA InitGatewayInv == Init => GatewayInv
<1> SUFFICES ASSUME Init PROVE GatewayInv
  OBVIOUS
<1> USE StoreAssumption, GatewayAssumption DEF Init
<1>1. StoreInv
  BY InitStoreInv, Zenon
<1>2. ConnTypeOK /\ TriesLeft
  BY DEF ConnTypeOK, TriesLeft, PCs, Conns
<1>3. QueueTypeOK
  BY DEF QueueTypeOK
<1>4. SendTypeOK /\ SendsPicked
  BY DEF SendTypeOK, SendsPicked
<1>5. DeviceTypeOK /\ faults \in 0..MaxFaults
  BY DEF DeviceTypeOK
<1>6. RowTypeOK
  BY Zenon DEF RowTypeOK
<1> QED BY <1>1, <1>2, <1>3, <1>4, <1>5, <1>6 DEF GatewayInv, RegistryInv

(* A replay is a sequence of messages.                                     *)
LEMMA ReplayIsSeq ==
    ASSUME NEW ms \in SUBSET Msgs, NEW q \in InOrder(ms)
    PROVE  q \in Seq(Msgs)
<1>1. Cardinality(ms) \in Nat
  BY GatewayAssumption, FS_Subset, FS_CardinalityType, Zenon
<1>2. q \in [1..Cardinality(ms) -> Msgs]
  BY Zenon DEF InOrder
<1> QED BY <1>1, <1>2

(* Every step of the gateway is one script of the store, called with       *)
(* arguments the store expects, or leaves the store alone.                 *)
LEMMA StoreStep == GatewayInv /\ [Next]_vars => [StoreNext]_storeVars
<1> SUFFICES ASSUME GatewayInv, [Next]_vars PROVE [StoreNext]_storeVars
  BY Zenon
<1> USE StoreAssumption, GatewayAssumption DEF Conns
<1>1. ASSUME NEW c \in Conns, Handler(c) PROVE [StoreNext]_storeVars
  <2>1. CASE Acquire(c) \/ RetryAcquire(c)
    BY <2>1, Zenon DEF Acquire, RetryAcquire, AcquireFails, RedisFails, StoreNext
  <2>2. CASE Reconcile(c)
    BY <2>2, Zenon DEF Reconcile, RedisFails, StoreNext, GatewayInv, RegistryInv, ConnTypeOK
  <2>3. CASE AbortRegister(c) \/ Release(c)
    BY <2>3, Zenon DEF AbortRegister, RedisFails, Release, StoreNext
  <2>4. CASE \/ Kick(c) \/ ReadUnacked(c) \/ Publish(c) \/ Accept(c) \/ MarkOnline(c)
             \/ StartServing(c) \/ PutCatalog(c) \/ LeaveLoop(c) \/ Unregister(c)
             \/ Remove(c) \/ MarkOffline(c) \/ MarkStale(c)
    BY <2>4, Zenon DEF RedisFails, Kick, ReadUnacked, Publish, Accept, MarkOnline, StartServing, PutCatalog,
       LeaveLoop, Unregister, Remove, MarkOffline, MarkStale
  <2> QED BY <1>1, <2>1, <2>2, <2>3, <2>4 DEF Handler
<1>2. ASSUME NEW m \in Msgs, Send(m) PROVE [StoreNext]_storeVars
  <2>1. CASE PickConnection(m) \/ Push(m)
    BY <2>1, Zenon DEF PickConnection, Push
  <2>2. CASE Reserve(m)
    BY <2>2, Zenon DEF Reserve, StoreNext, GatewayInv, RegistryInv, SendsPicked
  <2>3. CASE Write(m)
    BY <2>3, Zenon DEF Write, StoreNext, GatewayInv, RegistryInv, SendsPicked
  <2> QED BY <1>2, <2>1, <2>2, <2>3, Zenon DEF Send
<1>3. ASSUME NEW c \in Conns, InboundAck(c) PROVE [StoreNext]_storeVars
  BY <1>3 DEF InboundAck, StoreNext, GatewayInv, RegistryInv, DeviceTypeOK
<1>4. ASSUME NEW c \in Conns,
             \/ Hello(c) \/ SendTaskDelivers(c) \/ SendTaskStops(c) \/ LeaseLost(c)
             \/ PresenceRefresh(c) \/ AppToolsUpdate(c)
      PROVE  [StoreNext]_storeVars
  BY <1>4, Zenon DEF Hello, SendTaskDelivers, SendTaskStops, LeaseLost, PresenceRefresh, AppToolsUpdate
<1>5. ASSUME NEW r \in Replicas, KickDevice(r) \/ Crash(r) PROVE [StoreNext]_storeVars
  BY <1>5, Zenon DEF KickDevice, Crash
<1>6. CASE DeviceDrops
  BY <1>6, Zenon DEF DeviceDrops
<1>7. CASE LeaseExpires \/ Flush
  BY <1>7, Zenon DEF LeaseExpires, Flush, StoreNext
<1>8. CASE UNCHANGED vars
  BY <1>8, Zenon DEF vars
<1> QED BY <1>1, <1>2, <1>3, <1>4, <1>5, <1>6, <1>7, <1>8 DEF Next

(* The fault counter stays within its bound.                               *)
LEMMA FaultCounts ==
    ASSUME RegistryInv, faults' = faults \/ \E kind : Fault(kind)
    PROVE  faults' \in 0..MaxFaults
BY GatewayAssumption DEF RegistryInv, Fault

(* Handlers, tasks and the device keep the registry well formed.           *)
LEMMA HandlerStep ==
    ASSUME GatewayInv, NEW c \in Conns, Handler(c)
    PROVE  RegistryInv'
<1> USE StoreAssumption, GatewayAssumption
<1>1. SendTypeOK' /\ SendsPicked' /\ DeviceTypeOK'
  BY Zenon DEF Handler, AcquireFails, RedisFails, Acquire, Kick, RetryAcquire, Reconcile, AbortRegister, ReadUnacked, Publish,
     Accept, MarkOnline, StartServing, PutCatalog, LeaveLoop, Unregister, Release, Remove,
     MarkOffline, MarkStale, GatewayInv, RegistryInv, SendTypeOK, SendsPicked, DeviceTypeOK,
     sendVars, devVars
<1>2. faults' \in 0..MaxFaults
  <2>1. faults' = faults \/ \E kind : Fault(kind)
    BY Zenon DEF Handler, AcquireFails, RedisFails, Acquire, Kick, RetryAcquire, Reconcile, AbortRegister, ReadUnacked, Publish,
       Accept, MarkOnline, StartServing, PutCatalog, LeaveLoop, Unregister, Release, Remove,
       MarkOffline, MarkStale
  <2> QED BY <2>1, FaultCounts, Zenon DEF GatewayInv
<1>3. RowTypeOK'
  BY Zenon DEF Handler, AcquireFails, RedisFails, Acquire, Kick, RetryAcquire, Reconcile, AbortRegister, ReadUnacked, Publish,
     Accept, MarkOnline, StartServing, PutCatalog, LeaveLoop, Unregister, Release, Remove,
     MarkOffline, MarkStale, GatewayInv, RegistryInv, RowTypeOK, rowVars
<1>4. QueueTypeOK'
  <2>1. CASE ReadUnacked(c) /\ queue' # queue
    <3> DEFINE ms == {m \in Msgs : Entry(m) \in stream /\ mseq[m] > lastAck[c]}
    <3>1. PICK q \in InOrder(ms) : queue' = [queue EXCEPT ![c] = q]
      BY <2>1, Zenon DEF ReadUnacked, RedisFails
    <3>2. q \in Seq(Msgs)
      BY <3>1, ReplayIsSeq, Zenon
    <3> QED BY <3>1, <3>2, Zenon DEF GatewayInv, RegistryInv, QueueTypeOK
  <2>2. CASE queue' = queue
    BY <2>2, Zenon DEF GatewayInv, RegistryInv, QueueTypeOK
  <2> QED BY <2>1, <2>2, Zenon DEF Handler, AcquireFails, RedisFails, Acquire, Kick, RetryAcquire,
     Reconcile, AbortRegister, Publish, Accept, MarkOnline, StartServing, PutCatalog, LeaveLoop, Unregister, Release,
     Remove, MarkOffline, MarkStale
<1>5. ConnTypeOK' /\ TriesLeft'
  <2>1. CASE Acquire(c)
    BY <2>1 DEF Acquire, AcquireFails, RedisFails, GatewayInv, RegistryInv, ConnTypeOK, TriesLeft, PCs, Registering,
       Serving, Leaving, Goto, OnlyPc, Conns
  <2>2. CASE Kick(c)
    BY <2>2 DEF Kick, RedisFails, GatewayInv, RegistryInv, ConnTypeOK, TriesLeft, PCs, Registering,
       Serving, Leaving, Goto, OnlyPc, Conns
  <2>3. CASE RetryAcquire(c)
    BY <2>3 DEF RetryAcquire, AcquireFails, RedisFails, GatewayInv, RegistryInv, ConnTypeOK, TriesLeft, PCs,
       Registering, Serving, Leaving, Goto, OnlyPc, Conns
  <2>4. CASE Reconcile(c)
    BY <2>4 DEF Reconcile, RedisFails, GatewayInv, RegistryInv, ConnTypeOK, TriesLeft, PCs, Registering,
       Serving, Leaving, Goto, OnlyPc, Conns
  <2>5. CASE AbortRegister(c)
    BY <2>5 DEF AbortRegister, RedisFails, GatewayInv, RegistryInv, ConnTypeOK, TriesLeft, PCs,
       Registering, Serving, Leaving, Goto, OnlyPc, Conns
  <2>6. CASE ReadUnacked(c)
    BY <2>6 DEF ReadUnacked, RedisFails, GatewayInv, RegistryInv, ConnTypeOK, TriesLeft, PCs,
       Registering, Serving, Leaving, Goto, OnlyPc, Conns
  <2>7. CASE Publish(c)
    BY <2>7 DEF Publish, RedisFails, GatewayInv, RegistryInv, ConnTypeOK, TriesLeft, PCs, Registering,
       Serving, Leaving, Goto, OnlyPc, Conns
  <2>8. CASE Accept(c)
    BY <2>8 DEF Accept, GatewayInv, RegistryInv, ConnTypeOK, TriesLeft, PCs, Registering,
       Serving, Leaving, Goto, OnlyPc, Conns
  <2>9. CASE MarkOnline(c)
    BY <2>9 DEF MarkOnline, RedisFails, GatewayInv, RegistryInv, ConnTypeOK, TriesLeft, PCs,
       Registering, Serving, Leaving, Goto, OnlyPc, Conns
  <2>10. CASE StartServing(c)
    BY <2>10, Zenon DEF StartServing, GatewayInv, RegistryInv, ConnTypeOK, TriesLeft, PCs,
       Registering, Serving, Leaving, Goto, OnlyPc, Conns
  <2>11. CASE PutCatalog(c)
    BY <2>11, Zenon DEF PutCatalog, connVars, GatewayInv, RegistryInv, ConnTypeOK, TriesLeft
  <2>12. CASE LeaveLoop(c)
    BY <2>12, Zenon DEF LeaveLoop, GatewayInv, RegistryInv, ConnTypeOK, TriesLeft, PCs,
       Registering, Serving, Leaving, Goto, OnlyPc, Conns
  <2>13. CASE Unregister(c)
    BY <2>13 DEF Unregister, GatewayInv, RegistryInv, ConnTypeOK, TriesLeft, PCs,
       Registering, Serving, Leaving, Goto, OnlyPc, Conns
  <2>14. CASE Release(c)
    BY <2>14, Zenon DEF Release, GatewayInv, RegistryInv, ConnTypeOK, TriesLeft, PCs, Registering,
       Serving, Leaving, Goto, OnlyPc, Conns
  <2>15. CASE Remove(c)
    BY <2>15, Zenon DEF Remove, GatewayInv, RegistryInv, ConnTypeOK, TriesLeft, PCs, Registering,
       Serving, Leaving, Goto, OnlyPc, Conns
  <2>16. CASE MarkOffline(c)
    BY <2>16 DEF MarkOffline, RedisFails, GatewayInv, RegistryInv, ConnTypeOK, TriesLeft, PCs,
       Registering, Serving, Leaving, Goto, OnlyPc, Conns
  <2>17. CASE MarkStale(c)
    BY <2>17, Zenon DEF MarkStale, GatewayInv, RegistryInv, ConnTypeOK, TriesLeft, PCs,
       Registering, Serving, Leaving, Goto, OnlyPc, Conns
  <2> QED BY <2>1, <2>2, <2>3, <2>4, <2>5, <2>6, <2>7, <2>8, <2>9, <2>10, <2>11, <2>12, <2>13,
     <2>14, <2>15, <2>16, <2>17, SMTT(40) DEF Handler
<1> QED BY <1>1, <1>2, <1>3, <1>4, <1>5 DEF RegistryInv

(* The steps of a send() keep the registry well formed.                    *)
LEMMA SendStep ==
    ASSUME GatewayInv, NEW m \in Msgs, Send(m)
    PROVE  RegistryInv'
<1> USE StoreAssumption, GatewayAssumption
<1>1. DeviceTypeOK' /\ RowTypeOK'
  BY Zenon DEF Send, PickConnection, Reserve, Write, Push, GatewayInv, RegistryInv, DeviceTypeOK,
     RowTypeOK, devVars, rowVars
<1>2. faults' \in 0..MaxFaults
  <2>1. faults' = faults \/ \E kind : Fault(kind)
    BY Zenon DEF Send, PickConnection, Reserve, Write, Push
  <2> QED BY <2>1, FaultCounts, Zenon DEF GatewayInv
<1>3. ConnTypeOK' /\ TriesLeft'
  <2>1. CASE connVars' = connVars
    BY <2>1, Zenon DEF connVars, GatewayInv, RegistryInv, ConnTypeOK, TriesLeft
  <2>2. ASSUME NEW c \in Conns, FailConnection(c) PROVE ConnTypeOK' /\ TriesLeft'
    BY <2>2, Zenon DEF FailConnection, GatewayInv, RegistryInv, ConnTypeOK, TriesLeft, Conns
  <2>3. mpc[m] # "new" => mconn[m] \in Conns
    BY Zenon DEF GatewayInv, RegistryInv, SendsPicked
  <2>4. CASE PickConnection(m)
    BY <2>1, <2>4, Zenon DEF PickConnection
  <2>5. CASE Reserve(m)
    BY <2>1, <2>2, <2>3, <2>5, Zenon DEF Reserve
  <2>6. CASE Write(m)
    BY <2>1, <2>2, <2>3, <2>6, Zenon DEF Write
  <2>7. CASE Push(m)
    BY <2>1, <2>2, <2>3, <2>7, Zenon DEF Push
  <2> QED BY <2>4, <2>5, <2>6, <2>7 DEF Send
<1>4. QueueTypeOK'
  <2>1. CASE Push(m)
    <3>1. mconn[m] \in Conns
      BY <2>1, Zenon DEF Push, GatewayInv, RegistryInv, SendsPicked
    <3>2. Append(queue[mconn[m]], m) \in Seq(Msgs)
      BY <3>1 DEF GatewayInv, RegistryInv, QueueTypeOK
    <3> QED BY <2>1, <3>1, <3>2, Zenon DEF Push, GatewayInv, RegistryInv, QueueTypeOK
  <2>2. CASE queue' = queue
    BY <2>2, Zenon DEF GatewayInv, RegistryInv, QueueTypeOK
  <2> QED BY <2>1, <2>2, SMTT(40) DEF Send, PickConnection, Reserve, Write
<1>5. SendTypeOK' /\ SendsPicked'
  <2>1. CASE PickConnection(m)
    BY <2>1 DEF PickConnection, SendAt, GatewayInv, RegistryInv, SendTypeOK, SendsPicked,
       ConnTypeOK, Conns
  <2>2. CASE Reserve(m)
    <3>1. mpc[m] = "reserve" /\ mconn[m] \in Conns /\ mconn' = mconn
      BY <2>2, Zenon DEF Reserve, GatewayInv, RegistryInv, SendsPicked
    <3>2. CASE SendAt(m, "err") /\ mseq' = mseq
      BY <3>1, <3>2, Zenon DEF SendAt, GatewayInv, RegistryInv, SendTypeOK, SendsPicked
    <3>3. CASE /\ FencedIncrSeq(mconn[m])
               /\ mseq' = [mseq EXCEPT ![m] = seq + 1]
               /\ SendAt(m, "write")
      <4>1. seq + 1 \in 1..MaxSeq
        BY <3>3 DEF FencedIncrSeq, GatewayInv, StoreInv, StoreTypeOK
      <4> QED BY <3>1, <3>3, <4>1 DEF SendAt, GatewayInv, RegistryInv, SendTypeOK, SendsPicked
    <3> QED BY <2>2, <3>2, <3>3, Zenon DEF Reserve
  <2>3. CASE Write(m)
    BY <2>3, Zenon DEF Write, SendAt, GatewayInv, RegistryInv, SendTypeOK, SendsPicked
  <2>4. CASE Push(m)
    BY <2>4, Zenon DEF Push, SendAt, GatewayInv, RegistryInv, SendTypeOK, SendsPicked
  <2> QED BY <2>1, <2>2, <2>3, <2>4, Zenon DEF Send
<1> QED BY <1>1, <1>2, <1>3, <1>4, <1>5, Zenon DEF RegistryInv

(* What is left of a queue whose head was taken is a queue.                *)
LEMMA HeadAndTail == ASSUME NEW S, NEW q \in Seq(S), q # <<>>
                     PROVE  Head(q) \in S /\ Tail(q) \in Seq(S)
  OBVIOUS

(* The send task, the lease and kick tasks and the presence refresh keep   *)
(* the registry well formed.                                               *)
LEMMA TaskStep ==
    ASSUME GatewayInv, NEW c \in Conns,
           \/ Hello(c) \/ SendTaskDelivers(c) \/ SendTaskStops(c) \/ LeaseLost(c)
           \/ PresenceRefresh(c) \/ InboundAck(c) \/ AppToolsUpdate(c)
    PROVE  RegistryInv'
<1> USE StoreAssumption, GatewayAssumption
<1> USE DEF GatewayInv, RegistryInv
<1>1. SendTypeOK' /\ SendsPicked'
  BY Zenon DEF Hello, SendTaskDelivers, SendTaskStops, LeaseLost, PresenceRefresh, InboundAck,
     AppToolsUpdate, sendVars, SendTypeOK, SendsPicked
<1>2. faults' \in 0..MaxFaults
  <2>1. faults' = faults \/ \E kind : Fault(kind)
    BY Zenon DEF Hello, SendTaskDelivers, SendTaskStops, LeaseLost, PresenceRefresh, InboundAck,
       AppToolsUpdate
  <2> QED BY <2>1, FaultCounts, Zenon
<1>3. RowTypeOK'
  BY Zenon DEF Hello, SendTaskDelivers, SendTaskStops, LeaseLost, PresenceRefresh, InboundAck,
     AppToolsUpdate, rowVars, RowTypeOK
<1>4. CASE SendTaskDelivers(c)
  <2>1. queue[c] \in Seq(Msgs) /\ queue[c] # <<>>
    BY <1>4, Zenon DEF SendTaskDelivers, QueueTypeOK
  <2>2. Head(queue[c]) \in Msgs /\ Tail(queue[c]) \in Seq(Msgs)
    BY <2>1, HeadAndTail, Zenon
  <2>3. QueueTypeOK'
    BY <1>4, <2>2, Zenon DEF SendTaskDelivers, QueueTypeOK
  <2>4. DeviceTypeOK'
    BY <1>4, <2>2, Zenon DEF SendTaskDelivers, DeviceTypeOK, SendTypeOK
  <2>5. ConnTypeOK' /\ TriesLeft'
    BY <1>4, Zenon DEF SendTaskDelivers, connVars, ConnTypeOK, TriesLeft
  <2> QED BY <1>1, <1>2, <1>3, <2>3, <2>4, <2>5
<1>5. CASE ~SendTaskDelivers(c)
  <2>1. QueueTypeOK'
    BY <1>5, Zenon DEF Hello, SendTaskStops, LeaseLost, PresenceRefresh, InboundAck, AppToolsUpdate,
       QueueTypeOK
  <2>2. DeviceTypeOK'
    BY <1>5, Zenon DEF Hello, SendTaskStops, LeaseLost, PresenceRefresh, InboundAck, AppToolsUpdate,
       devVars, DeviceTypeOK
  <2>3. ConnTypeOK' /\ TriesLeft'
    <3>1. CASE Hello(c)
      BY <3>1 DEF Hello, Goto, ConnTypeOK, TriesLeft, DeviceTypeOK, PCs, Registering, Conns
    <3>2. CASE SendTaskStops(c) \/ LeaseLost(c)
      BY <3>2, Zenon DEF SendTaskStops, LeaseLost, ConnTypeOK, TriesLeft
    <3>3. CASE connVars' = connVars
      BY <3>3, Zenon DEF connVars, ConnTypeOK, TriesLeft
    <3> QED BY <1>5, <3>1, <3>2, <3>3, SMTT(40) DEF PresenceRefresh, InboundAck, AppToolsUpdate
  <2> QED BY <1>1, <1>2, <1>3, <2>1, <2>2, <2>3, Zenon
<1> QED BY <1>4, <1>5

(* The device, an expired lease, a crash and a flushed store keep the      *)
(* registry well formed.                                                   *)
LEMMA EnvironmentStep ==
    ASSUME GatewayInv,
           \/ DeviceDrops \/ LeaseExpires \/ Flush \/ UNCHANGED vars
           \/ \E r \in Replicas : KickDevice(r) \/ Crash(r)
    PROVE  RegistryInv'
<1> USE StoreAssumption, GatewayAssumption
<1> USE DEF GatewayInv, RegistryInv
<1>1. CASE DeviceDrops
  BY <1>1, Zenon DEF DeviceDrops, connVars, sendVars, rowVars, ConnTypeOK, QueueTypeOK, SendTypeOK,
     DeviceTypeOK, RowTypeOK, SendsPicked, TriesLeft
<1>2. CASE LeaseExpires \/ Flush \/ UNCHANGED vars
  <2>1. faults' \in 0..MaxFaults
    <3>1. faults' = faults \/ \E kind : Fault(kind)
      BY <1>2, Zenon DEF LeaseExpires, Flush, vars
    <3> QED BY <3>1, FaultCounts, Zenon
  <2>2. UNCHANGED <<connVars, queue, sendVars, devVars, rowVars>>
    BY <1>2, Zenon DEF LeaseExpires, Flush, vars
  <2> QED BY <2>1, <2>2, Zenon DEF connVars, sendVars, devVars, rowVars, ConnTypeOK, QueueTypeOK,
             SendTypeOK, DeviceTypeOK, RowTypeOK, SendsPicked, TriesLeft
<1>3. ASSUME NEW r \in Replicas, KickDevice(r) PROVE RegistryInv'
  <2>1. faults' \in 0..MaxFaults
    <3>1. faults' = faults \/ \E kind : Fault(kind)
      BY <1>3, Zenon DEF KickDevice
    <3> QED BY <3>1, FaultCounts, Zenon
  <2>2. ConnTypeOK' /\ TriesLeft'
    BY <1>3, Zenon DEF KickDevice, ConnTypeOK, TriesLeft
  <2> QED BY <1>3, <2>1, <2>2 DEF KickDevice, sendVars, devVars, rowVars, QueueTypeOK,
             SendTypeOK, DeviceTypeOK, RowTypeOK, SendsPicked
<1>4. ASSUME NEW r \in Replicas, Crash(r) PROVE RegistryInv'
  <2>1. faults' \in 0..MaxFaults
    <3>1. faults' = faults \/ \E kind : Fault(kind)
      BY <1>4, Zenon DEF Crash
    <3> QED BY <3>1, FaultCounts, Zenon
  <2>2. ConnTypeOK'
    BY <1>4, Zenon DEF Crash, ConnTypeOK, PCs
  <2>3. TriesLeft'
    BY <1>4, Zenon DEF Crash, ConnTypeOK, TriesLeft
  <2>4. SendTypeOK' /\ SendsPicked'
    BY <1>4, Zenon DEF Crash, SendTypeOK, SendsPicked, InFlight
  <2>5. RowTypeOK'
    BY <1>4, Zenon DEF Crash, RowTypeOK
  <2> QED BY <1>4, <2>1, <2>2, <2>3, <2>4, <2>5, ZenonT(40) DEF Crash, devVars, QueueTypeOK, DeviceTypeOK
<1> QED BY <1>1, <1>2, <1>3, <1>4

(* Every step keeps both parts of the invariant.                           *)
LEMMA StepGatewayInv == GatewayInv /\ [Next]_vars => GatewayInv'
<1> SUFFICES ASSUME GatewayInv, [Next]_vars PROVE GatewayInv'
  BY Zenon
<1>1. StoreInv'
  BY StoreStep, StepStoreInv, Zenon DEF GatewayInv
<1>2. RegistryInv'
  BY HandlerStep, SendStep, TaskStep, EnvironmentStep, Zenon DEF Next
<1> QED BY <1>1, <1>2, Zenon DEF GatewayInv

(* The registry and the store are well formed throughout every behaviour.  *)
THEOREM GatewayInvariant == Spec => []GatewayInv
  BY InitGatewayInv, StepGatewayInv, PTL DEF Spec

(* Types, for any constants: among them that register gives up after       *)
(* LOCK_ACQUIRE_RETRIES and that every number fits the counter.            *)
THEOREM GatewayTypes == Spec => []TypeOK
<1>1. GatewayInv => TypeOK
  BY Zenon DEF GatewayInv, StoreInv, RegistryInv, TypeOK
<1> QED BY <1>1, GatewayInvariant, PTL

(* The hub's handlers, tasks and send() calls drive the store only as      *)
(* StoreSpec allows, crashes, stalls and lost replies included.            *)
THEOREM GatewayUsesStore == Spec => StoreSpec
<1>1. Init => StoreInit
  BY Zenon DEF Init
<1> QED BY <1>1, StoreStep, GatewayInvariant, PTL DEF Spec, StoreSpec

(* Therefore in the running hub a replay never repeats a number and never  *)
(* shows a displaced session's frame behind its successor's.               *)
THEOREM GatewayReplayOrder == Spec => [](UniqueNumbers /\ ReplayInLeaseOrder)
  BY GatewayUsesStore, NumbersAreUnique, ReplayOrder, PTL

(* The gateway's connections, whatever faults they meet, use the outbox    *)
(* within its contract: no frame leaves unacknowledged but by overflow or  *)
(* by a store that lost its state.                                         *)
THEOREM GatewayKeepsContract == Spec => KeepsContract
  BY GatewayUsesStore, RedisKeepsContract, PTL

----------------------------------------------------------------------------
(***************************************************************************)
(* Delivery: HolderWillDeliver and NumbersAboveAck.                        *)
(***************************************************************************)
Before == {"idle"} \cup Registering

(* Who moves a handler, and where to.                                      *)
PcMoves(c) ==
    \/ pc'[c] \in {"abort", "done"} \cup Leaving
    \/ Hello(c) /\ pc'[c] = "acquire"
    \/ pc[c] \in {"acquire", "kick", "retry"} /\ pc'[c] \in {"kick", "retry"}
       /\ UNCHANGED <<lastAck, devVars>>
    \/ pc[c] \in {"acquire", "retry"} /\ TryAcquireLock(c) /\ pc'[c] = "reconcile"
       /\ UNCHANGED <<lastAck, devVars>>
    \/ pc[c] = "reconcile" /\ ReconcileOnHello(c, lastAck[c]) /\ pc'[c] = "read"
       /\ UNCHANGED <<lastAck, queue, sendVars, devVars>>
    \/ pc[c] = "read" /\ ReadUnacked(c) /\ pc'[c] = "publish"
    \/ pc[c] = "publish" /\ Publish(c) /\ pc'[c] = "accept"
    \/ pc[c] \in {"accept"} \cup Serving /\ pc'[c] \in Serving
       /\ UNCHANGED <<storeVars, entry, queue, sendVars, devVars>>

(* A step moves a handler along register, serving and unregister, and      *)
(* nowhere else.                                                           *)
LEMMA HandlerMoves ==
    ASSUME GatewayInv, NEW c \in Conns, Handler(c)
    PROVE  pc'[c] = pc[c] \/ PcMoves(c)
<1> USE DEF GatewayInv, RegistryInv, ConnTypeOK, PcMoves, Goto, OnlyPc
<1>1. CASE Acquire(c)
  BY <1>1, Zenon DEF Acquire, AcquireFails, RedisFails, devVars
<1>2. CASE Kick(c)
  BY <1>2, Zenon DEF Kick, RedisFails, devVars
<1>3. CASE RetryAcquire(c)
  BY <1>3, Zenon DEF RetryAcquire, AcquireFails, RedisFails, devVars
<1>4. CASE Reconcile(c)
  BY <1>4, Zenon DEF Reconcile, RedisFails, devVars, sendVars
<1>5. CASE AbortRegister(c)
  BY <1>5, Zenon DEF AbortRegister, RedisFails
<1>6. CASE ReadUnacked(c)
  <2>1. pc[c] = "read" /\ pc'[c] \in {"publish", "abort"}
    BY <1>6, Zenon DEF ReadUnacked, RedisFails
  <2> QED BY <1>6, <2>1, Zenon
<1>7. CASE Publish(c)
  <2>1. pc[c] = "publish" /\ pc'[c] \in {"accept", "abort"}
    BY <1>7, Zenon DEF Publish, RedisFails
  <2> QED BY <1>7, <2>1, Zenon
<1>8. CASE Accept(c)
  BY <1>8, Zenon DEF Accept, Serving
<1>9. CASE MarkOnline(c)
  BY <1>9, Zenon DEF MarkOnline, RedisFails, Serving, Leaving
<1>10. CASE StartServing(c)
  BY <1>10, Zenon DEF StartServing, Serving
<1>11. CASE PutCatalog(c)
  BY <1>11, Zenon DEF PutCatalog, connVars
<1>12. CASE LeaveLoop(c) \/ Unregister(c) \/ Release(c) \/ Remove(c) \/ MarkOffline(c) \/ MarkStale(c)
  <2>1. pc'[c] \in {"done"} \cup Leaving
    BY <1>12, Zenon DEF LeaveLoop, Unregister, Release, Remove, MarkOffline, RedisFails, MarkStale, Leaving
  <2> QED BY <2>1, Zenon
<1> QED BY <1>1, <1>2, <1>3, <1>4, <1>5, <1>6, <1>7, <1>8, <1>9, <1>10, <1>11, <1>12, ZenonT(40) DEF Handler

(* A step of one connection leaves the handlers of the others where they   *)
(* were.                                                                   *)
LEMMA OthersStay ==
    ASSUME GatewayInv, NEW c \in Conns, NEW d \in Conns, d # c, Handler(d) \/ Hello(d)
    PROVE  pc'[c] = pc[c]
<1>1. pc' = pc \/ \E where : Goto(d, where)
  BY Zenon DEF Hello, Handler, AcquireFails, RedisFails, OnlyPc, Acquire, Kick, RetryAcquire, Reconcile,
     AbortRegister, ReadUnacked, Publish, Accept, MarkOnline, StartServing, PutCatalog, LeaveLoop,
     Unregister, Release, Remove, MarkOffline, MarkStale, connVars
<1> QED BY <1>1 DEF Goto, GatewayInv, RegistryInv, ConnTypeOK

(* Every handler stands still or moves as its code does.                   *)
LEMMA PcStep ==
    ASSUME GatewayInv, [Next]_vars, NEW c \in Conns
    PROVE  pc'[c] = pc[c] \/ PcMoves(c)
<1>1. ASSUME NEW d \in Conns, Handler(d) PROVE pc'[c] = pc[c] \/ PcMoves(c)
  BY <1>1, HandlerMoves, OthersStay, Zenon
<1>2. ASSUME NEW d \in Conns, Hello(d) PROVE pc'[c] = pc[c] \/ PcMoves(c)
  <2>1. CASE d = c
    BY <1>2, <2>1, Zenon DEF Hello, Goto, PcMoves, GatewayInv, RegistryInv, ConnTypeOK
  <2>2. CASE d # c
    BY <1>2, <2>2, OthersStay, Zenon
  <2> QED BY <2>1, <2>2, Zenon
<1>3. ASSUME NEW r \in Replicas, Crash(r) PROVE pc'[c] = pc[c] \/ PcMoves(c)
  BY <1>3, Zenon DEF Crash, PcMoves, Conns
<1>4. ASSUME pc' = pc PROVE pc'[c] = pc[c]
  BY <1>4, Zenon
<1>5. ASSUME NEW d \in Conns,
             \/ SendTaskDelivers(d) \/ SendTaskStops(d) \/ LeaseLost(d)
             \/ PresenceRefresh(d) \/ InboundAck(d) \/ AppToolsUpdate(d)
      PROVE  pc' = pc
  BY <1>5, Zenon DEF SendTaskDelivers, SendTaskStops, LeaseLost, PresenceRefresh, InboundAck,
     AppToolsUpdate, connVars
<1>6. ASSUME NEW m \in Msgs, Send(m) PROVE pc' = pc
  BY <1>6, Zenon DEF Send, PickConnection, Reserve, Write, Push, FailConnection, connVars
<1>7. ASSUME \/ DeviceDrops \/ LeaseExpires \/ Flush \/ UNCHANGED vars
             \/ \E r \in Replicas : KickDevice(r)
      PROVE  pc' = pc
  BY <1>7, Zenon DEF DeviceDrops, LeaseExpires, Flush, KickDevice, vars, connVars
<1> QED BY <1>1, <1>2, <1>3, <1>4, <1>5, <1>6, <1>7, Zenon DEF Next

(* The active connection of a replica is cleared, or is one that leaves    *)
(* "publish".                                                              *)
LEMMA EntryStep ==
    ASSUME GatewayInv, [Next]_vars, NEW r \in Replicas
    PROVE  \/ entry'[r] \in {entry[r], NoSession}
           \/ /\ entry'[r] \in Conns
              /\ pc[entry'[r]] = "publish" /\ pc'[entry'[r]] = "accept"
<1> USE GatewayAssumption DEF GatewayInv, RegistryInv, ConnTypeOK
<1>1. ASSUME entry' = entry PROVE entry'[r] \in {entry[r], NoSession}
  BY <1>1, Zenon
<1>2. ASSUME NEW x \in Replicas, entry' = [entry EXCEPT ![x] = NoSession]
      PROVE  entry'[r] \in {entry[r], NoSession}
  BY <1>2, Zenon
<1>3. ASSUME NEW d \in Conns, FailConnection(d) PROVE entry'[r] \in {entry[r], NoSession}
  BY <1>3, Zenon DEF FailConnection
<1>4. ASSUME NEW d \in Conns, Publish(d) PROVE
           \/ entry'[r] \in {entry[r], NoSession}
           \/ /\ entry'[r] \in Conns
              /\ pc[entry'[r]] = "publish" /\ pc'[entry'[r]] = "accept"
  BY <1>4 DEF Publish, RedisFails, OnlyPc, Goto, Conns
<1>5. ASSUME NEW d \in Conns, Handler(d), ~Publish(d)
      PROVE  entry' = entry \/ \E x \in Replicas : entry' = [entry EXCEPT ![x] = NoSession]
  <2>1. host[d] \in Replicas
    BY Zenon DEF Conns
  <2> QED BY <1>5, <2>1, Zenon DEF Handler, AcquireFails, RedisFails, OnlyPc, Acquire, Kick,
     RetryAcquire, Reconcile, AbortRegister, ReadUnacked, Accept, MarkOnline, StartServing, PutCatalog,
     LeaveLoop, Unregister, Release, Remove, MarkOffline, MarkStale, connVars
<1>6. ASSUME NEW d \in Conns,
             \/ Hello(d) \/ SendTaskDelivers(d) \/ SendTaskStops(d) \/ LeaseLost(d)
             \/ PresenceRefresh(d) \/ InboundAck(d) \/ AppToolsUpdate(d)
      PROVE  entry' = entry
  BY <1>6, Zenon DEF Hello, SendTaskDelivers, SendTaskStops, LeaseLost, PresenceRefresh, InboundAck,
     AppToolsUpdate, connVars
<1>7. ASSUME NEW m \in Msgs, Send(m)
      PROVE  entry' = entry \/ \E d \in Conns : FailConnection(d)
  <2>1. mpc[m] # "new" => mconn[m] \in Conns
    BY Zenon DEF SendsPicked
  <2> QED BY <1>7, <2>1, Zenon DEF Send, PickConnection, Reserve, Write, Push, connVars
<1>8. ASSUME \/ DeviceDrops \/ LeaseExpires \/ Flush \/ UNCHANGED vars
             \/ \E x \in Replicas : KickDevice(x) \/ Crash(x)
      PROVE  entry' = entry \/ \E x \in Replicas : entry' = [entry EXCEPT ![x] = NoSession]
  BY <1>8, Zenon DEF DeviceDrops, LeaseExpires, Flush, KickDevice, Crash, vars, connVars
<1> QED BY <1>1, <1>2, <1>3, <1>4, <1>5, <1>6, <1>7, <1>8, Zenon DEF Next

(* What a step does to one send() call.                                    *)
SendMoves(m) ==
    \/ mpc'[m] \in {mpc[m], "err"} /\ mconn'[m] = mconn[m] /\ mseq'[m] = mseq[m]
    \/ /\ mpc[m] = "new" /\ mpc'[m] = "reserve"
       /\ mseq'[m] = mseq[m] /\ UNCHANGED <<storeVars, queue>>
       /\ mconn'[m] # NoSession /\ \E r \in Replicas : mconn'[m] = entry[r]
    \/ /\ mpc[m] = "reserve" /\ mpc'[m] = "write"
       /\ mconn'[m] = mconn[m] /\ mseq'[m] = seq + 1
       /\ FencedIncrSeq(mconn[m]) /\ UNCHANGED queue
    \/ /\ mpc[m] = "write" /\ mpc'[m] = "push"
       /\ mconn'[m] = mconn[m] /\ mseq'[m] = mseq[m]
    \/ /\ mpc[m] = "push" /\ mpc'[m] = "ok"
       /\ mconn'[m] = mconn[m] /\ mseq'[m] = mseq[m]
       /\ queue' = [queue EXCEPT ![mconn[m]] = Append(@, m)] /\ UNCHANGED <<storeVars, devVars>>

(* Every step of the hub treats a send() call in one of these ways.        *)
LEMMA SendStepMoves ==
    ASSUME GatewayInv, [Next]_vars, NEW m \in Msgs
    PROVE  SendMoves(m)
<1> USE DEF GatewayInv, RegistryInv, SendTypeOK
<1>1. ASSUME UNCHANGED sendVars PROVE SendMoves(m)
  BY <1>1, Zenon DEF SendMoves, sendVars
<1>2. ASSUME NEW n \in Msgs, PickConnection(n) PROVE SendMoves(m)
  <2>1. PICK r \in Replicas : entry[r] # NoSession /\ mconn' = [mconn EXCEPT ![n] = entry[r]]
    BY <1>2, Zenon DEF PickConnection
  <2>2. mpc[n] = "new" /\ mpc' = [mpc EXCEPT ![n] = "reserve"] /\ UNCHANGED <<storeVars, queue, mseq>>
    BY <1>2, Zenon DEF PickConnection, SendAt
  <2> QED BY <2>1, <2>2 DEF SendMoves
<1>3. ASSUME NEW n \in Msgs, Reserve(n) PROVE SendMoves(m)
  <2>1. mpc[n] = "reserve" /\ mconn' = mconn /\ queue' = queue
    BY <1>3, Zenon DEF Reserve
  <2>2. CASE SendAt(n, "err") /\ mseq' = mseq
    BY <2>1, <2>2, Zenon DEF SendAt, SendMoves
  <2>3. CASE /\ FencedIncrSeq(mconn[n])
             /\ mseq' = [mseq EXCEPT ![n] = seq + 1]
             /\ SendAt(n, "write")
    <3>1. n # m => mpc'[m] = mpc[m] /\ mseq'[m] = mseq[m]
      BY <2>3, Zenon DEF SendAt
    <3>2. n = m => mpc'[m] = "write" /\ mseq'[m] = seq + 1
      BY <2>3, Zenon DEF SendAt
    <3> QED BY <2>1, <2>3, <3>1, <3>2, Zenon DEF SendMoves
  <2> QED BY <1>3, <2>2, <2>3 DEF Reserve
<1>4. ASSUME NEW n \in Msgs, Write(n) PROVE SendMoves(m)
  <2>1. mpc[n] = "write" /\ mconn' = mconn /\ mseq' = mseq /\ (SendAt(n, "push") \/ SendAt(n, "err"))
    BY <1>4, Zenon DEF Write
  <2> QED BY <2>1, Zenon DEF SendAt, SendMoves
<1>5. ASSUME NEW n \in Msgs, Push(n) PROVE SendMoves(m)
  <2>1. mpc[n] = "push" /\ mconn' = mconn /\ mseq' = mseq /\ UNCHANGED <<storeVars, devVars>>
    BY <1>5, Zenon DEF Push
  <2>2. CASE SendAt(n, "err")
    BY <2>1, <2>2 DEF SendAt, SendMoves
  <2>3. CASE SendAt(n, "ok") /\ queue' = [queue EXCEPT ![mconn[n]] = Append(@, n)]
    <3>1. n # m => mpc'[m] = mpc[m]
      BY <2>3, Zenon DEF SendAt
    <3>2. n = m => mpc'[m] = "ok"
      BY <2>3, Zenon DEF SendAt
    <3> QED BY <2>1, <2>3, <3>1, <3>2, Zenon DEF SendMoves
  <2> QED BY <1>5, <2>2, <2>3 DEF Push
<1>6. ASSUME NEW r \in Replicas, Crash(r) PROVE SendMoves(m)
  BY <1>6 DEF Crash, SendMoves
<1>7. ASSUME NEW d \in Conns,
             \/ Handler(d) \/ Hello(d) \/ SendTaskDelivers(d) \/ SendTaskStops(d) \/ LeaseLost(d)
             \/ PresenceRefresh(d) \/ InboundAck(d) \/ AppToolsUpdate(d)
      PROVE  UNCHANGED sendVars
  BY <1>7, Zenon DEF Handler, Acquire, Kick, RetryAcquire, Reconcile, AbortRegister, ReadUnacked,
     Publish, Accept, MarkOnline, StartServing, PutCatalog, LeaveLoop, Unregister, Release, Remove,
     MarkOffline, MarkStale, Hello, SendTaskDelivers, SendTaskStops, LeaseLost, PresenceRefresh,
     InboundAck, AppToolsUpdate
<1>8. ASSUME \/ DeviceDrops \/ LeaseExpires \/ Flush \/ UNCHANGED vars
             \/ \E r \in Replicas : KickDevice(r)
      PROVE  UNCHANGED sendVars
  BY <1>8, Zenon DEF DeviceDrops, LeaseExpires, Flush, KickDevice, vars
<1> QED BY <1>1, <1>2, <1>3, <1>4, <1>5, <1>6, <1>7, <1>8, Zenon DEF Next, Send

(* XRANGE: the replay holds every message it was made from.                *)
LEMMA ReplayHoldsAll ==
    ASSUME GatewayInv, NEW ms \in SUBSET Msgs, NEW q \in InOrder(ms)
    PROVE  {q[i] : i \in DOMAIN q} = ms
<1> DEFINE n == Cardinality(ms)
<1>1. IsFiniteSet(ms) /\ n \in Nat
  BY GatewayAssumption, FS_Subset, FS_CardinalityType, Zenon
<1>2. q \in [1..n -> ms] /\ \A i, j \in 1..n : i < j => mseq[q[i]] < mseq[q[j]]
  BY Zenon DEF InOrder
<1>3. Cardinality(1..n) = n
  BY <1>1, FS_Interval
<1>4. n = Cardinality(ms)
  BY Zenon
<1> HIDE DEF n
<1>5. \A i \in 1..n : mseq[q[i]] \in Nat
  BY <1>2 DEF GatewayInv, RegistryInv, SendTypeOK
<1>6. \A i, j \in 1..n : q[i] = q[j] => i = j
  <2> SUFFICES ASSUME NEW i \in 1..n, NEW j \in 1..n, q[i] = q[j], i # j PROVE FALSE
    BY Zenon
  <2>1. i < j \/ j < i
    BY <1>1
  <2> QED BY <1>2, <1>5, <2>1
<1>7. q \in Injection(1..n, ms)
  BY <1>2, <1>6 DEF Injection, IsInjective
<1>8. q \in Surjection(1..n, ms)
  BY <1>1, <1>3, <1>4, <1>7, FS_Injection
<1> QED BY <1>2, <1>8, Zenon DEF Surjection

(* Pushing a frame and taking the head, as sets of messages.               *)
LEMMA QueueSets ==
    ASSUME NEW q \in Seq(Msgs)
    PROVE  /\ \A m \in Msgs : {Append(q, m)[i] : i \in DOMAIN Append(q, m)}
                              = {q[i] : i \in DOMAIN q} \cup {m}
           /\ q # <<>> => {q[i] : i \in DOMAIN q}
                          = {Head(q)} \cup {Tail(q)[i] : i \in DOMAIN Tail(q)}
<1> DEFINE n == Len(q)
<1>1. n \in Nat /\ DOMAIN q = 1..n /\ \A i \in 1..n : q[i] \in Msgs
  OBVIOUS
<1>2. ASSUME NEW m \in Msgs
      PROVE  {Append(q, m)[i] : i \in DOMAIN Append(q, m)} = {q[i] : i \in DOMAIN q} \cup {m}
  <2> DEFINE a == Append(q, m)
  <2>1. DOMAIN a = 1..n+1 /\ a[n+1] = m /\ \A i \in 1..n : a[i] = q[i]
    OBVIOUS
  <2> HIDE DEF a, n
  <2> QED BY <1>1, <2>1
<1>3. ASSUME q # <<>>
      PROVE  {q[i] : i \in DOMAIN q} = {Head(q)} \cup {Tail(q)[i] : i \in DOMAIN Tail(q)}
  <2> DEFINE t == Tail(q)
             h == Head(q)
  <2>1. n >= 1 /\ DOMAIN t = 1..n-1 /\ h = q[1] /\ \A i \in 1..n-1 : t[i] = q[i+1]
    BY <1>3
  <2> HIDE DEF t, h, n
  <2>2. \A i \in 1..n : i = 1 \/ (i - 1 \in 1..n-1 /\ q[i] = t[i - 1])
    BY <1>1, <2>1
  <2>3. \A i \in 1..n-1 : i + 1 \in 1..n
    BY <1>1
  <2>4. {q[i] : i \in DOMAIN q} \subseteq {h} \cup {t[i] : i \in DOMAIN t}
    <3> SUFFICES ASSUME NEW i \in 1..n PROVE q[i] \in {h} \cup {t[j] : j \in DOMAIN t}
      BY <1>1, Zenon
    <3>1. CASE i = 1
      BY <2>1, <3>1, Zenon
    <3>2. CASE i - 1 \in 1..n-1 /\ q[i] = t[i - 1]
      <4>1. i - 1 \in DOMAIN t
        BY <2>1, <3>2, Zenon
      <4> QED BY <3>2, <4>1, Zenon
    <3> QED BY <2>2, <3>1, <3>2
  <2>5. {h} \cup {t[i] : i \in DOMAIN t} \subseteq {q[i] : i \in DOMAIN q}
    BY <1>1, <2>1, <2>3, SMTT(40)
  <2>6. {q[i] : i \in DOMAIN q} = {h} \cup {t[i] : i \in DOMAIN t}
    BY <2>4, <2>5, Zenon
  <2> QED BY <2>6, Zenon DEF h, t
<1> QED BY <1>2, <1>3, Zenon

(* XRANGE succeeded: the queue is the stream above last_ack.               *)
LEMMA ReadFills ==
    ASSUME GatewayInv, NEW c \in Conns, ReadUnacked(c), queue' # queue \/ pc'[c] = "publish"
    PROVE  /\ pc[c] = "read" /\ pc'[c] = "publish"
           /\ UNCHANGED <<storeVars, sendVars, devVars, lastAck>>
           /\ Queued(c)' = {m \in Msgs : Entry(m) \in stream /\ mseq[m] > lastAck[c]}
           /\ \E q : queue' = [queue EXCEPT ![c] = q]
<1> DEFINE ms == {m \in Msgs : Entry(m) \in stream /\ mseq[m] > lastAck[c]}
<1>1. PICK q \in InOrder(ms) : queue' = [queue EXCEPT ![c] = q]
  BY Zenon DEF ReadUnacked, RedisFails, OnlyPc, Goto, GatewayInv, RegistryInv, ConnTypeOK
<1>2. pc[c] = "read" /\ pc'[c] = "publish" /\ UNCHANGED <<storeVars, sendVars, devVars, lastAck>>
  BY Zenon DEF ReadUnacked, RedisFails, OnlyPc, Goto, GatewayInv, RegistryInv, ConnTypeOK
<1>3. {q[i] : i \in DOMAIN q} = ms
  BY <1>1, ReplayHoldsAll, Zenon
<1>4. queue'[c] = q
  BY <1>1, Zenon DEF GatewayInv, RegistryInv, QueueTypeOK
<1>5. Queued(c)' = ms
  BY <1>3, <1>4 DEF Queued
<1> QED BY <1>1, <1>2, <1>5, Zenon

(* What a step does to a connection's queue, as a set of messages.         *)
QueueMoves(c) ==
    \/ Queued(c)' = Queued(c)
    \/ /\ pc[c] = "read" /\ pc'[c] = "publish" /\ UNCHANGED <<storeVars, sendVars, devVars, lastAck>>
       /\ Queued(c)' = {m \in Msgs : Entry(m) \in stream /\ mseq[m] > lastAck[c]}
    \/ \E m \in Msgs :
          /\ devConn = c /\ c \in sending
          /\ Queued(c) = {m} \cup Queued(c)' /\ got' = got \cup {m}
          /\ UNCHANGED <<storeVars, sendVars, pc>>
    \/ \E m \in Msgs :
          /\ mpc[m] = "push" /\ mconn[m] = c /\ mpc'[m] = "ok"
          /\ Queued(c)' = Queued(c) \cup {m}
          /\ UNCHANGED <<storeVars, devVars, pc, mconn, mseq>>

(* Every step of the hub treats a connection's queue in one of these ways. *)
LEMMA QueueStep ==
    ASSUME GatewayInv, [Next]_vars, NEW c \in Conns
    PROVE  QueueMoves(c)
<1> USE DEF GatewayInv, RegistryInv, QueueTypeOK
<1>1. ASSUME queue' = queue PROVE QueueMoves(c)
  BY <1>1, Zenon DEF QueueMoves, Queued
<1>2. ASSUME NEW d \in Conns, d # c, NEW q, queue' = [queue EXCEPT ![d] = q]
      PROVE  QueueMoves(c)
  <2>1. queue'[c] = queue[c]
    BY <1>2, Zenon
  <2> QED BY <2>1, Zenon DEF QueueMoves, Queued
<1>3. ASSUME NEW d \in Conns, ReadUnacked(d) PROVE QueueMoves(c)
  <2>1. CASE queue' = queue
    BY <1>1, <2>1, SMTT(40)
  <2>2. CASE queue' # queue
    BY <1>2, <1>3, <2>2, ReadFills DEF QueueMoves
  <2> QED BY <2>1, <2>2
<1>4. ASSUME NEW d \in Conns, SendTaskDelivers(d) PROVE QueueMoves(c)
  <2>1. queue' = [queue EXCEPT ![d] = Tail(queue[d])]
    BY <1>4, Zenon DEF SendTaskDelivers
  <2>2. CASE d = c
    <3> DEFINE m == Head(queue[c])
    <3>1. queue[c] \in Seq(Msgs) /\ queue[c] # <<>>
      BY <1>4, <2>2 DEF SendTaskDelivers
    <3>2. m \in Msgs
      BY <3>1, HeadAndTail, Zenon
    <3>3. queue'[c] = Tail(queue[c])
      BY <2>1, <2>2, Zenon
    <3>4. Queued(c) = {m} \cup Queued(c)'
      <4>1. {queue[c][i] : i \in DOMAIN queue[c]}
            = {m} \cup {Tail(queue[c])[i] : i \in DOMAIN Tail(queue[c])}
        BY <3>1, QueueSets, Zenon
      <4> QED BY <3>3, <4>1, Zenon DEF Queued
    <3>5. devConn = c /\ c \in sending /\ got' = got \cup {m} /\ UNCHANGED <<storeVars, sendVars, pc>>
      BY <1>4, <2>2 DEF SendTaskDelivers, connVars
    <3> QED BY <3>2, <3>4, <3>5, Zenon DEF QueueMoves
  <2> QED BY <1>2, <2>1, <2>2, Zenon
<1>5. ASSUME NEW m \in Msgs, Push(m) PROVE QueueMoves(c)
  <2>1. CASE queue' = queue
    BY <1>1, <2>1, Zenon
  <2>2. CASE queue' # queue
    <3>1. /\ queue' = [queue EXCEPT ![mconn[m]] = Append(queue[mconn[m]], m)]
          /\ mpc[m] = "push" /\ SendAt(m, "ok")
          /\ UNCHANGED <<storeVars, devVars, pc, mconn, mseq>>
      BY <1>5, <2>2, Zenon DEF Push, connVars
    <3>2. mconn[m] \in Conns /\ mpc'[m] = "ok"
      BY <3>1, Zenon DEF SendsPicked, SendAt, SendTypeOK
    <3>3. CASE mconn[m] = c
      <4>1. queue[c] \in Seq(Msgs) /\ queue'[c] = Append(queue[c], m)
        BY <3>1, <3>3, Zenon
      <4>2. Queued(c)' = Queued(c) \cup {m}
        <5>1. {Append(queue[c], m)[i] : i \in DOMAIN Append(queue[c], m)}
              = {queue[c][i] : i \in DOMAIN queue[c]} \cup {m}
          BY <4>1, QueueSets, Zenon
        <5> QED BY <4>1, <5>1, Zenon DEF Queued
      <4> QED BY <3>1, <3>2, <3>3, <4>2 DEF QueueMoves
    <3> QED BY <1>2, <3>1, <3>2, <3>3, ZenonT(40)
  <2> QED BY <2>1, <2>2
<1>6. ASSUME NEW d \in Conns, Handler(d), ~ReadUnacked(d) PROVE queue' = queue
  BY <1>6, Zenon DEF Handler, Acquire, Kick, RetryAcquire, Reconcile, AbortRegister,
     Publish, Accept, MarkOnline, StartServing, PutCatalog, LeaveLoop, Unregister, Release, Remove,
     MarkOffline, MarkStale
<1>7. ASSUME NEW d \in Conns,
             \/ Hello(d) \/ SendTaskStops(d) \/ LeaseLost(d)
             \/ PresenceRefresh(d) \/ InboundAck(d) \/ AppToolsUpdate(d)
      PROVE  queue' = queue
  BY <1>7, Zenon DEF Hello, SendTaskStops, LeaseLost, PresenceRefresh, InboundAck, AppToolsUpdate
<1>8. ASSUME NEW m \in Msgs, PickConnection(m) \/ Reserve(m) \/ Write(m) PROVE queue' = queue
  BY <1>8, Zenon DEF PickConnection, Reserve, Write
<1>9. ASSUME \/ DeviceDrops \/ LeaseExpires \/ Flush \/ UNCHANGED vars
             \/ \E r \in Replicas : KickDevice(r) \/ Crash(r)
      PROVE  queue' = queue
  BY <1>9, Zenon DEF DeviceDrops, LeaseExpires, Flush, KickDevice, Crash, vars
<1> QED BY <1>1, <1>3, <1>4, <1>5, <1>6, <1>7, <1>8, <1>9, Zenon DEF Next, Send

(* A session that lost the lease never holds it again, and while it keeps  *)
(* the lease the counter only grows.                                       *)
LEMMA LeaseKept ==
    ASSUME GatewayInv, [Next]_vars, NEW c \in Conns, epoch[c] # 0
    PROVE  /\ epoch'[c] # 0
           /\ lock' = c => lock = c /\ seq' >= seq
<1> USE StoreAssumption DEF GatewayInv, StoreInv, StoreTypeOK, Conns
<1>1. [StoreNext]_storeVars
  BY StoreStep, Zenon
<1>2. ASSUME NEW s \in Sessions, TryAcquireLock(s) PROVE epoch'[c] # 0 /\ lock' # c
  BY <1>2, Zenon DEF TryAcquireLock
<1>3. ASSUME NEW s \in Sessions, NEW ack \in 0..MaxSeq, ReconcileOnHello(s, ack)
      PROVE  epoch' = epoch /\ lock' = lock /\ seq' >= seq
  BY <1>3 DEF ReconcileOnHello
<1>4. ASSUME epoch' = epoch, lock' \in {lock, NoSession}, seq' >= seq \/ lock' = NoSession
      PROVE  epoch'[c] # 0 /\ (lock' = c => lock = c /\ seq' >= seq)
  BY <1>4, Zenon
<1>5. ASSUME NEW s \in Sessions, ReleaseLock(s) \/ FencedIncrSeq(s)
      PROVE  epoch' = epoch /\ lock' \in {lock, NoSession} /\ seq' >= seq
  BY <1>5 DEF ReleaseLock, FencedIncrSeq
<1>6. ASSUME NEW s \in Sessions, NEW n \in 1..MaxSeq, FencedXadd(s, n) \/ XaddRefused(s, n)
      PROVE  epoch' = epoch /\ lock' = lock /\ seq' >= seq
  BY <1>6 DEF FencedXadd, XaddRefused
<1>7. ASSUME \/ UNCHANGED storeVars \/ LockExpires \/ StoreLosesState
             \/ \E ack \in 1..MaxSeq : ObserveAck(ack)
      PROVE  epoch' = epoch /\ lock' \in {lock, NoSession} /\ (seq' >= seq \/ lock' = NoSession)
  BY <1>7 DEF LockExpires, StoreLosesState, ObserveAck, storeVars
<1>8. CASE \E s \in Sessions : TryAcquireLock(s)
  BY <1>2, <1>8, Zenon
<1>9. CASE StoreNext /\ ~\E s \in Sessions : TryAcquireLock(s)
  <2>1. epoch' = epoch /\ lock' \in {lock, NoSession} /\ (seq' >= seq \/ lock' = NoSession)
    BY <1>3, <1>5, <1>6, <1>7, <1>9, Zenon DEF StoreNext
  <2> QED BY <1>4, <2>1
<1> QED BY <1>1, <1>4, <1>7, <1>8, <1>9

(* What enters the stream is the frame of a send() of the lease holder.    *)
LEMMA StreamGrows ==
    ASSUME GatewayInv, [Next]_vars, NEW e \in stream', e \notin stream
    PROVE  \E m \in Msgs : /\ mpc[m] = "write" /\ mconn[m] = lock /\ e = Entry(m)
                           /\ UNCHANGED <<lock, mconn, mseq>>
<1>1. ASSUME NEW d \in Conns, Handler(d) PROVE stream' \subseteq stream
  <2>1. CASE Reconcile(d)
    BY <2>1, Zenon DEF Reconcile, RedisFails, ReconcileOnHello, Trim, storeVars
  <2>2. CASE ~Reconcile(d)
    <3>1. stream' = stream
      BY <1>1, <2>2, Zenon DEF Handler, AcquireFails, RedisFails, Acquire, Kick, RetryAcquire,
         AbortRegister, ReadUnacked, Publish, Accept, MarkOnline, StartServing, PutCatalog, LeaveLoop,
         Unregister, Release, Remove, MarkOffline, MarkStale, TryAcquireLock, ReleaseLock, storeVars
    <3> QED BY <3>1
  <2> QED BY <2>1, <2>2, Zenon
<1>2. ASSUME NEW d \in Conns,
             \/ Hello(d) \/ SendTaskDelivers(d) \/ SendTaskStops(d) \/ LeaseLost(d)
             \/ PresenceRefresh(d) \/ AppToolsUpdate(d)
      PROVE  stream' = stream
  BY <1>2, Zenon DEF Hello, SendTaskDelivers, SendTaskStops, LeaseLost, PresenceRefresh,
     AppToolsUpdate, storeVars
<1>3. ASSUME NEW d \in Conns, InboundAck(d) PROVE stream' \subseteq stream
  BY <1>3, Zenon DEF InboundAck, ObserveAck, Trim
<1>4. ASSUME NEW m \in Msgs, PickConnection(m) \/ Reserve(m) \/ Push(m) PROVE stream' = stream
  BY <1>4, Zenon DEF PickConnection, Reserve, Push, FencedIncrSeq, storeVars
<1>5. ASSUME \/ DeviceDrops \/ LeaseExpires \/ UNCHANGED vars
             \/ \E r \in Replicas : KickDevice(r) \/ Crash(r)
      PROVE  stream' = stream
  BY <1>5, Zenon DEF DeviceDrops, LeaseExpires, LockExpires, KickDevice, Crash, vars, storeVars
<1>6. CASE Flush
  BY <1>6, Zenon DEF Flush, StoreLosesState
<1>7. ASSUME NEW m \in Msgs, Write(m)
      PROVE  stream' \subseteq stream
             \/ /\ mpc[m] = "write" /\ mconn[m] = lock /\ stream' \subseteq stream \cup {Entry(m)}
                /\ UNCHANGED <<lock, mconn, mseq>>
  BY <1>7, Zenon DEF Write, FencedXadd, XaddRefused, Capped, Entry, storeVars
<1> QED BY <1>1, <1>2, <1>3, <1>4, <1>5, <1>6, <1>7, SMTT(40) DEF Next, Send

(* The device hangs up, dials, or reads the head of its own queue.         *)
DeviceMoves ==
    \/ devConn' \in {devConn, NoSession} /\ UNCHANGED <<localAck, got>>
    \/ UNCHANGED <<localAck, got>> /\ \E c \in Conns : Hello(c) /\ devConn' = c
    \/ \E c \in Conns : \E m \in Queued(c) :
          /\ devConn = c /\ c \in sending
          /\ localAck' = IF mseq[m] > localAck THEN mseq[m] ELSE localAck
          /\ got' = got \cup {m}
          /\ UNCHANGED <<storeVars, sendVars, pc, devConn>>

(* Every step treats the device's acknowledgement and what it got in one   *)
(* of these ways.                                                          *)
LEMMA DeviceStep == ASSUME GatewayInv, [Next]_vars PROVE DeviceMoves
<1>1. ASSUME UNCHANGED devVars PROVE DeviceMoves
  BY <1>1, Zenon DEF DeviceMoves, devVars
<1>2. ASSUME NEW d \in Conns, Hello(d) PROVE DeviceMoves
  BY <1>2, Zenon DEF DeviceMoves, Hello
<1>3. CASE DeviceDrops
  BY <1>3, Zenon DEF DeviceMoves, DeviceDrops
<1>4. ASSUME NEW d \in Conns, SendTaskDelivers(d) PROVE DeviceMoves
  <2> DEFINE m == Head(queue[d])
  <2>1. queue[d] \in Seq(Msgs) /\ queue[d] # <<>>
    BY <1>4, Zenon DEF SendTaskDelivers, GatewayInv, RegistryInv, QueueTypeOK
  <2>2. m \in Queued(d)
    <3>1. {queue[d][i] : i \in DOMAIN queue[d]}
          = {m} \cup {Tail(queue[d])[i] : i \in DOMAIN Tail(queue[d])}
      BY <2>1, QueueSets, Zenon
    <3> QED BY <3>1, Zenon DEF Queued
  <2>3. /\ devConn = d /\ d \in sending
        /\ localAck' = IF mseq[m] > localAck THEN mseq[m] ELSE localAck
        /\ got' = got \cup {m}
        /\ UNCHANGED <<storeVars, sendVars, pc, devConn>>
    BY <1>4 DEF SendTaskDelivers, connVars
  <2> QED BY <2>2, <2>3, Zenon DEF DeviceMoves
<1>5. ASSUME NEW d \in Conns,
             \/ Handler(d) \/ SendTaskStops(d) \/ LeaseLost(d)
             \/ PresenceRefresh(d) \/ InboundAck(d) \/ AppToolsUpdate(d)
      PROVE  UNCHANGED devVars
  BY <1>5, Zenon DEF Handler, Acquire, Kick, RetryAcquire, Reconcile, AbortRegister, ReadUnacked,
     Publish, Accept, MarkOnline, StartServing, PutCatalog, LeaveLoop, Unregister, Release, Remove,
     MarkOffline, MarkStale, SendTaskStops, LeaseLost, PresenceRefresh, InboundAck, AppToolsUpdate
<1>6. ASSUME NEW m \in Msgs, Send(m) PROVE UNCHANGED devVars
  BY <1>6, Zenon DEF Send, PickConnection, Reserve, Write, Push
<1>7. ASSUME \/ LeaseExpires \/ Flush \/ UNCHANGED vars
             \/ \E r \in Replicas : KickDevice(r) \/ Crash(r)
      PROVE  UNCHANGED devVars
  BY <1>7, Zenon DEF LeaseExpires, Flush, KickDevice, Crash, vars
<1> QED BY <1>1, <1>2, <1>3, <1>4, <1>5, <1>6, <1>7, Zenon DEF Next

(* Only Hello records a last_ack, and only StartServing starts a send task.*)
LEMMA ConnStep ==
    ASSUME GatewayInv, [Next]_vars
    PROVE  /\ lastAck' = lastAck \/ \E d \in Conns : Hello(d)
           /\ sending' \subseteq sending \/ \E d \in Conns : StartServing(d)
<1>1. ASSUME NEW d \in Conns, Handler(d), ~StartServing(d) PROVE lastAck' = lastAck /\ sending' \subseteq sending
  <2>1. lastAck' = lastAck /\ (sending' = sending \/ sending' = sending \ {d})
    BY <1>1, Zenon DEF Handler, AcquireFails, RedisFails, OnlyPc, Acquire, Kick, RetryAcquire,
       Reconcile, AbortRegister, ReadUnacked, Publish, Accept, MarkOnline, PutCatalog,
       LeaveLoop, Unregister, Release, Remove, MarkOffline, MarkStale, connVars
  <2> QED BY <2>1
<1>2. ASSUME NEW d \in Conns, StartServing(d) PROVE lastAck' = lastAck
  BY <1>2, Zenon DEF StartServing
<1>3. ASSUME NEW d \in Conns, Hello(d) PROVE sending' = sending
  BY <1>3, Zenon DEF Hello
<1>4. ASSUME NEW d \in Conns,
             \/ SendTaskDelivers(d) \/ LeaseLost(d) \/ SendTaskStops(d)
             \/ PresenceRefresh(d) \/ InboundAck(d) \/ AppToolsUpdate(d)
      PROVE  lastAck' = lastAck /\ (sending' = sending \/ sending' = sending \ {d})
  BY <1>4, Zenon DEF SendTaskDelivers, LeaseLost, SendTaskStops, PresenceRefresh, InboundAck,
     AppToolsUpdate, connVars
<1>5. ASSUME NEW m \in Msgs, Send(m) PROVE lastAck' = lastAck /\ sending' = sending
  BY <1>5, Zenon DEF Send, PickConnection, Reserve, Write, Push, FailConnection, connVars
<1>6. ASSUME \/ DeviceDrops \/ LeaseExpires \/ Flush \/ UNCHANGED vars
             \/ \E r \in Replicas : KickDevice(r)
      PROVE  lastAck' = lastAck /\ sending' = sending
  BY <1>6, Zenon DEF DeviceDrops, LeaseExpires, Flush, KickDevice, vars, connVars
<1>7. ASSUME NEW r \in Replicas, Crash(r)
      PROVE  lastAck' = lastAck /\ sending' \subseteq sending
  BY <1>7, Zenon DEF Crash
<1> QED BY <1>1, <1>2, <1>3, <1>4, <1>5, <1>6, <1>7, SMTT(40) DEF Next

----------------------------------------------------------------------------
(* A connection that is being set up is in nobody's hands: no replica      *)
(* lists it, no send() picked it.                                          *)
Unlisted ==
    \A c \in Conns : pc[c] \in Before =>
        /\ \A r \in Replicas : entry[r] # c
        /\ \A m \in Msgs : mconn[m] # c

(* Whoever is past acquiring, has frames queued or numbers reserved has    *)
(* had the lease, so a session without it will not get it back.            *)
HeldOnce ==
    /\ \A c \in Conns :
          pc[c] \in {"reconcile", "read", "publish", "accept"} \cup Serving => epoch[c] # 0
    /\ \A c \in Conns : Queued(c) # {} => epoch[c] # 0
    /\ \A m \in Msgs : mpc[m] \in {"write", "push"} => epoch[mconn[m]] # 0

(* A send task runs only under the receive loop.                           *)
SendersUp == \A c \in sending : pc[c] = "up"

(* Zero is the number of a message that has none yet: it is not in the     *)
(* stream, and such a message is in no queue.                              *)
Unnumbered ==
    /\ \A m \in Msgs : mpc[m] \in {"new", "reserve"} => mseq[m] = 0
    /\ \A e \in stream : e.id # 0
    /\ \A c \in Conns : \A m \in Queued(c) : mpc[m] \notin {"new", "reserve"}

(* The holder's frames, on their way or queued, come from the counter.     *)
NumbersIssued ==
    \A c \in Conns : lock = c =>
        /\ \A m \in Queued(c) : mseq[m] <= seq
        /\ \A m \in Msgs : mconn[m] = c /\ mpc[m] \in {"write", "push"} => mseq[m] <= seq

(* Until reconcile_on_hello has run, the device has read nothing since its *)
(* Hello.                                                                  *)
HelloFresh ==
    \A c \in Conns : devConn = c /\ pc[c] \in {"acquire", "kick", "retry", "reconcile"}
        => localAck = lastAck[c]

(* reconcile_on_hello left only what the replay will read.                 *)
Trimmed ==
    \A c \in Conns : lock = c /\ pc[c] = "read" => \A e \in stream : e.id > lastAck[c]

(* From the replay on, what others wrote is read or queued.                *)
Replayed ==
    \A c \in Conns : lock = c /\ pc[c] \in {"publish", "accept"} \cup Serving =>
        \A m \in Msgs : Entry(m) \in stream /\ mconn[m] # c => m \in got \cup Queued(c)

(* What was pushed on a connection stays in its queue until it is read.    *)
Pushed == \A m \in Msgs : mpc[m] = "ok" => m \in got \cup Queued(mconn[m])

PlacesInv == GatewayInv /\ Unlisted /\ HeldOnce /\ SendersUp /\ Unnumbered
DeliveryInv ==
    PlacesInv /\ NumbersIssued /\ HelloFresh /\ NumbersAboveAck /\ Trimmed /\ Replayed /\ Pushed

(* Nothing is registered, queued or stored.                                *)
LEMMA InitDelivery == Init => DeliveryInv
<1> SUFFICES ASSUME Init PROVE DeliveryInv
  BY Zenon
<1> USE StoreAssumption DEF Init, StoreInit
<1>1. GatewayInv
  BY InitGatewayInv, Zenon
<1>2. \A c \in Conns : Queued(c) = {}
  BY DEF Queued
<1>3. Unlisted /\ SendersUp
  BY Zenon DEF Unlisted, SendersUp, Conns
<1>4. HeldOnce /\ Unnumbered
  BY <1>2, Zenon DEF HeldOnce, Unnumbered, Serving
<1>5. NumbersIssued /\ HelloFresh /\ NumbersAboveAck /\ Trimmed /\ Replayed /\ Pushed
  BY <1>2, Zenon DEF NumbersIssued, HelloFresh, NumbersAboveAck, Trimmed, Replayed, Pushed, Conns
<1> QED BY <1>1, <1>3, <1>4, <1>5 DEF DeliveryInv, PlacesInv

(* A connection is listed, queued for or picked only after register.       *)
LEMMA StepUnlisted == PlacesInv /\ [Next]_vars => Unlisted'
<1> SUFFICES ASSUME PlacesInv, [Next]_vars, NEW c \in Conns, pc'[c] \in Before
             PROVE  /\ \A r \in Replicas : entry'[r] # c
                    /\ \A m \in Msgs : mconn'[m] # c
  BY Zenon DEF Unlisted
<1>1. GatewayInv /\ Unlisted
  BY Zenon DEF PlacesInv
<1>2. pc[c] \in Before
  BY <1>1, PcStep, ZenonT(40) DEF PcMoves, Before, Registering, Serving, Leaving, Hello
<1>3. ASSUME NEW r \in Replicas PROVE entry'[r] # c
  <2>1. entry[r] # c /\ c # NoSession
    BY <1>1, <1>2, StoreAssumption, SMTT(40) DEF Unlisted, Conns
  <2> QED BY <1>1, <2>1, EntryStep DEF Before, Registering
<1>4. ASSUME NEW m \in Msgs PROVE mconn'[m] # c
  <2>1. SendMoves(m)
    BY <1>1, SendStepMoves, SMTT(40)
  <2> QED BY <1>1, <1>2, <2>1, Zenon DEF SendMoves, Unlisted
<1> QED BY <1>3, <1>4, Zenon

(* A session that serves, queues or numbers frames has had the lease.      *)
LEMMA StepHeldOnce == PlacesInv /\ [Next]_vars => HeldOnce'
<1> SUFFICES ASSUME PlacesInv, [Next]_vars PROVE HeldOnce'
  BY Zenon
<1>1. GatewayInv /\ HeldOnce
  BY Zenon DEF PlacesInv
<1>2. ASSUME NEW c \in Conns, pc'[c] \in {"reconcile", "read", "publish", "accept"} \cup Serving
      PROVE  epoch'[c] # 0
  <2>1. CASE TryAcquireLock(c)
    BY <1>1, <2>1, SMTT(40) DEF TryAcquireLock, GatewayInv, StoreInv, StoreTypeOK, Conns
  <2>2. CASE ~TryAcquireLock(c)
    <3>1. pc[c] \in {"reconcile", "read", "publish", "accept"} \cup Serving
      BY <1>1, <1>2, <2>2, PcStep DEF PcMoves, Serving, Leaving
    <3> QED BY <1>1, <3>1, LeaseKept, SMTT(40) DEF HeldOnce
  <2> QED BY <2>1, <2>2
<1>3. ASSUME NEW c \in Conns, Queued(c)' # {} PROVE epoch'[c] # 0
  <2>1. QueueMoves(c)
    BY <1>1, QueueStep, Zenon
  <2>2. epoch[c] # 0
    BY <1>1, <1>3, <2>1, SMTT(40) DEF QueueMoves, HeldOnce
  <2> QED BY <1>1, <2>2, LeaseKept
<1>4. ASSUME NEW m \in Msgs, mpc'[m] \in {"write", "push"} PROVE epoch'[mconn'[m]] # 0
  <2>1. SendMoves(m)
    BY <1>1, SendStepMoves, Zenon
  <2>2. mconn'[m] = mconn[m] /\ mconn[m] \in Conns
    BY <1>1, <1>4, <2>1 DEF SendMoves, GatewayInv, RegistryInv, SendsPicked
  <2>3. epoch[mconn[m]] # 0
    <3>1. CASE FencedIncrSeq(mconn[m])
      BY <1>1, <2>2, <3>1, StoreAssumption
         DEF FencedIncrSeq, GatewayInv, StoreInv, StoreTypeOK, HolderIsNewest, Conns
    <3>2. CASE ~FencedIncrSeq(mconn[m])
      BY <1>1, <1>4, <2>1, <3>2, Zenon DEF SendMoves, HeldOnce
    <3> QED BY <3>1, <3>2, Zenon
  <2> QED BY <1>1, <2>2, <2>3, LeaseKept
<1> QED BY <1>2, <1>3, <1>4 DEF HeldOnce

(* The send task is started by the receive loop and ends with it.          *)
LEMMA StepSendersUp == PlacesInv /\ [Next]_vars => SendersUp'
<1> SUFFICES ASSUME PlacesInv, [Next]_vars, NEW c \in sending' PROVE pc'[c] = "up"
  BY Zenon DEF SendersUp
<1> USE DEF PlacesInv, GatewayInv, RegistryInv, ConnTypeOK
<1>1. ASSUME NEW d \in Conns, StartServing(d) PROVE pc'[c] = "up"
  <2>1. c \in sending \/ c = d
    BY <1>1, Zenon DEF StartServing
  <2> QED BY <1>1, <2>1 DEF StartServing, Goto, SendersUp
<1>2. ASSUME \A d \in Conns : ~StartServing(d) PROVE pc'[c] = "up"
  <2>1. c \in sending /\ c \in Conns /\ pc[c] = "up"
    BY <1>2, ConnStep, Zenon DEF SendersUp
  <2>2. ASSUME NEW d \in Conns, Handler(d) PROVE pc'[c] = "up"
    <3>1. CASE d # c
      BY <2>1, <2>2, <3>1, OthersStay
    <3>2. CASE LeaveLoop(c)
      BY <3>2, Zenon DEF LeaveLoop
    <3>3. CASE d = c /\ ~LeaveLoop(c)
      <4>1. PutCatalog(c)
        BY <1>2, <2>1, <2>2, <3>3, ZenonT(40) DEF Handler, Acquire, Kick, RetryAcquire, Reconcile, AbortRegister,
           ReadUnacked, Publish, Accept, MarkOnline, Unregister, Release, Remove, MarkOffline, MarkStale
      <4> QED BY <2>1, <4>1, SMTT(40) DEF PutCatalog, connVars
    <3> QED BY <3>1, <3>2, <3>3, SMTT(40)
  <2>3. ASSUME NEW r \in Replicas, Crash(r) PROVE pc'[c] = "up"
    BY <2>1, <2>3, Zenon DEF Crash
  <2>4. ASSUME NEW d \in Conns, Hello(d) PROVE pc'[c] = "up"
    BY <2>1, <2>4 DEF Hello, Goto
  <2>5. ASSUME NEW d \in Conns,
               \/ SendTaskDelivers(d) \/ SendTaskStops(d) \/ LeaseLost(d)
               \/ PresenceRefresh(d) \/ InboundAck(d) \/ AppToolsUpdate(d)
        PROVE  pc' = pc
    BY <2>5, Zenon DEF SendTaskDelivers, SendTaskStops, LeaseLost, PresenceRefresh, InboundAck,
       AppToolsUpdate, connVars
  <2>6. ASSUME NEW m \in Msgs, Send(m) PROVE pc' = pc
    BY <2>6, Zenon DEF Send, PickConnection, Reserve, Write, Push, FailConnection, connVars
  <2>7. ASSUME \/ DeviceDrops \/ LeaseExpires \/ Flush \/ UNCHANGED vars
               \/ \E r \in Replicas : KickDevice(r)
        PROVE  pc' = pc
    BY <2>7, Zenon DEF DeviceDrops, LeaseExpires, Flush, KickDevice, vars, connVars
  <2> QED BY <2>1, <2>2, <2>3, <2>4, <2>5, <2>6, <2>7, Zenon DEF Next
<1> QED BY <1>1, <1>2, Zenon

(* A message gets its number from fenced_incr_seq, before it is written or *)
(* queued.                                                                 *)
LEMMA StepUnnumbered == PlacesInv /\ [Next]_vars => Unnumbered'
<1> SUFFICES ASSUME PlacesInv, [Next]_vars PROVE Unnumbered'
  BY Zenon
<1>1. GatewayInv /\ Unnumbered
  BY Zenon DEF PlacesInv
<1>2. ASSUME NEW m \in Msgs
      PROVE  mpc'[m] \in {"new", "reserve"} => mseq'[m] = 0 /\ mpc[m] \in {"new", "reserve"}
  <2>1. SendMoves(m)
    BY <1>1, SendStepMoves, Zenon
  <2> QED BY <1>1, <2>1, Zenon DEF SendMoves, Unnumbered
<1>3. ASSUME NEW e \in stream' PROVE e.id # 0
  <2>1. CASE e \in stream
    BY <1>1, <2>1, Zenon DEF Unnumbered
  <2>2. CASE e \notin stream
    <3>1. PICK m \in Msgs : mpc[m] = "write" /\ e = Entry(m)
      BY <1>1, <2>2, StreamGrows, Zenon
    <3> QED BY <1>1, <3>1 DEF Entry, GatewayInv, RegistryInv, SendsPicked
  <2> QED BY <2>1, <2>2, Zenon
<1>4. ASSUME NEW c \in Conns, NEW m \in Queued(c)' PROVE mpc'[m] \notin {"new", "reserve"}
  <2>1. QueueMoves(c)
    BY <1>1, QueueStep, Zenon
  <2>2. m \in Msgs
    <3>1. QueueTypeOK'
      BY StepGatewayInv, <1>1, Zenon DEF GatewayInv, RegistryInv
    <3> QED BY <3>1 DEF QueueTypeOK, Queued
  <2>3. CASE m \in Queued(c)
    BY <1>1, <1>2, <2>2, <2>3, Zenon DEF Unnumbered
  <2>4. CASE Entry(m) \in stream /\ UNCHANGED sendVars
    BY <1>1, <2>2, <2>4, Zenon DEF Entry, sendVars, Unnumbered
  <2>5. CASE mpc'[m] = "ok"
    BY <2>5, Zenon
  <2> QED BY <2>1, <2>3, <2>4, <2>5 DEF QueueMoves
<1> QED BY <1>2, <1>3, <1>4, Zenon DEF Unnumbered

(* What the delivery proof knows of places is kept by every step.          *)
LEMMA StepPlaces == PlacesInv /\ [Next]_vars => PlacesInv'
  BY StepGatewayInv, StepUnlisted, StepHeldOnce, StepSendersUp, StepUnnumbered DEF PlacesInv

(* A message with a number keeps it and its connection.                    *)
LEMMA NumberKept ==
    ASSUME GatewayInv, [Next]_vars, NEW m \in Msgs, mpc[m] \notin {"new", "reserve"}
    PROVE  mconn'[m] = mconn[m] /\ mseq'[m] = mseq[m]
<1>1. SendMoves(m)
  BY SendStepMoves, Zenon
<1> QED BY <1>1, Zenon DEF SendMoves

(* The holder's numbers stay within the counter, which only its own steps  *)
(* move.                                                                   *)
LEMMA StepNumbersIssued == DeliveryInv /\ [Next]_vars => NumbersIssued'
<1> SUFFICES ASSUME DeliveryInv, [Next]_vars, NEW c \in Conns, lock' = c
             PROVE  /\ \A m \in Queued(c)' : mseq'[m] <= seq'
                    /\ \A m \in Msgs : mconn'[m] = c /\ mpc'[m] \in {"write", "push"} => mseq'[m] <= seq'
  BY Zenon DEF NumbersIssued
<1>1. GatewayInv /\ HeldOnce /\ Unnumbered /\ NumbersIssued /\ GatewayInv'
  BY StepGatewayInv, Zenon DEF DeliveryInv, PlacesInv
<1>2. epoch[c] # 0 => lock = c /\ seq' >= seq
  BY <1>1, LeaseKept, Zenon
<1>3. seq \in Nat /\ seq' \in Nat /\ \A m \in Msgs : mseq[m] \in Nat
  BY <1>1 DEF GatewayInv, StoreInv, StoreTypeOK, RegistryInv, SendTypeOK
<1>4. ASSUME NEW m \in Queued(c)' PROVE mseq'[m] <= seq'
  <2>1. QueueMoves(c) /\ m \in Msgs
    <3>1. m \in Msgs
      BY <1>1 DEF GatewayInv, RegistryInv, QueueTypeOK, Queued
    <3> QED BY <1>1, <3>1, QueueStep, Zenon
  <2>2. CASE m \in Queued(c)
    <3>1. lock = c /\ seq' >= seq /\ mpc[m] \notin {"new", "reserve"}
      BY <1>1, <1>2, <2>2, SMTT(40) DEF HeldOnce, Unnumbered
    <3>2. mseq'[m] = mseq[m] /\ mseq[m] <= seq
      BY <1>1, <2>1, <2>2, <3>1, NumberKept, SMTT(40) DEF NumbersIssued
    <3> QED BY <1>3, <2>1, <3>1, <3>2, SMTT(40)
  <2>3. CASE Entry(m) \in stream /\ UNCHANGED <<storeVars, sendVars>>
    BY <1>1, <1>3, <2>1, <2>3, SMTT(40) DEF Entry, storeVars, sendVars, GatewayInv, StoreInv, StoreTypeOK, StreamBounded
  <2>4. CASE mpc[m] = "push" /\ mconn[m] = c /\ UNCHANGED <<storeVars, mseq>>
    BY <1>1, <1>2, <2>1, <2>4, SMTT(40) DEF storeVars, HeldOnce, NumbersIssued
  <2> QED BY <2>1, <2>2, <2>3, <2>4, Zenon DEF QueueMoves
<1>5. ASSUME NEW m \in Msgs, mconn'[m] = c, mpc'[m] \in {"write", "push"} PROVE mseq'[m] <= seq'
  <2>1. SendMoves(m)
    BY <1>1, SendStepMoves
  <2>2. CASE FencedIncrSeq(mconn[m]) /\ mseq'[m] = seq + 1
    BY <1>3, <2>2 DEF FencedIncrSeq
  <2>3. CASE mpc[m] \in {"write", "push"} /\ mconn'[m] = mconn[m] /\ mseq'[m] = mseq[m]
    <3>1. lock = c /\ seq' >= seq /\ mseq[m] <= seq
      BY <1>1, <1>2, <1>5, <2>3 DEF HeldOnce, NumbersIssued
    <3> QED BY <1>3, <2>3, <3>1, SMTT(40)
  <2> QED BY <1>5, <2>1, <2>2, <2>3, Zenon DEF SendMoves
<1> QED BY <1>4, <1>5, Zenon

(* Nothing is read by the device between its Hello and the replay.         *)
LEMMA StepHelloFresh == DeliveryInv /\ [Next]_vars => HelloFresh'
<1> SUFFICES ASSUME DeliveryInv, [Next]_vars, NEW c \in Conns, devConn' = c,
                    pc'[c] \in {"acquire", "kick", "retry", "reconcile"}
             PROVE  localAck' = lastAck'[c]
  BY Zenon DEF HelloFresh
<1>1. GatewayInv /\ SendersUp /\ HelloFresh /\ c # NoSession
  BY StoreAssumption, Zenon DEF DeliveryInv, PlacesInv, Conns
<1>2. CASE Hello(c)
  BY <1>1, <1>2, Zenon DEF Hello, GatewayInv, RegistryInv, ConnTypeOK
<1>3. CASE ~Hello(c)
  <2>1. pc[c] \in {"acquire", "kick", "retry", "reconcile"}
    BY <1>1, <1>3, PcStep DEF PcMoves, Serving, Leaving
  <2>2. c \notin sending
    BY <1>1, <2>1, Zenon DEF SendersUp
  <2>3. devConn = c /\ localAck' = localAck
    BY <1>1, <1>3, <2>2, DeviceStep, SMTT(40) DEF DeviceMoves
  <2>4. lastAck'[c] = lastAck[c]
    <3>1. \A d \in Conns : ~Hello(d)
      BY <1>1, <2>3, Zenon DEF Hello
    <3> QED BY <1>1, <3>1, ConnStep
  <2> QED BY <1>1, <2>1, <2>3, <2>4, SMTT(40) DEF HelloFresh
<1> QED BY <1>2, <1>3, Zenon

(* Trimming and new numbers both keep the stream and the queues above the  *)
(* acknowledgement.                                                        *)
LEMMA StepNumbersAboveAck == DeliveryInv /\ [Next]_vars => NumbersAboveAck'
<1> DEFINE Past == {"read", "publish", "accept"} \cup Serving
<1> SUFFICES ASSUME DeliveryInv, [Next]_vars, NEW c \in Conns, lock' = c, devConn' = c, pc'[c] \in Past
             PROVE  localAck' <= seq'
  BY Zenon DEF NumbersAboveAck
<1>1. /\ GatewayInv /\ HeldOnce /\ SendersUp /\ NumbersIssued /\ HelloFresh /\ NumbersAboveAck
      /\ c # NoSession /\ seq \in Nat /\ localAck \in Nat
  <2>1. /\ GatewayInv /\ HeldOnce /\ SendersUp /\ NumbersIssued /\ HelloFresh /\ NumbersAboveAck
        /\ c # NoSession
    BY StoreAssumption, Zenon DEF DeliveryInv, PlacesInv, Conns
  <2>2. seq \in 0..MaxSeq /\ localAck \in 0..MaxSeq
    BY <2>1, Zenon DEF GatewayInv, StoreInv, StoreTypeOK, RegistryInv, DeviceTypeOK
  <2>3. seq \in Nat /\ localAck \in Nat
    BY <2>2, SMT
  <2> QED BY <2>1, <2>3, Zenon
<1>2. seq' \in Nat /\ localAck' \in Nat /\ lastAck[c] \in Nat
  BY <1>1, StepGatewayInv DEF GatewayInv, StoreInv, StoreTypeOK, RegistryInv, DeviceTypeOK, ConnTypeOK
<1>3. ~Hello(c)
  BY <1>1, Zenon DEF Hello, Goto, GatewayInv, RegistryInv, ConnTypeOK, Serving
<1>4. \/ /\ pc[c] = "reconcile" /\ ReconcileOnHello(c, lastAck[c]) /\ UNCHANGED devVars
      \/ pc[c] \in Past
  BY <1>1, <1>3, PcStep, ZenonT(40) DEF PcMoves, Serving, Leaving
<1>5. CASE pc[c] = "reconcile" /\ ReconcileOnHello(c, lastAck[c]) /\ UNCHANGED devVars
  <2>1. localAck' = lastAck[c]
    BY <1>1, <1>5, Zenon DEF HelloFresh, devVars
  <2> QED BY <1>1, <1>2, <1>5, <2>1, SMTT(40) DEF ReconcileOnHello
<1>6. CASE pc[c] \in Past
  <2>1. lock = c /\ seq' >= seq
    BY <1>1, <1>6, LeaseKept, Zenon DEF HeldOnce
  <2>2. devConn = c
    BY <1>1, <1>3, DeviceStep, Zenon DEF DeviceMoves
  <2>3. localAck <= seq
    BY <1>1, <1>6, <2>1, <2>2, SMTT(40) DEF NumbersAboveAck
  <2>4. localAck' = localAck \/ \E m \in Queued(c) : localAck' = mseq[m]
    BY <1>3, <2>2, <1>1, DeviceStep DEF DeviceMoves
  <2>5. \A m \in Queued(c) : mseq[m] <= seq
    BY <1>1, <2>1, Zenon DEF NumbersIssued
  <2>6. localAck' <= seq
    BY <2>3, <2>4, <2>5, Zenon
  <2> QED BY <1>1, <1>2, <2>1, <2>6
<1> QED BY <1>4, <1>5, <1>6

(* After reconcile_on_hello nobody but the holder could write below the    *)
(* replay.                                                                 *)
LEMMA StepTrimmed == DeliveryInv /\ [Next]_vars => Trimmed'
<1> SUFFICES ASSUME DeliveryInv, [Next]_vars, NEW c \in Conns, lock' = c, pc'[c] = "read",
                    NEW e \in stream'
             PROVE  e.id > lastAck'[c]
  BY Zenon DEF Trimmed
<1>1. GatewayInv /\ Unlisted /\ HeldOnce /\ Trimmed
  BY Zenon DEF DeliveryInv, PlacesInv
<1>2. \/ pc[c] = "reconcile" /\ ReconcileOnHello(c, lastAck[c]) /\ UNCHANGED lastAck
      \/ pc[c] = "read"
  BY <1>1, PcStep, Zenon DEF PcMoves, Serving, Leaving
<1>3. CASE pc[c] = "reconcile" /\ ReconcileOnHello(c, lastAck[c]) /\ UNCHANGED lastAck
  BY <1>3, Zenon DEF ReconcileOnHello, Trim
<1>4. CASE pc[c] = "read"
  <2>1. lock = c
    BY <1>1, <1>4, LeaseKept, Zenon DEF HeldOnce
  <2>2. e \in stream
    BY <1>1, <1>4, <2>1, StreamGrows, Zenon DEF Unlisted, Before, Registering
  <2>3. lastAck'[c] = lastAck[c]
    <3>1. ASSUME NEW d \in Conns, Hello(d) PROVE lastAck'[c] = lastAck[c]
      BY <1>1, <1>4, <3>1 DEF Hello, GatewayInv, RegistryInv, ConnTypeOK
    <3> QED BY <1>1, <3>1, ConnStep, Zenon
  <2> QED BY <1>1, <1>4, <2>1, <2>2, <2>3, SMTT(40) DEF Trimmed
<1> QED BY <1>2, <1>3, <1>4, Zenon

(* A queue loses a message only to the device.                             *)
LEMMA QueueKeeps ==
    ASSUME DeliveryInv, [Next]_vars, NEW c \in Conns, pc[c] # "read", NEW m \in got \cup Queued(c)
    PROVE  m \in got' \cup Queued(c)'
<1>1. GatewayInv
  BY Zenon DEF DeliveryInv, PlacesInv
<1>2. got \subseteq got'
  BY <1>1, DeviceStep, Zenon DEF DeviceMoves, Hello
<1>3. QueueMoves(c)
  BY <1>1, QueueStep, Zenon
<1> QED BY <1>2, <1>3, Zenon DEF QueueMoves

(* What the replay read is sent or still queued.                           *)
LEMMA StepReplayed == DeliveryInv /\ [Next]_vars => Replayed'
<1> SUFFICES ASSUME DeliveryInv, [Next]_vars, NEW c \in Conns, lock' = c,
                    pc'[c] \in {"publish", "accept"} \cup Serving,
                    NEW m \in Msgs, Entry(m)' \in stream', mconn'[m] # c
             PROVE  m \in got' \cup Queued(c)'
  BY Zenon DEF Replayed
<1>1. GatewayInv /\ HeldOnce /\ Unnumbered /\ Trimmed /\ Replayed
  BY Zenon DEF DeliveryInv, PlacesInv
<1>2. pc[c] \in {"read", "publish", "accept"} \cup Serving
      /\ (pc[c] = "read" => ReadUnacked(c) /\ pc'[c] = "publish")
  BY <1>1, PcStep, Zenon DEF PcMoves, Serving, Leaving
<1>3. lock = c
  BY <1>1, <1>2, LeaseKept DEF HeldOnce
<1>4. Entry(m)'.id = mseq'[m] /\ Entry(m)'.by = mconn'[m] /\ Entry(m).id = mseq[m]
  BY Zenon DEF Entry
<1>5. Entry(m)' \in stream
  <2> SUFFICES ASSUME Entry(m)' \notin stream PROVE FALSE
    BY Zenon
  <2>1. PICK n \in Msgs : mconn[n] = lock /\ Entry(m)' = Entry(n)
    BY <1>1, StreamGrows, Zenon
  <2>2. Entry(n).by = mconn[n]
    BY Zenon DEF Entry
  <2> QED BY <1>3, <1>4, <2>1, <2>2
<1>6. mconn'[m] = mconn[m] /\ mseq'[m] = mseq[m]
  <2>1. SendMoves(m)
    BY <1>1, SendStepMoves, Zenon
  <2>2. CASE mpc[m] = "new"
    BY <1>1, <1>4, <1>5, <2>1, <2>2, SMTT(40) DEF SendMoves, Unnumbered
  <2>3. mseq'[m] # seq + 1
    BY <1>1, <1>4, <1>5 DEF GatewayInv, StoreInv, StoreTypeOK, StreamBounded, Entries
  <2> QED BY <2>1, <2>2, <2>3 DEF SendMoves
<1>7. Entry(m) \in stream /\ mconn[m] # c
  BY <1>5, <1>6, Zenon DEF Entry
<1>8. CASE pc[c] = "read"
  <2>1. mseq[m] > lastAck[c]
    BY <1>1, <1>3, <1>4, <1>7, <1>8, ZenonT(40) DEF Trimmed
  <2>2. Queued(c)' = {n \in Msgs : Entry(n) \in stream /\ mseq[n] > lastAck[c]}
    <3>1. ReadUnacked(c) /\ pc'[c] = "publish"
      BY <1>2, <1>8, Zenon
    <3> QED BY <1>1, <3>1, ReadFills, Zenon
  <2> QED BY <1>7, <2>1, <2>2, Zenon
<1>9. CASE pc[c] # "read"
  <2>1. m \in got \cup Queued(c)
    BY <1>1, <1>2, <1>3, <1>7, <1>9, ZenonT(40) DEF Replayed
  <2> QED BY <1>9, <2>1, QueueKeeps, SMTT(40)
<1> QED BY <1>8, <1>9, Zenon

(* A frame leaves the queue only for the device.                           *)
LEMMA StepPushed == DeliveryInv /\ [Next]_vars => Pushed'
<1> SUFFICES ASSUME DeliveryInv, [Next]_vars, NEW m \in Msgs, mpc'[m] = "ok"
             PROVE  m \in got' \cup Queued(mconn[m])'
  BY Zenon DEF Pushed
<1>1. GatewayInv /\ Unlisted /\ Pushed
  BY Zenon DEF DeliveryInv, PlacesInv
<1>2. SendMoves(m)
  BY <1>1, SendStepMoves, Zenon
<1>3. PICK c \in Conns : mconn[m] = c /\ mconn'[m] = c
  BY <1>1, <1>2, Zenon DEF SendMoves, GatewayInv, RegistryInv, SendsPicked
<1>4. pc[c] # "read"
  BY <1>1, <1>3, Zenon DEF Unlisted, Before, Registering
<1>5. ASSUME m \in got' \cup Queued(c)' PROVE m \in got' \cup Queued(mconn[m])'
  BY <1>3, <1>5, SMTT(40) DEF Queued
<1>6. CASE mpc[m] = "ok"
  <2>1. m \in got \cup Queued(c)
    BY <1>1, <1>3, <1>6, ZenonT(40) DEF Pushed
  <2> QED BY <1>4, <1>5, <2>1, QueueKeeps, SMTT(40)
<1>7. CASE queue' = [queue EXCEPT ![mconn[m]] = Append(@, m)]
  <2>1. queue[c] \in Seq(Msgs) /\ queue'[c] = Append(queue[c], m)
    BY <1>1, <1>3, <1>7, SMTT(40) DEF GatewayInv, RegistryInv, QueueTypeOK
  <2>2. Queued(c)' = Queued(c) \cup {m}
    <3>1. {Append(queue[c], m)[i] : i \in DOMAIN Append(queue[c], m)}
          = {queue[c][i] : i \in DOMAIN queue[c]} \cup {m}
      BY <2>1, QueueSets, Zenon
    <3> QED BY <2>1, <3>1, Zenon DEF Queued
  <2> QED BY <1>5, <2>2, Zenon
<1> QED BY <1>2, <1>6, <1>7, Zenon DEF SendMoves

(* Every step of the hub, of the device and of the faults keeps the        *)
(* delivery invariant.                                                     *)
LEMMA StepDelivery == DeliveryInv /\ [Next]_vars => DeliveryInv'
<1>1. DeliveryInv => PlacesInv
  BY Zenon DEF DeliveryInv
<1> QED BY <1>1, StepPlaces, StepNumbersIssued, StepHelloFresh, StepNumbersAboveAck, StepTrimmed,
           StepReplayed, StepPushed, Zenon DEF DeliveryInv

(* The delivery invariant holds throughout, whatever faults are admitted.  *)
THEOREM DeliveryInvariant == Spec => []DeliveryInv
  BY InitDelivery, StepDelivery, PTL DEF Spec

(* With any replicas, connections, concurrent send() calls and faults the  *)
(* holder being served has every accepted frame of the stream in its queue *)
(* or with the device: the replay snapshot and the live sends meet.        *)
THEOREM GatewayDelivers == Spec => []HolderWillDeliver
<1>1. DeliveryInv => HolderWillDeliver
  BY DEF DeliveryInv, Replayed, Pushed, HolderWillDeliver
<1> QED BY <1>1, DeliveryInvariant, PTL

(* And it numbers what it sends above everything the device acknowledged,  *)
(* also when the store lost its counter while the device was away.         *)
THEOREM GatewayNumbersAboveAck == Spec => []NumbersAboveAck
<1>1. DeliveryInv => NumbersAboveAck
  BY Zenon DEF DeliveryInv
<1> QED BY <1>1, DeliveryInvariant, PTL

----------------------------------------------------------------------------
(***************************************************************************)
(* NoOrphanLease: fail_connection and a replica shared by two connections  *)
(* both take the entry from under a handler, and a failed Redis call or    *)
(* HelloAccepted write ends one that has started its renewer.  Without     *)
(* these (the run's instance, for any number of connections, crashes,      *)
(* flushes, stalls and admin kicks) the entry stays where unregister looks *)
(* for it.                                                                 *)
(***************************************************************************)
OneConnectionEach == \A c, d \in Conns : host[c] = host[d] => c = d
NoLostReplies == Faults \cap {"redis", "accept"} = {}

(* Handlers that unregister will still be called for.                      *)
Registered == {"accept", "unregister"} \cup Serving

(* The replica of a connection lists it, or nobody.                        *)
EntryOwn == \A c \in Conns : entry[host[c]] \in {c, NoSession}
EntryFound == \A c \in Conns : pc[c] \in Registered => entry[host[c]] = c
RenewersServe == \A c \in renewing : pc[c] \in {"publish"} \cup Registered

LeaseInv == GatewayInv /\ EntryOwn /\ EntryFound /\ RenewersServe

(* No connection has an entry or a renewer.                                *)
LEMMA InitLease == Init => LeaseInv
<1> SUFFICES ASSUME Init PROVE LeaseInv
  BY Zenon
<1>1. GatewayInv
  BY InitGatewayInv, Zenon
<1>2. EntryOwn /\ EntryFound /\ RenewersServe
  BY GatewayAssumption, Zenon DEF Init, EntryOwn, EntryFound, RenewersServe, Registered, Serving, Conns
<1> QED BY <1>1, <1>2, Zenon DEF LeaseInv

(* One handler moves from a to b; its entry and its renewer follow.        *)
LEMMA LeaseHandler ==
    ASSUME LeaseInv, NoLostReplies, OneConnectionEach, NEW c \in Conns, Handler(c)
    PROVE  EntryOwn' /\ EntryFound' /\ RenewersServe'
<1> USE DEF LeaseInv, GatewayInv, RegistryInv, ConnTypeOK, Registered
<1>1. ~Fault("redis") /\ ~Fault("accept")
  BY Zenon DEF Fault, NoLostReplies
<1>2. \A d \in Conns : host[d] \in Replicas
  BY GatewayAssumption, Zenon DEF Conns
<1>3. ASSUME NEW where, Goto(c, where), UNCHANGED entry, renewing' \in SUBSET renewing,
             where \in Registered => pc[c] \in Registered,
             c \in renewing' => where \in {"publish"} \cup Registered
      PROVE  EntryOwn' /\ EntryFound' /\ RenewersServe'
  BY <1>3 DEF Goto, EntryOwn, EntryFound, RenewersServe
<1>4. pc[c] \notin {"publish"} \cup Registered => c \notin renewing
  BY Zenon DEF RenewersServe
<1>5. CASE Acquire(c) \/ Kick(c) \/ RetryAcquire(c) \/ Reconcile(c) \/ AbortRegister(c)
  <2>1. UNCHANGED <<entry, renewing>> /\ pc[c] \in {"acquire", "kick", "retry", "reconcile", "abort"}
    BY <1>5, Zenon DEF Acquire, AcquireFails, RedisFails, OnlyPc, Kick, RetryAcquire, Reconcile, AbortRegister
  <2>2. PICK where \in {"kick", "retry", "reconcile", "read", "abort", "done"} : Goto(c, where)
    BY <1>5, Zenon DEF Acquire, AcquireFails, RedisFails, OnlyPc, Kick, RetryAcquire, Reconcile, AbortRegister
  <2> QED BY <1>3, <1>4, <2>1, <2>2, Zenon DEF Serving
<1>6. CASE ReadUnacked(c)
  <2>1. UNCHANGED entry /\ renewing' = renewing \cup {c} /\ Goto(c, "publish") /\ pc[c] = "read"
    BY <1>1, <1>6, Zenon DEF ReadUnacked, RedisFails
  <2> QED BY <2>1 DEF Goto, EntryOwn, EntryFound, RenewersServe, Serving
<1>7. CASE Publish(c)
  <2>1. entry' = [entry EXCEPT ![host[c]] = c] /\ renewing' = renewing /\ Goto(c, "accept")
    BY <1>1, <1>7, Zenon DEF Publish, RedisFails
  <2>2. \A d \in Conns : entry'[host[d]] = IF d = c THEN c ELSE entry[host[d]]
    BY <1>2, <2>1, Zenon DEF OneConnectionEach
  <2>3. \A d \in Conns : pc'[d] = IF d = c THEN "accept" ELSE pc[d]
    BY <2>1, Zenon DEF Goto
  <2> QED BY <2>1, <2>2, <2>3, ZenonT(40) DEF EntryOwn, EntryFound, RenewersServe
<1>8. CASE Accept(c) \/ MarkOnline(c) \/ StartServing(c) \/ LeaveLoop(c)
  <2>1. UNCHANGED <<entry, renewing>> /\ pc[c] \in Registered
    BY <1>1, <1>8, Zenon DEF Accept, MarkOnline, RedisFails, StartServing, LeaveLoop, OnlyPc, Serving
  <2>2. PICK where \in {"online", "fresh", "up", "unregister"} : Goto(c, where)
    BY <1>1, <1>8, Zenon DEF Accept, MarkOnline, RedisFails, StartServing, LeaveLoop, OnlyPc
  <2> QED BY <1>3, <2>1, <2>2, SMTT(40) DEF Serving
<1>9. CASE PutCatalog(c)
  BY <1>9, Zenon DEF PutCatalog, connVars, EntryOwn, EntryFound, RenewersServe
<1>10. CASE Unregister(c)
  <2>1. entry[host[c]] = c
    BY <1>10, Zenon DEF Unregister, EntryFound
  <2>2. entry' = [entry EXCEPT ![host[c]] = NoSession] /\ renewing' = renewing \ {c} /\ Goto(c, "release")
    BY <1>10, <2>1, Zenon DEF Unregister
  <2>3. \A d \in Conns : entry'[host[d]] = IF d = c THEN NoSession ELSE entry[host[d]]
    BY <1>2, <2>2, Zenon DEF OneConnectionEach
  <2>4. \A d \in Conns : pc'[d] = IF d = c THEN "release" ELSE pc[d]
    BY <2>2, Zenon DEF Goto
  <2> QED BY <2>2, <2>3, <2>4, ZenonT(40) DEF EntryOwn, EntryFound, RenewersServe, Serving
<1>11. CASE Remove(c)
  <2>1. entry' = [entry EXCEPT ![host[c]] = NoSession] /\ renewing' = renewing
        /\ Goto(c, "offline") /\ pc[c] = "remove"
    BY <1>11, Zenon DEF Remove
  <2>2. \A d \in Conns : entry'[host[d]] = IF d = c THEN NoSession ELSE entry[host[d]]
    BY <1>2, <2>1, Zenon DEF OneConnectionEach
  <2>3. \A d \in Conns : pc'[d] = IF d = c THEN "offline" ELSE pc[d]
    BY <2>1, Zenon DEF Goto
  <2>4. c \notin renewing
    BY <1>4, <2>1, Zenon DEF Serving
  <2>5. EntryOwn'
    BY <2>2, Zenon DEF EntryOwn
  <2>6. EntryFound'
    BY <2>2, <2>3, Zenon DEF EntryFound, Serving
  <2>7. RenewersServe'
    BY <2>1, <2>3, <2>4, Zenon DEF RenewersServe
  <2> QED BY <2>5, <2>6, <2>7, Zenon
<1>12. CASE Release(c) \/ MarkOffline(c) \/ MarkStale(c)
  <2>1. UNCHANGED <<entry, renewing>> /\ pc[c] \in {"release", "offline", "unstale"}
    BY <1>12, Zenon DEF Release, MarkOffline, RedisFails, MarkStale, OnlyPc
  <2>2. PICK where \in {"remove", "unstale", "done"} : Goto(c, where)
    BY <1>12, Zenon DEF Release, MarkOffline, RedisFails, MarkStale, OnlyPc
  <2> QED BY <1>3, <1>4, <2>1, <2>2 DEF Serving
<1> QED BY <1>5, <1>6, <1>7, <1>8, <1>9, <1>10, <1>11, <1>12, ZenonT(40) DEF Handler

(* Under the assumptions of RenewersEnd every step keeps an entry where    *)
(* unregister looks for it.                                                *)
LEMMA StepLease ==
    ASSUME Msgs = {}, NoLostReplies, OneConnectionEach
    PROVE  LeaseInv /\ [Next]_vars => LeaseInv'
<1> SUFFICES ASSUME LeaseInv, [Next]_vars PROVE EntryOwn' /\ EntryFound' /\ RenewersServe'
  BY StepGatewayInv, Zenon DEF LeaseInv
<1> USE DEF LeaseInv, GatewayInv, RegistryInv, ConnTypeOK
<1>1. ASSUME UNCHANGED <<pc, entry>>, renewing' \in SUBSET renewing
      PROVE  EntryOwn' /\ EntryFound' /\ RenewersServe'
  BY <1>1, Zenon DEF EntryOwn, EntryFound, RenewersServe
<1>2. ASSUME NEW c \in Conns, Handler(c) PROVE EntryOwn' /\ EntryFound' /\ RenewersServe'
  BY <1>2, LeaseHandler, Zenon
<1>3. ASSUME NEW c \in Conns, Hello(c) PROVE EntryOwn' /\ EntryFound' /\ RenewersServe'
  <2>1. UNCHANGED <<entry, renewing>> /\ pc' = [pc EXCEPT ![c] = "acquire"] /\ pc[c] = "idle"
    BY <1>3, Zenon DEF Hello, Goto
  <2> QED BY <2>1 DEF EntryOwn, EntryFound, RenewersServe, Registered, Serving
<1>4. ASSUME NEW c \in Conns,
             \/ SendTaskDelivers(c) \/ SendTaskStops(c) \/ LeaseLost(c)
             \/ PresenceRefresh(c) \/ InboundAck(c) \/ AppToolsUpdate(c)
      PROVE  EntryOwn' /\ EntryFound' /\ RenewersServe'
  <2>1. UNCHANGED <<pc, entry>> /\ (renewing' = renewing \/ renewing' = renewing \ {c})
    BY <1>4, Zenon DEF SendTaskDelivers, SendTaskStops, LeaseLost, PresenceRefresh, InboundAck,
       AppToolsUpdate, connVars
  <2> QED BY <1>1, <2>1, Zenon
<1>5. ASSUME \/ DeviceDrops \/ LeaseExpires \/ Flush \/ UNCHANGED vars
             \/ \E r \in Replicas : KickDevice(r)
      PROVE  UNCHANGED <<pc, entry, renewing>>
  BY <1>5, Zenon DEF DeviceDrops, LeaseExpires, Flush, KickDevice, vars, connVars
<1>6. ASSUME NEW r \in Replicas, Crash(r) PROVE EntryOwn' /\ EntryFound' /\ RenewersServe'
  <2>1. /\ entry' = [entry EXCEPT ![r] = NoSession]
        /\ renewing' = {c \in renewing : host[c] # r}
        /\ \A c \in Conns : pc'[c] = IF host[c] = r /\ pc[c] # "idle" THEN "done" ELSE pc[c]
    BY <1>6, Zenon DEF Crash
  <2>2. \A c \in Conns : entry'[host[c]] = IF host[c] = r THEN NoSession ELSE entry[host[c]]
    BY <2>1, GatewayAssumption, Zenon DEF Conns
  <2>3. EntryOwn' /\ EntryFound'
    BY <2>1, <2>2 DEF EntryOwn, EntryFound, Registered, Serving
  <2>4. RenewersServe'
    BY <2>1, Zenon DEF RenewersServe
  <2> QED BY <2>3, <2>4, Zenon
<1> QED BY <1>1, <1>2, <1>3, <1>4, <1>5, <1>6, ZenonT(40) DEF Next

(* Without send() calls, with no Redis reply or HelloAccepted write lost   *)
(* and one connection of the device per replica, a handler that has        *)
(* returned has stopped its lease renewer, through crashes, stalls, failed *)
(* flushes and admin kicks (unregister, device_gateway.rs).                *)
THEOREM RenewersEnd ==
    ASSUME Msgs = {}, NoLostReplies, OneConnectionEach
    PROVE  Spec => []NoOrphanLease
<1>1. LeaseInv => NoOrphanLease
  BY Zenon DEF LeaseInv, RenewersServe, NoOrphanLease, Registered, Serving
<1>2. LeaseInv /\ [Next]_vars => LeaseInv'
  BY StepLease, Zenon
<1> QED BY <1>1, <1>2, InitLease, PTL DEF Spec
=============================================================================

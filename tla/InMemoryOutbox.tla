--------------------------- MODULE InMemoryOutbox ---------------------------
(***************************************************************************)
(* The process-local outbox store (StoreConfig::Memory): the DeviceState   *)
(* of one device, its frames in a VecDeque.  Every method runs under one   *)
(* mutex.  A send is two calls, and sends of one session may overlap.      *)
(***************************************************************************)
EXTENDS Naturals, Sequences, FiniteSets

CONSTANTS Sessions, NoSession,
          MaxLen,     \* MAX_BUFFER
          MaxIssued   \* bound: numbers issued

ASSUME MemoryAssumption ==
    /\ NoSession \notin Sessions
    /\ MaxLen \in Nat
    /\ MaxIssued \in Nat

VARIABLES owner,      \* DeviceState.lock
          issued,     \* DeviceState.seq
          buf,        \* DeviceState.buffer, front first
          reserved,   \* per session, numbers between the two calls of a send
          past        \* sessions that have had the lease

memoryVars == <<owner, issued, buf, reserved, past>>

MemoryInit ==
    /\ owner = NoSession /\ issued = 0 /\ buf = <<>> /\ past = {}
    /\ reserved = [s \in Sessions |-> {}]

(* pop_front while the front is at most ack.                               *)
PopAcked(ack) ==
    \E k \in 0..Len(buf) :
        /\ \A i \in 1..k : buf[i].id <= ack
        /\ k < Len(buf) => buf[k + 1].id > ack
        /\ buf' = SubSeq(buf, k + 1, Len(buf))

try_acquire_lock(s) ==
    /\ s \notin past /\ owner = NoSession
    /\ owner' = s /\ past' = past \cup {s}
    /\ UNCHANGED <<issued, buf, reserved>>

release_lock(s) ==
    /\ owner = s /\ owner' = NoSession
    /\ UNCHANGED <<issued, buf, reserved, past>>

reconcile_on_hello(s, ack) ==
    /\ owner = s
    /\ IF ack > issued THEN issued' = ack /\ buf' = <<>>
                       ELSE PopAcked(ack) /\ UNCHANGED issued
    /\ UNCHANGED <<owner, reserved, past>>

fenced_incr_seq(s) ==
    /\ owner = s /\ issued < MaxIssued
    /\ issued' = issued + 1
    /\ reserved' = [reserved EXCEPT ![s] = @ \cup {issued + 1}]
    /\ UNCHANGED <<owner, buf, past>>

PushBack(s, n) ==
    LET longer == Append(buf, [id |-> n, by |-> s])
    IN  IF Len(longer) > MaxLen THEN Tail(longer) ELSE longer

(* Mutant: the second call is not fenced.                                  *)
Mut_xadd_frame(s, n) ==
    /\ n \in reserved[s]
    /\ reserved' = [reserved EXCEPT ![s] = @ \ {n}]
    /\ buf' = PushBack(s, n)
    /\ UNCHANGED <<owner, issued, past>>

(* push_back whatever the number, then pop_front over the cap; refused     *)
(* when the lease went between the two calls.                              *)
xadd_frame(s, n) ==
    /\ n \in reserved[s]
    /\ reserved' = [reserved EXCEPT ![s] = @ \ {n}]
    /\ buf' = IF owner = s THEN PushBack(s, n) ELSE buf
    /\ UNCHANGED <<owner, issued, past>>

observe_ack(ack) ==
    /\ ack <= issued
    /\ PopAcked(ack)
    /\ UNCHANGED <<owner, issued, reserved, past>>

(* The hub process restarts: its sessions and its store are gone.          *)
HubRestarts ==
    /\ owner' = NoSession /\ issued' = 0 /\ buf' = <<>>
    /\ reserved' = [s \in Sessions |-> {}]
    /\ UNCHANGED past

MemoryNext ==
    \/ \E s \in Sessions :
          \/ try_acquire_lock(s) \/ release_lock(s) \/ fenced_incr_seq(s)
          \/ \E ack \in 0..MaxIssued : reconcile_on_hello(s, ack)
          \/ \E n \in 1..MaxIssued : xadd_frame(s, n)
    \/ \E ack \in 1..MaxIssued : observe_ack(ack)
    \/ HubRestarts

MemorySpec == MemoryInit /\ [][MemoryNext]_memoryVars

----------------------------------------------------------------------------
MemoryContract ==
    INSTANCE OutboxContract
        WITH lock <- owner, seq <- issued, kept <- {buf[i] : i \in DOMAIN buf}

(* The in-memory store keeps the contract the Redis store keeps, although  *)
(* it appends what overlapping sends bring in any order and trims only     *)
(* from the front: only the lease's holder is issued numbers and writes,   *)
(* each number is stored once, and a frame leaves only when acknowledged,  *)
(* when the buffer overflows, or when a device is ahead of the store.      *)
MemoryKeepsContract == MemoryContract!Spec
=============================================================================

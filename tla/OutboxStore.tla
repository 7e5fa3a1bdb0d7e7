---------------------------- MODULE OutboxStore ----------------------------
(***************************************************************************)
(* The durable hub-to-device outbox of one device, as the hub's replicas   *)
(* share it through Redis: the lease `lock:device:{id}`, the counter       *)
(* `seq:{id}` and the stream `outbox:{id}`.  Every action is one Lua       *)
(* script (the unit of atomicity), so callers interleave between scripts.  *)
(*                                                                         *)
(* A session is the uuid a replica mints for one device connection; it is  *)
(* the fencing token of every script that writes.  A session acquires the  *)
(* lease at most once (only `register` acquires, with a fresh uuid).  The  *)
(* two-step send keeps the number it reserved in a local variable between  *)
(* two scripts: that is `claims`.  `epoch` is a history variable: the      *)
(* order in which sessions obtained the lease.                             *)
(***************************************************************************)
EXTENDS Naturals, FiniteSets

CONSTANTS Sessions,   \* session uuids
          NoSession,  \* the lease key is absent
          MaxSeq,     \* bound: numbers the counter may reach
          MaxLen      \* STREAM_MAXLEN, the cap given to XADD MAXLEN ~

ASSUME StoreAssumption ==
    /\ NoSession \notin Sessions
    /\ MaxSeq \in Nat
    /\ MaxLen \in Nat

VARIABLES lock,    \* session holding the lease, or NoSession
          seq,     \* the counter: last number reserved
          stream,  \* entries of the stream: number and the session that wrote it
          top,     \* last generated id of the stream; XTRIM keeps it, DEL does not
          claims,  \* per session, numbers reserved and not yet written
          epoch,   \* per session, 0 or its rank among lease holders
          grants   \* how often the lease was granted

storeVars == <<lock, seq, stream, top, claims, epoch, grants>>

Entries == [id : Nat, by : Sessions]

StoreTypeOK ==
    /\ lock \in Sessions \cup {NoSession}
    /\ seq \in 0..MaxSeq
    /\ stream \in SUBSET Entries
    /\ top \in Nat
    /\ claims \in [Sessions -> SUBSET Nat]
    /\ epoch \in [Sessions -> Nat]
    /\ grants \in Nat

StoreInit ==
    /\ lock = NoSession
    /\ seq = 0
    /\ stream = {}
    /\ top = 0
    /\ claims = [s \in Sessions |-> {}]
    /\ epoch = [s \in Sessions |-> 0]
    /\ grants = 0

----------------------------------------------------------------------------
(* XTRIM MINID 0-(ack+1): what is left of the stream.                      *)
Trim(ack) == {e \in stream : e.id > ack}

(* MAXLEN ~ evicts oldest entries first and only beyond the cap; how many  *)
(* beyond it is up to Redis (whole macro nodes).                           *)
Capped(entries) ==
    {kept \in SUBSET entries :
        /\ \A e \in entries \ kept, k \in kept : e.id < k.id
        /\ kept = entries \/ Cardinality(kept) >= MaxLen}

(* SET NX EX: succeeds only when nobody holds the lease.                   *)
TryAcquireLock(s) ==
    /\ epoch[s] = 0
    /\ lock = NoSession
    /\ lock' = s
    /\ grants' = grants + 1
    /\ epoch' = [epoch EXCEPT ![s] = grants + 1]
    /\ UNCHANGED <<seq, stream, top, claims>>

(* Deletes the lease only when the caller still owns it.                   *)
ReleaseLock(s) ==
    /\ lock' = IF lock = s THEN NoSession ELSE lock
    /\ UNCHANGED <<seq, stream, top, claims, epoch, grants>>

(* The TTL ran out before a renewal.                                       *)
LockExpires ==
    /\ lock # NoSession
    /\ lock' = NoSession
    /\ UNCHANGED <<seq, stream, top, claims, epoch, grants>>

(* Mutant: the counter is never raised to the device's number.             *)
MutReconcileNoFloor(s, lastAck) ==
    /\ lock = s
    /\ stream' = Trim(lastAck)
    /\ UNCHANGED <<lock, seq, top, claims, epoch, grants>>

(* Fenced.  A device that acknowledged more than was ever issued met a     *)
(* store that lost its state: its number becomes the floor and the stream  *)
(* is deleted.  Otherwise acknowledged entries are trimmed.                *)
ReconcileOnHello(s, lastAck) ==
    /\ lock = s
    /\ IF lastAck > seq
       THEN seq' = lastAck /\ stream' = {} /\ top' = 0
       ELSE stream' = Trim(lastAck) /\ UNCHANGED <<seq, top>>
    /\ UNCHANGED <<lock, claims, epoch, grants>>

(* Fenced.  First half of a send: reserve the next number.                 *)
FencedIncrSeq(s) ==
    /\ lock = s
    /\ seq < MaxSeq
    /\ seq' = seq + 1
    /\ claims' = [claims EXCEPT ![s] = @ \cup {seq + 1}]
    /\ UNCHANGED <<lock, stream, top, epoch, grants>>

(* Mutant: a plain push, neither fenced nor ordered by id.                 *)
MutPush(s, n) ==
    /\ n \in claims[s]
    /\ stream' \in Capped(stream \cup {[id |-> n, by |-> s]})
    /\ top' = n
    /\ claims' = [claims EXCEPT ![s] = @ \ {n}]
    /\ UNCHANGED <<lock, seq, epoch, grants>>

(* Fenced.  Second half: append under the explicit id 0-n, which Redis     *)
(* accepts only above the last generated id.                               *)
FencedXadd(s, n) ==
    /\ lock = s
    /\ n \in claims[s]
    /\ n > top
    /\ stream' \in Capped(stream \cup {[id |-> n, by |-> s]})
    /\ top' = n
    /\ claims' = [claims EXCEPT ![s] = @ \ {n}]
    /\ UNCHANGED <<lock, seq, epoch, grants>>

(* The second half refused: lease lost (NOT_OWNER) or id not above the     *)
(* last one (a send that reserved later wrote earlier).  The number is     *)
(* burned.                                                                 *)
XaddRefused(s, n) ==
    /\ n \in claims[s]
    /\ lock # s \/ n <= top
    /\ claims' = [claims EXCEPT ![s] = @ \ {n}]
    /\ UNCHANGED <<lock, seq, stream, top, epoch, grants>>

(* Not fenced; an acknowledgement above the counter is ignored.            *)
ObserveAck(ack) ==
    /\ stream' = IF ack > seq THEN stream ELSE Trim(ack)
    /\ UNCHANGED <<lock, seq, top, claims, epoch, grants>>

(* FLUSHALL, a Redis without persistence restarting, or the keys' 30-day   *)
(* expiry: everything the store knew is gone.                              *)
StoreLosesState ==
    /\ lock' = NoSession
    /\ seq' = 0
    /\ stream' = {}
    /\ top' = 0
    /\ UNCHANGED <<claims, epoch, grants>>

----------------------------------------------------------------------------
StoreNext ==
    \/ \E s \in Sessions :
          \/ TryAcquireLock(s)
          \/ ReleaseLock(s)
          \/ FencedIncrSeq(s)
          \/ \E ack \in 0..MaxSeq : ReconcileOnHello(s, ack)
          \/ \E n \in 1..MaxSeq : FencedXadd(s, n) \/ XaddRefused(s, n)
    \/ \E ack \in 1..MaxSeq : ObserveAck(ack)
    \/ LockExpires
    \/ StoreLosesState

StoreSpec == StoreInit /\ [][StoreNext]_storeVars

----------------------------------------------------------------------------
(* No two entries of the stream carry the same number, whatever sessions   *)
(* come and go between the two scripts of a send (ConnectionRegistry::send *)
(* reserves and writes in two round trips).                                *)
UniqueNumbers ==
    \A e, f \in stream : e.id = f.id => e = f

(* Replay order is lease order: reading the stream by number never shows   *)
(* an entry of an older lease holder after one of a newer holder, or two   *)
(* holders' entries under one number.  This is what the fencing token is   *)
(* for; it needs both scripts of a send fenced.                            *)
ReplayInLeaseOrder ==
    \A e, f \in stream : e.id <= f.id => epoch[e.by] <= epoch[f.by]

(* The Redis store keeps the contract of the OutboxStore trait: only the   *)
(* lease's holder is issued numbers and writes, each number once, and only *)
(* acknowledged frames leave, but for overflow and lost state.             *)
Contract == INSTANCE OutboxContract WITH kept <- stream

KeepsContract == Contract!Spec

(* Entries are appended only by the session that held the lease before     *)
(* the step, above everything ever appended; entries leave the stream      *)
(* lowest number first, so a replay is always a suffix of what was sent    *)
(* (XTRIM and MAXLEN cut prefixes, never holes).                           *)
StreamStep ==
    /\ \A e \in stream' \ stream : e.by = lock /\ e.id > top
    /\ \A e \in stream \ stream', k \in stream \cap stream' : e.id < k.id

OnlyHolderAppends == [][StreamStep]_storeVars
=============================================================================

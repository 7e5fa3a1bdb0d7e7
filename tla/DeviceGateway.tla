--------------------------- MODULE DeviceGateway ---------------------------
(***************************************************************************)
(* One device and the hub replicas it may dial: ConnectionRegistry         *)
(* (register, send, fail_connection, unregister), the per-connection       *)
(* handler run_device_socket with the tasks it spawns (lease renewer, kick *)
(* subscriber, send task, presence refresh), concurrent send() calls from  *)
(* HTTP handlers, and the device end of the socket.  Every await of the    *)
(* code is a point where other actions interleave; the code between two    *)
(* awaits is one action.                                                   *)
(*                                                                         *)
(* A connection stands for its connection_id and its session_id (both      *)
(* fresh uuids minted by register).  A connection is used once.  The       *)
(* unbounded mpsc channel, the WebSocket and the device's read are one     *)
(* queue: a frame the device never read is a frame left in it.             *)
(***************************************************************************)
EXTENDS OutboxStore, Sequences

CONSTANTS Replicas,     \* hub processes
          host,         \* per connection: the replica it dials
          Msgs,         \* envelopes handed to send()
          MaxInFlight,  \* bound: send() calls running at once
          Retries,      \* LOCK_ACQUIRE_RETRIES
          Advertisers,  \* connections on which the device sends AppToolsUpdate
          Faults,       \* the kinds of failure a run admits
          MaxFaults     \* bound: how many of them happen

FaultKinds == {"accept", "admin", "crash", "flush", "redis", "stall"}

ASSUME GatewayAssumption ==
    /\ host \in [Sessions -> Replicas]
    /\ Retries \in Nat \ {0}
    /\ MaxInFlight \in Nat
    /\ MaxFaults \in Nat
    /\ IsFiniteSet(Msgs)
    /\ Advertisers \subseteq Sessions
    /\ Faults \subseteq FaultKinds

VARIABLES
    pc,        \* per connection: where run_device_socket / register stands
    tries,     \* per connection: acquire attempts left
    entry,     \* per replica: senders[device].active, or NoSession
    closing,   \* connections whose close_tx was signalled
    renewing,  \* connections whose lease task runs
    kickable,  \* connections whose kick task runs
    sending,   \* connections whose send task runs (owns the mpsc receiver)
    queue,     \* per connection: frames pushed and not yet read by the device
    lastAck,   \* per connection: Hello.last_ack
    mpc,       \* per message: where its send() call stands
    mconn,     \* per message: the connection send() picked
    mseq,      \* per message: the number it reserved
    devConn,   \* the connection the device considers its own, or NoSession
    localAck,  \* the device's Outbox.local_ack
    got,       \* messages the device has read
    online,    \* the device row's presence
    catalog,   \* "stale", or the connection whose snapshot is stored fresh
    catPc,     \* per connection: its AppToolsUpdate: "no", "put", "sent"
    faults     \* faults used up

connVars == <<pc, tries, entry, closing, renewing, kickable, sending, lastAck>>
sendVars == <<mpc, mconn, mseq>>
devVars  == <<devConn, localAck, got>>
rowVars  == <<online, catalog, catPc>>
vars == <<storeVars, connVars, queue, sendVars, devVars, rowVars, faults>>

Conns == Sessions
Registering == {"acquire", "kick", "retry", "reconcile", "read", "publish"}
Serving == {"online", "fresh", "up"}
Leaving == {"unregister", "release", "remove", "offline", "unstale"}
PCs == {"idle", "abort", "accept", "done"} \cup Registering \cup Serving \cup Leaving

Entry(m) == [id |-> mseq[m], by |-> mconn[m]]
InFlight == {m \in Msgs : mpc[m] \in {"reserve", "write", "push"}}

ConnTypeOK ==
    /\ pc \in [Conns -> PCs]
    /\ tries \in [Conns -> 0..Retries]
    /\ entry \in [Replicas -> Conns \cup {NoSession}]
    /\ closing \subseteq Conns
    /\ renewing \subseteq Conns
    /\ kickable \subseteq Conns
    /\ sending \subseteq Conns
    /\ lastAck \in [Conns -> 0..MaxSeq]

QueueTypeOK == queue \in [Conns -> Seq(Msgs)]

SendTypeOK ==
    /\ mpc \in [Msgs -> {"new", "reserve", "write", "push", "ok", "err"}]
    /\ mconn \in [Msgs -> Conns \cup {NoSession}]
    /\ mseq \in [Msgs -> 0..MaxSeq]

DeviceTypeOK ==
    /\ devConn \in Conns \cup {NoSession}
    /\ localAck \in 0..MaxSeq
    /\ got \subseteq Msgs

RowTypeOK ==
    /\ online \in BOOLEAN
    /\ catalog \in Conns \cup {"stale"}
    /\ catPc \in [Conns -> {"no", "put", "sent"}]

(* Every variable stays in its type; in particular a registering handler   *)
(* never uses more than LOCK_ACQUIRE_RETRIES attempts.                     *)
TypeOK ==
    /\ StoreTypeOK
    /\ ConnTypeOK
    /\ QueueTypeOK
    /\ SendTypeOK
    /\ DeviceTypeOK
    /\ RowTypeOK
    /\ faults \in 0..MaxFaults

Init ==
    /\ StoreInit
    /\ pc = [c \in Conns |-> "idle"]
    /\ tries = [c \in Conns |-> 0]
    /\ entry = [r \in Replicas |-> NoSession]
    /\ closing = {} /\ renewing = {} /\ kickable = {} /\ sending = {}
    /\ queue = [c \in Conns |-> <<>>]
    /\ lastAck = [c \in Conns |-> 0]
    /\ mpc = [m \in Msgs |-> "new"]
    /\ mconn = [m \in Msgs |-> NoSession]
    /\ mseq = [m \in Msgs |-> 0]
    /\ devConn = NoSession
    /\ localAck = 0
    /\ got = {}
    /\ online = FALSE
    /\ catalog = "stale"
    /\ catPc = [c \in Conns |-> "no"]
    /\ faults = 0

Fault(kind) == kind \in Faults /\ faults < MaxFaults /\ faults' = faults + 1

Goto(c, where) == pc' = [pc EXCEPT ![c] = where]

----------------------------------------------------------------------------
(* The device dials a replica and sends Hello with its local_ack.  The     *)
(* reconnect loop holds one connection at a time.                          *)
Hello(c) ==
    /\ devConn = NoSession
    /\ pc[c] = "idle"
    /\ devConn' = c
    /\ Goto(c, "acquire")
    /\ lastAck' = [lastAck EXCEPT ![c] = localAck]
    /\ tries' = [tries EXCEPT ![c] = Retries]
    /\ UNCHANGED <<storeVars, entry, closing, renewing, kickable, sending, queue,
                   sendVars, localAck, got, rowVars, faults>>

(* The socket is gone on the device's side: network, daemon restart with   *)
(* its memory kept, or the hub closed it.                                  *)
DeviceDrops ==
    /\ devConn # NoSession
    /\ devConn' = NoSession
    /\ UNCHANGED <<storeVars, connVars, queue, sendVars, localAck, got, rowVars, faults>>

(* Nothing of the connection's own state but its place.                    *)
OnlyPc(c, where) ==
    /\ Goto(c, where)
    /\ UNCHANGED <<tries, entry, closing, renewing, kickable, sending, lastAck>>

(* A Redis call fails, the script not run, and the handler goes there.     *)
RedisFails(c, where) == Fault("redis") /\ OnlyPc(c, where) /\ UNCHANGED storeVars

(* An error may also come back after the script has run: the lease is then *)
(* held for a handler that has returned.                                   *)
AcquireFails(c) ==
    \/ RedisFails(c, "done")
    \/ Fault("redis") /\ OnlyPc(c, "done") /\ TryAcquireLock(c)

Acquire(c) ==
    /\ pc[c] = "acquire"
    /\ \/ TryAcquireLock(c) /\ OnlyPc(c, "reconcile") /\ UNCHANGED faults
       \/ lock # NoSession /\ OnlyPc(c, "kick") /\ UNCHANGED <<storeVars, faults>>
       \/ AcquireFails(c)
    /\ UNCHANGED <<queue, sendVars, devVars, rowVars>>

(* PUBLISH reaches every subscribed kick task, on any replica; each one    *)
(* signals its close_tx and ends.                                          *)
Kick(c) ==
    /\ pc[c] = "kick"
    /\ \/ /\ Goto(c, "retry")
          /\ closing' = closing \cup kickable
          /\ kickable' = {}
          /\ UNCHANGED <<storeVars, tries, entry, renewing, sending, lastAck, faults>>
       \/ RedisFails(c, "done")
    /\ UNCHANGED <<queue, sendVars, devVars, rowVars>>

(* After each back-off; the last failure closes the handshake with         *)
(* outbox-lock-contention.                                                 *)
RetryAcquire(c) ==
    /\ pc[c] = "retry"
    /\ \/ TryAcquireLock(c) /\ OnlyPc(c, "reconcile") /\ UNCHANGED faults
       \/ /\ lock # NoSession
          /\ tries' = [tries EXCEPT ![c] = @ - 1]
          /\ Goto(c, IF tries[c] = 1 THEN "done" ELSE "retry")
          /\ UNCHANGED <<storeVars, entry, closing, renewing, kickable, sending, lastAck,
                         faults>>
       \/ AcquireFails(c)
    /\ UNCHANGED <<queue, sendVars, devVars, rowVars>>

(* Fenced: a session that lost the lease meanwhile gives up.               *)
Reconcile(c) ==
    /\ pc[c] = "reconcile"
    /\ \/ ReconcileOnHello(c, lastAck[c]) /\ OnlyPc(c, "read") /\ UNCHANGED faults
       \/ lock # c /\ OnlyPc(c, "abort") /\ UNCHANGED <<storeVars, faults>>
       \/ RedisFails(c, "abort")
    /\ UNCHANGED <<queue, sendVars, devVars, rowVars>>

(* The error arms of register release the lease, or fail to, and return.   *)
AbortRegister(c) ==
    /\ pc[c] = "abort"
    /\ \/ ReleaseLock(c) /\ OnlyPc(c, "done") /\ UNCHANGED faults
       \/ RedisFails(c, "done")
    /\ UNCHANGED <<queue, sendVars, devVars, rowVars>>

(* The unacknowledged messages of the stream, in stream order.             *)
InOrder(ms) ==
    {q \in [1..Cardinality(ms) -> ms] :
        \A i, j \in 1..Cardinality(ms) : i < j => mseq[q[i]] < mseq[q[j]]}

(* Mutant: the range starts one past the first unacknowledged frame.       *)
MutReadSkips(c) ==
    /\ pc[c] = "read"
    /\ \E q \in InOrder({m \in Msgs : Entry(m) \in stream /\ mseq[m] > lastAck[c] + 1}) :
          queue' = [queue EXCEPT ![c] = q]
    /\ renewing' = renewing \cup {c}
    /\ Goto(c, "publish")
    /\ UNCHANGED <<storeVars, tries, entry, closing, kickable, sending, lastAck,
                   sendVars, devVars, rowVars, faults>>

(* XRANGE above last_ack; the frames head the new connection's queue, and  *)
(* the lease renewer starts.                                               *)
ReadUnacked(c) ==
    /\ pc[c] = "read"
    /\ \/ /\ \E q \in InOrder({m \in Msgs : Entry(m) \in stream /\ mseq[m] > lastAck[c]}) :
                queue' = [queue EXCEPT ![c] = q]
          /\ renewing' = renewing \cup {c}
          /\ Goto(c, "publish")
          /\ UNCHANGED <<storeVars, tries, entry, closing, kickable, sending, lastAck, faults>>
       \/ RedisFails(c, "abort") /\ UNCHANGED queue
    /\ UNCHANGED <<sendVars, devVars, rowVars>>

(* SUBSCRIBE, then the active connection is swapped in; a previous one is  *)
(* told to close.  When SUBSCRIBE fails the lease is released; the renewer *)
(* is left to find out.                                                    *)
Publish(c) ==
    /\ pc[c] = "publish"
    /\ \/ /\ kickable' = kickable \cup {c}
          /\ closing' = closing \cup ({entry[host[c]]} \ {NoSession})
          /\ entry' = [entry EXCEPT ![host[c]] = c]
          /\ Goto(c, "accept")
          /\ UNCHANGED <<storeVars, tries, renewing, sending, lastAck, faults>>
       \/ RedisFails(c, "abort")
    /\ UNCHANGED <<queue, sendVars, devVars, rowVars>>

(* HelloAccepted is written to the socket; a failed write returns from the *)
(* handler before active_connection is set.                                *)
Accept(c) ==
    /\ pc[c] = "accept"
    /\ \/ OnlyPc(c, "online") /\ UNCHANGED faults
       \/ devConn # c /\ Fault("accept") /\ OnlyPc(c, "done")
    /\ UNCHANGED <<storeVars, queue, sendVars, devVars, rowVars>>

(* From here on an error leads to the clean-up.                            *)
MarkOnline(c) ==
    /\ pc[c] = "online"
    /\ \/ online' = TRUE /\ OnlyPc(c, "fresh") /\ UNCHANGED <<storeVars, faults>>
       \/ RedisFails(c, "unregister") /\ UNCHANGED online
    /\ UNCHANGED <<queue, sendVars, devVars, catalog, catPc>>

(* Hello-time mark_stale, then the tasks start and the receive loop runs.  *)
StartServing(c) ==
    /\ pc[c] = "fresh"
    /\ catalog' = "stale"
    /\ Goto(c, "up")
    /\ sending' = sending \cup {c}
    /\ UNCHANGED <<storeVars, tries, entry, closing, renewing, kickable, lastAck, queue,
                   sendVars, devVars, online, catPc, faults>>

----------------------------------------------------------------------------
(* The tasks of a served connection.                                       *)

(* The send task writes the head of the queue while its connection is      *)
(* current; the device reads it and raises local_ack (Outbox::on_recv).    *)
SendTaskDelivers(c) ==
    /\ c \in sending \ closing
    /\ entry[host[c]] = c
    /\ devConn = c
    /\ queue[c] # <<>>
    /\ LET m == Head(queue[c]) IN
          /\ got' = got \cup {m}
          /\ localAck' = IF mseq[m] > localAck THEN mseq[m] ELSE localAck
    /\ queue' = [queue EXCEPT ![c] = Tail(@)]
    /\ UNCHANGED <<storeVars, connVars, sendVars, devConn, rowVars, faults>>

(* It ends on the close signal, on a failed write, or when the frame it    *)
(* took finds the connection superseded; the receiver is dropped with it.  *)
SendTaskStops(c) ==
    /\ c \in sending
    /\ c \in closing \/ devConn # c \/ (queue[c] # <<>> /\ entry[host[c]] # c)
    /\ sending' = sending \ {c}
    /\ UNCHANGED <<storeVars, pc, tries, entry, closing, renewing, kickable, lastAck, queue,
                   sendVars, devVars, rowVars, faults>>

(* renew_lock answered false, or failed.  (Answered true, nothing changes.)*)
LeaseLost(c) ==
    /\ c \in renewing
    /\ \/ lock # c /\ UNCHANGED faults
       \/ Fault("redis")
    /\ closing' = closing \cup {c}
    /\ renewing' = renewing \ {c}
    /\ UNCHANGED <<storeVars, pc, tries, entry, kickable, sending, lastAck, queue,
                   sendVars, devVars, rowVars>>

(* A lease nobody renews runs out; one that is renewed runs out only when  *)
(* its renewer is stalled past the TTL.                                    *)
LeaseExpires ==
    /\ LockExpires
    /\ \/ pc[lock] = "done" /\ lock \notin renewing /\ UNCHANGED faults
       \/ Fault("stall")
    /\ UNCHANGED <<connVars, queue, sendVars, devVars, rowVars>>

(* Mutant: presence is written once, at hello, and never refreshed.        *)
MutNoRefresh(c) ==
    /\ pc[c] = "fresh"
    /\ online' = TRUE
    /\ UNCHANGED <<storeVars, connVars, queue, sendVars, devVars, catalog, catPc, faults>>

PresenceRefresh(c) ==
    /\ pc[c] = "up"
    /\ c \notin closing
    /\ online' = TRUE
    /\ UNCHANGED <<storeVars, connVars, queue, sendVars, devVars, catalog, catPc, faults>>

(* A frame of the device carries an ack; a current connection applies it.  *)
InboundAck(c) ==
    /\ pc[c] = "up"
    /\ catPc[c] # "put"
    /\ entry[host[c]] = c
    /\ \E ack \in 1..localAck : ObserveAck(ack)
    /\ UNCHANGED <<connVars, queue, sendVars, devVars, rowVars, faults>>

(* AppToolsUpdate: the second is_current check passed, and the catalog is  *)
(* read.  A stale one is replaced, a fresh one only by a higher revision;  *)
(* the write happens an await later.                                       *)
AppToolsUpdate(c) ==
    /\ c \in Advertisers
    /\ pc[c] = "up"
    /\ entry[host[c]] = c
    /\ catPc[c] = "no"
    /\ \/ catPc' = [catPc EXCEPT ![c] = "put"]
       \/ catalog # "stale" /\ catPc' = [catPc EXCEPT ![c] = "sent"]
    /\ UNCHANGED <<storeVars, connVars, queue, sendVars, devVars, online, catalog, faults>>

PutCatalog(c) ==
    /\ catPc[c] = "put"
    /\ catPc' = [catPc EXCEPT ![c] = "sent"]
    /\ catalog' = c
    /\ UNCHANGED <<storeVars, connVars, queue, sendVars, devVars, online, faults>>

(* DELETE /api/admin/devices/{id} closes the active connection.            *)
KickDevice(r) ==
    /\ entry[r] # NoSession
    /\ Fault("admin")
    /\ closing' = closing \cup {entry[r]}
    /\ UNCHANGED <<storeVars, pc, tries, entry, renewing, kickable, sending, lastAck, queue,
                   sendVars, devVars, rowVars>>

(* Mutant: no staleness monitor, so a silent peer is never noticed.        *)
MutLeaveNoStaleness(c) ==
    /\ pc[c] = "up"
    /\ catPc[c] # "put"
    /\ c \in closing \/ entry[host[c]] # c
    /\ Goto(c, "unregister")
    /\ sending' = sending \ {c}
    /\ UNCHANGED <<storeVars, tries, entry, closing, renewing, kickable, lastAck, queue,
                   sendVars, devVars, rowVars, faults>>

----------------------------------------------------------------------------
(* Leaving: the receive loop ends, tasks are aborted, unregister runs.     *)
LeaveLoop(c) ==
    /\ pc[c] = "up"
    /\ catPc[c] # "put"
    /\ \/ /\ c \in closing \/ devConn # c \/ entry[host[c]] # c
          /\ UNCHANGED faults
       \/ Fault("redis")
    /\ Goto(c, "unregister")
    /\ sending' = sending \ {c}
    /\ UNCHANGED <<storeVars, tries, entry, closing, renewing, kickable, lastAck, queue,
                   sendVars, devVars, rowVars>>

(* Mutant: returns as soon as the entry is taken.                          *)
MutUnregisterEarly(c) ==
    /\ pc[c] = "unregister"
    /\ entry' = [entry EXCEPT ![host[c]] = IF @ = c THEN NoSession ELSE @]
    /\ Goto(c, "done")
    /\ UNCHANGED <<storeVars, tries, closing, renewing, kickable, sending, lastAck, queue,
                   sendVars, devVars, rowVars, faults>>

(* Takes the active connection if it is still this one, signals close and  *)
(* aborts its tasks; otherwise returns false and nothing more happens.     *)
Unregister(c) ==
    /\ pc[c] = "unregister"
    /\ IF entry[host[c]] = c
       THEN /\ entry' = [entry EXCEPT ![host[c]] = NoSession]
            /\ closing' = closing \cup {c}
            /\ renewing' = renewing \ {c}
            /\ kickable' = kickable \ {c}
            /\ Goto(c, "release")
       ELSE /\ Goto(c, "done")
            /\ UNCHANGED <<entry, closing, renewing, kickable>>
    /\ UNCHANGED <<storeVars, tries, sending, lastAck, queue, sendVars, devVars, rowVars, faults>>

(* A failed release is logged and left to the TTL.                         *)
Release(c) ==
    /\ pc[c] = "release"
    /\ OnlyPc(c, "remove")
    /\ \/ ReleaseLock(c) /\ UNCHANGED faults
       \/ Fault("redis") /\ UNCHANGED storeVars
    /\ UNCHANGED <<queue, sendVars, devVars, rowVars>>

(* senders.remove(device_id), whatever the entry holds by now.             *)
Remove(c) ==
    /\ pc[c] = "remove"
    /\ entry' = [entry EXCEPT ![host[c]] = NoSession]
    /\ Goto(c, "offline")
    /\ UNCHANGED <<storeVars, tries, closing, renewing, kickable, sending, lastAck, queue,
                   sendVars, devVars, rowVars, faults>>

(* A failure here ends the clean-up.                                       *)
MarkOffline(c) ==
    /\ pc[c] = "offline"
    /\ \/ online' = FALSE /\ OnlyPc(c, "unstale") /\ UNCHANGED <<storeVars, faults>>
       \/ RedisFails(c, "done") /\ UNCHANGED online
    /\ UNCHANGED <<queue, sendVars, devVars, catalog, catPc>>

MarkStale(c) ==
    /\ pc[c] = "unstale"
    /\ catalog' = "stale"
    /\ OnlyPc(c, "done")
    /\ UNCHANGED <<storeVars, queue, sendVars, devVars, online, catPc, faults>>

----------------------------------------------------------------------------
(* ConnectionRegistry::send, one call per message.                         *)
SendAt(m, where) == mpc' = [mpc EXCEPT ![m] = where]

(* fail_connection: drop the active connection if it is still this one.    *)
FailConnection(c) ==
    /\ entry' = [entry EXCEPT ![host[c]] = IF @ = c THEN NoSession ELSE @]
    /\ closing' = IF entry[host[c]] = c THEN closing \cup {c} ELSE closing
    /\ UNCHANGED <<pc, tries, renewing, kickable, sending, lastAck>>

(* Snapshot of the active connection; without one the caller is told the   *)
(* device is offline and nothing happens.                                  *)
PickConnection(m) ==
    /\ mpc[m] = "new"
    /\ Cardinality(InFlight) < MaxInFlight
    /\ \E r \in Replicas :
          entry[r] # NoSession /\ mconn' = [mconn EXCEPT ![m] = entry[r]]
    /\ SendAt(m, "reserve")
    /\ UNCHANGED <<storeVars, connVars, queue, mseq, devVars, rowVars, faults>>

Reserve(m) ==
    /\ mpc[m] = "reserve"
    /\ \/ /\ FencedIncrSeq(mconn[m])
          /\ mseq' = [mseq EXCEPT ![m] = seq + 1]
          /\ SendAt(m, "write")
          /\ UNCHANGED <<connVars, faults>>
       \/ /\ lock # mconn[m]
          /\ FailConnection(mconn[m])
          /\ SendAt(m, "err")
          /\ UNCHANGED <<storeVars, mseq, faults>>
       \/ /\ Fault("redis")
          /\ SendAt(m, "err")
          /\ UNCHANGED <<storeVars, connVars, mseq>>
    /\ UNCHANGED <<mconn, queue, devVars, rowVars>>

(* A transport error may come back after the script has run.               *)
Write(m) ==
    /\ mpc[m] = "write"
    /\ \/ FencedXadd(mconn[m], mseq[m]) /\ SendAt(m, "push") /\ UNCHANGED <<connVars, faults>>
       \/ /\ XaddRefused(mconn[m], mseq[m])
          /\ SendAt(m, "err")
          /\ IF lock # mconn[m] THEN FailConnection(mconn[m]) ELSE UNCHANGED connVars
          /\ UNCHANGED faults
       \/ /\ Fault("redis")
          /\ FencedXadd(mconn[m], mseq[m]) \/ UNCHANGED storeVars
          /\ SendAt(m, "err")
          /\ UNCHANGED connVars
    /\ UNCHANGED <<mconn, mseq, queue, devVars, rowVars>>

(* The receiver lives in the handler, then in its send task.               *)
ReceiverAlive(c) == pc[c] \in {"accept", "online", "fresh"} \/ c \in sending

Push(m) ==
    /\ mpc[m] = "push"
    /\ IF ReceiverAlive(mconn[m])
       THEN /\ queue' = [queue EXCEPT ![mconn[m]] = Append(@, m)]
            /\ SendAt(m, "ok")
            /\ UNCHANGED connVars
       ELSE /\ FailConnection(mconn[m])
            /\ SendAt(m, "err")
            /\ UNCHANGED queue
    /\ UNCHANGED <<storeVars, mconn, mseq, devVars, rowVars, faults>>

----------------------------------------------------------------------------
(* A replica dies: its handlers, tasks, map and send() calls with it.      *)
Crash(r) ==
    LET dead == {c \in Conns : host[c] = r} IN
    /\ Fault("crash")
    /\ pc' = [c \in Conns |-> IF c \in dead /\ pc[c] # "idle" THEN "done" ELSE pc[c]]
    /\ entry' = [entry EXCEPT ![r] = NoSession]
    /\ renewing' = renewing \ dead
    /\ kickable' = kickable \ dead
    /\ sending' = sending \ dead
    /\ mpc' = [m \in Msgs |-> IF m \in InFlight /\ mconn[m] \in dead THEN "err" ELSE mpc[m]]
    /\ catPc' = [c \in Conns |-> IF c \in dead /\ catPc[c] = "put" THEN "sent" ELSE catPc[c]]
    /\ UNCHANGED <<storeVars, tries, closing, lastAck, queue, mconn, mseq, devVars,
                   online, catalog>>

Flush ==
    /\ Fault("flush")
    /\ StoreLosesState
    /\ UNCHANGED <<connVars, queue, sendVars, devVars, rowVars>>

Handler(c) ==
    \/ Acquire(c) \/ Kick(c) \/ RetryAcquire(c) \/ Reconcile(c) \/ AbortRegister(c)
    \/ ReadUnacked(c) \/ Publish(c) \/ Accept(c) \/ MarkOnline(c) \/ StartServing(c)
    \/ PutCatalog(c) \/ LeaveLoop(c)
    \/ Unregister(c) \/ Release(c) \/ Remove(c) \/ MarkOffline(c) \/ MarkStale(c)

Send(m) == PickConnection(m) \/ Reserve(m) \/ Write(m) \/ Push(m)

Next ==
    \/ DeviceDrops \/ LeaseExpires \/ Flush
    \/ \E c \in Conns :
          \/ Hello(c) \/ Handler(c) \/ SendTaskDelivers(c) \/ SendTaskStops(c)
          \/ LeaseLost(c) \/ PresenceRefresh(c) \/ InboundAck(c) \/ AppToolsUpdate(c)
    \/ \E m \in Msgs : Send(m)
    \/ \E r \in Replicas : KickDevice(r) \/ Crash(r)

Spec == Init /\ [][Next]_vars

(* What the runtime guarantees: spawned tasks and handlers make progress,  *)
(* an unrenewed lease expires, the device dials again.  A PresenceRefresh  *)
(* recurs by timer.  Sends, drops and faults are never forced.             *)
FairSpec ==
    /\ Spec
    /\ WF_vars(LeaseExpires)
    /\ \A c \in Conns :
          /\ WF_vars(Hello(c)) /\ WF_vars(Handler(c)) /\ WF_vars(SendTaskStops(c))
          /\ WF_vars(SendTaskDelivers(c)) /\ WF_vars(LeaseLost(c)) /\ WF_vars(PresenceRefresh(c))
    /\ \A m \in Msgs : WF_vars(Send(m))

----------------------------------------------------------------------------
Queued(c) == {queue[c][i] : i \in DOMAIN queue[c]}

(* Nothing falls between the replay snapshot and live sends: every frame   *)
(* accepted by send() that is still in the durable stream has been read by *)
(* the device or sits in the queue of the lease holder being served        *)
(* (register reads unacked_frames before it publishes the connection).     *)
HolderWillDeliver ==
    \A c \in Conns :
        lock = c /\ pc[c] \in {"accept"} \cup Serving =>
            \A m \in Msgs : mpc[m] = "ok" /\ Entry(m) \in stream => m \in got \cup Queued(c)

(* On the device's own connection the holder numbers new frames above      *)
(* everything the device ever received, also after the store lost its      *)
(* counter: reconcile_on_hello runs before anything is sent.  (A lower     *)
(* number would be trimmed as acknowledged before it was delivered.)       *)
NumbersAboveAck ==
    \A c \in Conns :
        /\ lock = c
        /\ devConn = c
        /\ pc[c] \in {"read", "publish", "accept"} \cup Serving
        => localAck <= seq

(* At-least-once: a message send() accepted reached the device, is still   *)
(* in the durable stream for the next replay, or is queued on a connection *)
(* whose send task has not ended.                                          *)
AcceptedNotLost ==
    \A m \in Msgs : mpc[m] = "ok" =>
        \/ m \in got
        \/ Entry(m) \in stream
        \/ \E c \in Conns : ReceiverAlive(c) /\ m \in Queued(c)

(* A handler that has returned leaves no lease renewed on its behalf       *)
(* (fail_connection: background tasks are aborted by unregister, which is  *)
(* reached via the close_tx path).                                         *)
NoOrphanLease ==
    \A c \in Conns : ~(pc[c] = "done" /\ lock = c /\ c \in renewing)

(* A lease whose device left its connection is given up.                   *)
LeaseFreed ==
    \A c \in Conns : (lock = c /\ devConn # c) ~> (lock # c)

(* Late mark_offline of an old handler is repaired: a connection that      *)
(* stays up ends with the device shown online for good.                    *)
PresenceRepaired ==
    \A c \in Conns : <>[](pc[c] = "up") => <>[]online

(* A takeover settles: the lease moves on and presence becomes true again. *)
TakeoverSettles == LeaseFreed /\ PresenceRepaired
=============================================================================

----------------------------- MODULE DaemonLink -----------------------------
(***************************************************************************)
(* The device-to-hub direction: the daemon's in-memory Outbox, which       *)
(* outlives connections; the reconnect loop and connect_with_auth; the     *)
(* senders cloned into jobs and the heartbeat task; the hub's per-         *)
(* connection dedup by last_inbound_seq and its acknowledgements.          *)
(*                                                                         *)
(* Frames are their sequence numbers (next_seq never repeats while the     *)
(* daemon lives).  BufferedEnvelopeSender::send stamps and stores under    *)
(* the outbox mutex, unlocks, and only then pushes to the connection's     *)
(* channel: those are two steps.  Channel, socket and the hub's read are   *)
(* one queue per connection.                                               *)
(***************************************************************************)
EXTENDS Naturals, Sequences, FiniteSets

CONSTANTS Jobs,       \* jobs (or job approval waiters): each holds a sender clone
          Beat,       \* the heartbeat task of the current connection
          MaxConn,    \* bound: connections the daemon makes
          MaxFrames,  \* bound: frames each job sends
          MaxBeats,   \* bound: heartbeats sent
          MaxBuffer   \* Outbox.max_buffer

ASSUME LinkAssumption ==
    /\ Beat \notin Jobs
    /\ IsFiniteSet(Jobs)
    /\ MaxConn \in Nat
    /\ MaxFrames \in Nat
    /\ MaxBeats \in Nat
    /\ MaxBuffer \in Nat \ {0}

VARIABLES dpc,       \* "dial", "up", "await" (at send_handle.await)
          conn,      \* how many connections were made; the current one
          sock,      \* is its socket still whole?
          nextSeq, peerAck, buffer,   \* Outbox
          clone,     \* per producer: connection whose sender it holds, 0 if none
          mine,      \* per producer: number stamped and not yet pushed, 0 if none
          sent,      \* per producer: frames stamped so far
          sendTask,  \* connections whose send task runs
          queue,     \* per connection: frames on their way to the hub
          acks,      \* per connection: acknowledgements on their way back
          hubLast,   \* per connection: last_inbound_seq
          processed  \* frames the hub has handled

vars == <<dpc, conn, sock, nextSeq, peerAck, buffer, clone, mine, sent, sendTask,
          queue, acks, hubLast, processed>>

Producers == Jobs \cup {Beat}
Connections == 1..MaxConn
Limit(p) == IF p = Beat THEN MaxBeats ELSE MaxFrames

Init ==
    /\ dpc = "dial"
    /\ conn = 0
    /\ sock = FALSE
    /\ nextSeq = 1
    /\ peerAck = 0
    /\ buffer = {}
    /\ clone = [p \in Producers |-> 0]
    /\ mine = [p \in Producers |-> 0]
    /\ sent = [p \in Producers |-> 0]
    /\ sendTask = {}
    /\ queue = [k \in Connections |-> <<>>]
    /\ acks = [k \in Connections |-> {}]
    /\ hubLast = [k \in Connections |-> 0]
    /\ processed = {}

----------------------------------------------------------------------------
(* The smallest of a set of numbers.                                       *)
Oldest(ns) == CHOOSE n \in ns : \A x \in ns : n <= x

(* Outbox::store: over the cap the oldest frame is dropped.                *)
Store(n) ==
    LET all == buffer \cup {n}
    IN  IF Cardinality(all) > MaxBuffer THEN all \ {Oldest(all)} ELSE all

(* Mutant: the replay starts one frame late.                               *)
MutDrainLate ==
    LET rest == buffer \ {Oldest(buffer)} IN
    IF buffer = {} THEN {<<>>}
    ELSE {q \in [1..Cardinality(rest) -> rest] :
            \A i, j \in 1..Cardinality(rest) : i < j => q[i] < q[j]}

(* Outbox::drain_unacked: everything buffered, oldest first.               *)
DrainUnacked ==
    {q \in [1..Cardinality(buffer) -> buffer] :
        \A i, j \in 1..Cardinality(buffer) : i < j => q[i] < q[j]}

(* Dial, handshake, replay; then the channel, the send task and the        *)
(* heartbeat task of this connection.                                      *)
Connect ==
    /\ dpc = "dial"
    /\ conn < MaxConn
    /\ conn' = conn + 1
    /\ sock' = TRUE
    /\ dpc' = "up"
    /\ \E q \in DrainUnacked : queue' = [queue EXCEPT ![conn + 1] = q]
    /\ sendTask' = sendTask \cup {conn + 1}
    /\ clone' = [clone EXCEPT ![Beat] = conn + 1]
    /\ UNCHANGED <<nextSeq, peerAck, buffer, mine, sent, acks, hubLast, processed>>

SocketBreaks ==
    /\ sock
    /\ sock' = FALSE
    /\ UNCHANGED <<dpc, conn, nextSeq, peerAck, buffer, clone, mine, sent, sendTask,
                   queue, acks, hubLast, processed>>

(* Mutant: teardown leaves the heartbeat task running.                     *)
MutTeardownKeepsBeat ==
    /\ dpc = "up"
    /\ ~sock
    /\ dpc' = "await"
    /\ UNCHANGED <<conn, sock, nextSeq, peerAck, buffer, clone, mine, sent, sendTask,
                   queue, acks, hubLast, processed>>

(* Read error, close frame or watchdog.  Teardown drops the close guard,   *)
(* stops heartbeat, ping and watcher tasks, drops its own sender and waits *)
(* for the send task.                                                      *)
Teardown ==
    /\ dpc = "up"
    /\ ~sock
    /\ mine[Beat] = 0
    /\ dpc' = "await"
    /\ clone' = [clone EXCEPT ![Beat] = 0]
    /\ UNCHANGED <<conn, sock, nextSeq, peerAck, buffer, mine, sent, sendTask,
                   queue, acks, hubLast, processed>>

Holders(k) == {p \in Producers : clone[p] = k}

(* The send task ends when a write fails, or when the channel is empty and *)
(* every sender clone is gone.                                             *)
SendTaskEnds(k) ==
    /\ k \in sendTask
    /\ ~(k = conn /\ sock)
    /\ \/ queue[k] # <<>>
       \/ Holders(k) = {} /\ ~(k = conn /\ dpc = "up")
    /\ sendTask' = sendTask \ {k}
    /\ UNCHANGED <<dpc, conn, sock, nextSeq, peerAck, buffer, clone, mine, sent,
                   queue, acks, hubLast, processed>>

(* send_handle.await returns; the loop backs off and dials again.          *)
Disconnected ==
    /\ dpc = "await"
    /\ conn \notin sendTask
    /\ dpc' = "dial"
    /\ UNCHANGED <<conn, sock, nextSeq, peerAck, buffer, clone, mine, sent, sendTask,
                   queue, acks, hubLast, processed>>

----------------------------------------------------------------------------
(* A JobRequest arrives: the job keeps a clone of this connection's sender *)
(* for as long as it runs.                                                 *)
StartJob(j) ==
    /\ dpc = "up"
    /\ clone[j] = 0
    /\ sent[j] = 0
    /\ clone' = [clone EXCEPT ![j] = conn]
    /\ UNCHANGED <<dpc, conn, sock, nextSeq, peerAck, buffer, mine, sent, sendTask,
                   queue, acks, hubLast, processed>>

FinishJob(j) ==
    /\ clone[j] # 0
    /\ mine[j] = 0
    /\ sent[j] = MaxFrames
    /\ clone' = [clone EXCEPT ![j] = 0]
    /\ UNCHANGED <<dpc, conn, sock, nextSeq, peerAck, buffer, mine, sent, sendTask,
                   queue, acks, hubLast, processed>>

(* First half of send: prepare_outbound under the outbox mutex.            *)
Stamp(p) ==
    /\ clone[p] # 0
    /\ mine[p] = 0
    /\ sent[p] < Limit(p)
    /\ mine' = [mine EXCEPT ![p] = nextSeq]
    /\ sent' = [sent EXCEPT ![p] = @ + 1]
    /\ nextSeq' = nextSeq + 1
    /\ buffer' = Store(nextSeq)
    /\ UNCHANGED <<dpc, conn, sock, peerAck, clone, sendTask, queue, acks, hubLast, processed>>

(* Second half: push to the channel the clone belongs to; when its send    *)
(* task is gone the error is dropped and the frame stays buffered only.    *)
Push(p) ==
    /\ mine[p] # 0
    /\ mine' = [mine EXCEPT ![p] = 0]
    /\ queue' = IF clone[p] \in sendTask
                THEN [queue EXCEPT ![clone[p]] = Append(@, mine[p])] ELSE queue
    /\ UNCHANGED <<dpc, conn, sock, nextSeq, peerAck, buffer, clone, sent, sendTask,
                   acks, hubLast, processed>>

----------------------------------------------------------------------------
(* Mutant: the hub acknowledges one past the frame it read.                *)
MutAckNext ==
    /\ dpc = "up"
    /\ sock
    /\ conn \in sendTask
    /\ queue[conn] # <<>>
    /\ LET n == Head(queue[conn]) IN
          /\ processed' = IF n > hubLast[conn] THEN processed \cup {n} ELSE processed
          /\ hubLast' = [hubLast EXCEPT ![conn] = IF n > @ THEN n ELSE @]
          /\ acks' = [acks EXCEPT ![conn] = @ \cup {n + 1}]
    /\ queue' = [queue EXCEPT ![conn] = Tail(@)]
    /\ UNCHANGED <<dpc, conn, sock, nextSeq, peerAck, buffer, clone, mine, sent, sendTask>>

(* The hub reads a frame of the live connection.  At or below the          *)
(* connection's last number it is a duplicate; either way it is            *)
(* acknowledged by its own number.                                         *)
HubReads ==
    /\ dpc = "up"
    /\ sock
    /\ conn \in sendTask
    /\ queue[conn] # <<>>
    /\ LET n == Head(queue[conn]) IN
          /\ processed' = IF n > hubLast[conn] THEN processed \cup {n} ELSE processed
          /\ hubLast' = [hubLast EXCEPT ![conn] = IF n > @ THEN n ELSE @]
          /\ acks' = [acks EXCEPT ![conn] = @ \cup {n}]
    /\ queue' = [queue EXCEPT ![conn] = Tail(@)]
    /\ UNCHANGED <<dpc, conn, sock, nextSeq, peerAck, buffer, clone, mine, sent, sendTask>>

(* Outbox::on_peer_ack in the receive loop.                                *)
AckArrives ==
    /\ dpc = "up"
    /\ sock
    /\ \E n \in acks[conn] :
          /\ acks' = [acks EXCEPT ![conn] = @ \ {n}]
          /\ peerAck' = IF n > peerAck THEN n ELSE peerAck
          /\ buffer' = {x \in buffer : x > peerAck'}
    /\ UNCHANGED <<dpc, conn, sock, nextSeq, clone, mine, sent, sendTask, queue,
                   hubLast, processed>>

Next ==
    \/ Connect \/ SocketBreaks \/ Teardown \/ Disconnected \/ HubReads \/ AckArrives
    \/ \E k \in Connections : SendTaskEnds(k)
    \/ \E j \in Jobs : StartJob(j) \/ FinishJob(j)
    \/ \E p \in Producers : Stamp(p) \/ Push(p)

Spec == Init /\ [][Next]_vars

(* Every task of the daemon and the hub keeps running; a job owes nothing: *)
(* it may stay silent, as may an approval nobody answers.                  *)
LinkFairness ==
    /\ WF_vars(Connect) /\ WF_vars(Teardown) /\ WF_vars(Disconnected)
    /\ WF_vars(HubReads) /\ WF_vars(AckArrives)
    /\ \A k \in Connections : WF_vars(SendTaskEnds(k))
    /\ \A p \in Producers : WF_vars(Push(p))

FairSpec == Spec /\ LinkFairness

----------------------------------------------------------------------------
(* Nothing is trimmed that the hub never saw the like of: peer_ack is at   *)
(* most the highest number the hub handled on any connection.              *)
AckBehindHub == peerAck # 0 => \E n \in processed : peerAck <= n

(* Once torn down, a connection no job still sends on gives way: the       *)
(* daemon leaves send_handle.await and dials again.  (A silent job that    *)
(* keeps its clone of the sender keeps the daemon waiting.)                *)
ReconnectsEventually ==
    (dpc = "await" /\ \A j \in Jobs : clone[j] # conn) ~> dpc = "dial"

(* At-least-once by replay: what is buffered when the daemon dials is      *)
(* handled by the hub once a connection stays up, whatever producers and   *)
(* acknowledgements of this or earlier connections do, unless the cap      *)
(* evicts it.                                                              *)
ReplayDelivers ==
    <>[](dpc = "up" /\ sock) =>
        \A n \in 1..(MaxBeats + MaxFrames * Cardinality(Jobs)) :
            (dpc = "dial" /\ n \in buffer)
                ~> (n \in processed \/ n + MaxBuffer < nextSeq)
=============================================================================

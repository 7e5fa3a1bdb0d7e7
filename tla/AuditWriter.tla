---------------------------- MODULE AuditWriter ----------------------------
(***************************************************************************)
(* The buffered audit store of one hub process.  Handlers append through   *)
(* a bounded channel and never wait for the database; one task gathers     *)
(* batches, tries the store twice and then writes a fallback file.  A full *)
(* queue spills an entry into a task of its own, and after shutdown took   *)
(* the sender entries are written directly.                                *)
(***************************************************************************)
EXTENDS Naturals, Sequences

CONSTANTS AuditEntries,
          AuditQueueCapacity,  \* AUDIT_QUEUE_CAPACITY (1024)
          AuditBatchSize       \* AUDIT_BATCH_SIZE (100)

VARIABLES entryPc,     \* per entry: where its append() is
          auditTx,     \* WriterState.tx still holds the sender
          auditQueue,  \* the channel
          auditBuffer, \* the writer's batch
          writerPc,    \* the writer: "recv", "gather", "first", "retry", "fallback", "ended"
          auditStored, \* how often the database has each entry
          auditFile,   \* entries in the fallback file
          auditDoubt,  \* entries of an append that failed after its commit
          auditLost    \* entries whose last resort failed, or that died with the process

auditVars == <<entryPc, auditTx, auditQueue, auditBuffer, writerPc, auditStored,
               auditFile, auditDoubt, auditLost>>

AuditWriterInit ==
    /\ entryPc = [e \in AuditEntries |-> "new"]
    /\ auditTx = TRUE
    /\ auditQueue = <<>>
    /\ auditBuffer = <<>>
    /\ writerPc = "recv"
    /\ auditStored = [e \in AuditEntries |-> 0]
    /\ auditFile = {}
    /\ auditDoubt = {}
    /\ auditLost = {}

Batched == {auditBuffer[i] : i \in DOMAIN auditBuffer}
AtPc(pc) == {e \in AuditEntries : entryPc[e] = pc}
EntryTo(e, pc) == entryPc' = [entryPc EXCEPT ![e] = pc]
ProcessUp == writerPc # "exited"
Kept == <<auditStored, auditFile, auditDoubt, auditLost>>

----------------------------------------------------------------------------
(* append: the sender is cloned under its mutex, or found taken.           *)
AuditAppend(e) ==
    /\ ProcessUp
    /\ entryPc[e] = "new"
    /\ EntryTo(e, IF auditTx THEN "sending" ELSE "direct")
    /\ UNCHANGED <<auditTx, auditQueue, auditBuffer, writerPc>> /\ UNCHANGED Kept

(* Mutant: a full queue drops the entry.                                   *)
MutTrySend(e) ==
    /\ entryPc[e] = "sending"
    /\ EntryTo(e, "done")
    /\ auditQueue' = IF Len(auditQueue) < AuditQueueCapacity
                     THEN Append(auditQueue, e) ELSE auditQueue
    /\ UNCHANGED <<auditTx, auditBuffer, writerPc>> /\ UNCHANGED Kept

(* try_send: queued, or spilled to a spawned task when the queue is full.  *)
(* The clone keeps the channel open, so it is never found closed.          *)
TrySend(e) ==
    /\ entryPc[e] = "sending"
    /\ IF Len(auditQueue) < AuditQueueCapacity
       THEN EntryTo(e, "done") /\ auditQueue' = Append(auditQueue, e)
       ELSE EntryTo(e, "spilled") /\ UNCHANGED auditQueue
    /\ UNCHANGED <<auditTx, auditBuffer, writerPc>> /\ UNCHANGED Kept

(* append_direct_or_fallback's attempt on the store: it can fail after its *)
(* transaction committed.                                                  *)
AppendDirect(e) ==
    /\ entryPc[e] = "direct"
    /\ \E wrote, ok \in BOOLEAN :
          /\ ok => wrote
          /\ EntryTo(e, IF ok THEN "done" ELSE "spilled")
          /\ auditStored' = [auditStored EXCEPT ![e] = @ + (IF wrote THEN 1 ELSE 0)]
          /\ auditDoubt' = IF wrote /\ ~ok THEN auditDoubt \cup {e} ELSE auditDoubt
    /\ UNCHANGED <<auditTx, auditQueue, auditBuffer, writerPc, auditFile, auditLost>>

(* write_fallback_entries of one entry; its failure is only logged.        *)
WriteSpilled(e) ==
    /\ entryPc[e] = "spilled"
    /\ EntryTo(e, "done")
    /\ \/ auditFile' = auditFile \cup {e} /\ UNCHANGED auditLost
       \/ auditLost' = auditLost \cup {e} /\ UNCHANGED auditFile
    /\ UNCHANGED <<auditTx, auditQueue, auditBuffer, writerPc, auditStored, auditDoubt>>

----------------------------------------------------------------------------
(* run_audit_writer: the first entry of a batch and the ones after it.     *)
WriterRecv ==
    /\ writerPc \in {"recv", "gather"}
    /\ auditQueue # <<>>
    /\ auditBuffer' = Append(auditBuffer, Head(auditQueue))
    /\ auditQueue' = Tail(auditQueue)
    /\ writerPc' = IF Len(auditBuffer') < AuditBatchSize THEN "gather" ELSE "first"
    /\ UNCHANGED <<entryPc, auditTx>> /\ UNCHANGED Kept

(* The flush timer, or a closed and drained channel, ends the gathering.   *)
WriterTimer ==
    /\ writerPc = "gather"
    /\ writerPc' = "first"
    /\ UNCHANGED <<entryPc, auditTx, auditQueue, auditBuffer>> /\ UNCHANGED Kept

(* flush_batch: the batch is one transaction, tried twice.                 *)
FlushBatch ==
    /\ writerPc \in {"first", "retry"}
    /\ \E wrote, ok \in BOOLEAN :
          /\ ok => wrote
          /\ auditStored' = [e \in AuditEntries |-> auditStored[e] +
                                IF wrote /\ e \in Batched THEN 1 ELSE 0]
          /\ auditDoubt' = IF wrote /\ ~ok THEN auditDoubt \cup Batched ELSE auditDoubt
          /\ IF ok THEN writerPc' = "recv" /\ auditBuffer' = <<>>
             ELSE /\ writerPc' = IF writerPc = "first" THEN "retry" ELSE "fallback"
                  /\ UNCHANGED auditBuffer
    /\ UNCHANGED <<entryPc, auditTx, auditQueue, auditFile, auditLost>>

(* The fallback file takes the batch, or its error is logged; either way   *)
(* the buffer is cleared.                                                  *)
WriteFallback ==
    /\ writerPc = "fallback"
    /\ \/ auditFile' = auditFile \cup Batched /\ UNCHANGED auditLost
       \/ auditLost' = auditLost \cup Batched /\ UNCHANGED auditFile
    /\ auditBuffer' = <<>>
    /\ writerPc' = "recv"
    /\ UNCHANGED <<entryPc, auditTx, auditQueue, auditStored, auditDoubt>>

(* The channel is closed once the sender and every clone of it are gone.   *)
WriterEnds ==
    /\ writerPc = "recv"
    /\ auditQueue = <<>>
    /\ ~auditTx
    /\ AtPc("sending") = {}
    /\ writerPc' = "ended"
    /\ UNCHANGED <<entryPc, auditTx, auditQueue, auditBuffer>> /\ UNCHANGED Kept

(* shutdown takes the sender, then waits for the task ...                  *)
TakeSender ==
    /\ auditTx
    /\ ProcessUp
    /\ auditTx' = FALSE
    /\ UNCHANGED <<entryPc, auditQueue, auditBuffer, writerPc>> /\ UNCHANGED Kept

(* ... after which the process exits, with the tasks nobody waits for; or  *)
(* it is killed at any time, with everything in its memory.                *)
ProcessExits(killed) ==
    /\ ProcessUp
    /\ killed \/ writerPc = "ended"
    /\ auditLost' = auditLost \cup AtPc("sending") \cup AtPc("direct") \cup AtPc("spilled")
                       \cup Batched \cup {auditQueue[i] : i \in DOMAIN auditQueue}
    /\ entryPc' = [e \in AuditEntries |-> IF entryPc[e] = "new" THEN "new" ELSE "done"]
    /\ auditQueue' = <<>>
    /\ auditBuffer' = <<>>
    /\ writerPc' = "exited"
    /\ UNCHANGED <<auditTx, auditStored, auditFile, auditDoubt>>

AuditWriterNext ==
    \/ \E e \in AuditEntries :
          AuditAppend(e) \/ TrySend(e) \/ AppendDirect(e) \/ WriteSpilled(e)
    \/ WriterRecv \/ WriterTimer \/ FlushBatch \/ WriteFallback \/ WriterEnds
    \/ TakeSender
    \/ \E killed \in BOOLEAN : ProcessExits(killed)

AuditWriterSpec == AuditWriterInit /\ [][AuditWriterNext]_auditVars

----------------------------------------------------------------------------
(* An entry whose append() returned is still queued or gathered, in the    *)
(* database, in the fallback file, or lost by the fallback write itself    *)
(* failing or the process ending: no step in between drops it.             *)
EveryEntryKept ==
    \A e \in AtPc("done") :
        \/ \E i \in DOMAIN auditQueue : auditQueue[i] = e
        \/ e \in Batched
        \/ auditStored[e] > 0
        \/ e \in auditFile \cup auditLost

(* Only a failure reported after the commit makes an entry appear twice.   *)
TwiceOnlyInDoubt ==
    \A e \in AuditEntries :
        auditStored[e] + (IF e \in auditFile THEN 1 ELSE 0) > 1 => e \in auditDoubt

(* A shutdown that runs to its end leaves nothing in the channel: the task *)
(* ends after the last sender, not when shutdown asks.                     *)
DrainedAtEnd == writerPc = "ended" => auditQueue = <<>> /\ auditBuffer = <<>> /\ AtPc("sending") = {}

(* What the audit log promises of every entry.                             *)
AuditAccounted ==
    [][(EveryEntryKept /\ TwiceOnlyInDoubt /\ DrainedAtEnd)']_auditVars
=============================================================================

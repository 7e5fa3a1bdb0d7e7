--------------------------- MODULE OutboxContract ---------------------------
(***************************************************************************)
(* What the OutboxStore trait promises the device gateway, whichever store *)
(* is behind it: a lease one session holds at a time, numbers only its     *)
(* holder is issued, and frames that stay until they are acknowledged, the *)
(* store overflows, or the holder learns that the store lost its state.    *)
(***************************************************************************)
EXTENDS Naturals, FiniteSets

CONSTANTS Sessions, NoSession,
          MaxLen    \* frames a store keeps at least before it drops any

VARIABLES lock,     \* the session holding the lease, or NoSession
          seq,      \* last number issued
          kept      \* frames: number and the session that wrote them

contractVars == <<lock, seq, kept>>

Init == lock = NoSession /\ seq = 0 /\ kept = {}

(* try_acquire_lock: only a free lease is granted.                         *)
Grant(s) == lock = NoSession /\ lock' = s /\ UNCHANGED <<seq, kept>>

(* release_lock, or the lease's own end.                                   *)
EndLease == lock' = NoSession /\ UNCHANGED <<seq, kept>>

(* fenced_incr_seq                                                         *)
Issue(s) == lock = s /\ seq' = seq + 1 /\ UNCHANGED <<lock, kept>>

(* xadd_frame: a number issued and not in the store yet; frames are        *)
(* dropped only once the store holds MaxLen.                               *)
Accept(s, n) ==
    /\ lock = s
    /\ n <= seq /\ \A e \in kept : e.id # n
    /\ kept' \subseteq kept \cup {[id |-> n, by |-> s]}
    /\ \/ kept' = kept \cup {[id |-> n, by |-> s]}
       \/ Cardinality(kept') >= MaxLen
    /\ UNCHANGED <<lock, seq>>

(* observe_ack, reconcile_on_hello: only frames up to an issued number the *)
(* device acknowledged may go.                                             *)
Discard(ack) ==
    /\ kept' \subseteq kept
    /\ \A e \in kept : e.id > ack => e \in kept'
    /\ UNCHANGED <<lock, seq>>

(* reconcile_on_hello for a device that is ahead of the store.             *)
Bootstrap ==
    /\ lock # NoSession
    /\ seq' > seq /\ kept' = {}
    /\ UNCHANGED lock

(* The store starts over.                                                  *)
Lose == lock' = NoSession /\ seq' = 0 /\ kept' = {}

Next ==
    \/ \E s \in Sessions : Grant(s) \/ Issue(s) \/ \E n \in 1..seq : Accept(s, n)
    \/ EndLease
    \/ \E ack \in 0..seq : Discard(ack)
    \/ Bootstrap \/ Lose

Spec == Init /\ [][Next]_contractVars
=============================================================================

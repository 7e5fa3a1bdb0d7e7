-------------------------- MODULE HubTablesProofs ---------------------------
(***************************************************************************)
(* The hub's tables in memory.  InMemoryOutbox implements the contract of  *)
(* OutboxContract for any sessions and any bounds; and for any set of      *)
(* calls, any choice of request ids and any capacity the counter of        *)
(* PendingFileRequests never drifts, the cap is never exceeded, no sender  *)
(* leaks and no waiter is clobbered.                                       *)
(***************************************************************************)
EXTENDS PendingRequests, InMemoryOutbox, FiniteSetTheorems, TLAPS

(***************************************************************************)
(* The in-memory outbox.  The contract asks that a number be stored once;  *)
(* the code never looks, so the proof has to know where numbers are: in    *)
(* the buffer once, or with the one send that reserved it.                 *)
(***************************************************************************)
MemoryFrames == [id : Nat, by : Sessions]

MemoryTypes ==
    /\ owner \in Sessions \cup {NoSession} /\ issued \in Nat
    /\ buf \in Seq(MemoryFrames)
    /\ reserved \in [Sessions -> SUBSET Nat]

NumbersOnce ==
    /\ \A i \in DOMAIN buf : buf[i].id <= issued
    /\ \A i, j \in DOMAIN buf : buf[i].id = buf[j].id => i = j
    /\ \A s \in Sessions : \A n \in reserved[s] : n <= issued /\ \A i \in DOMAIN buf : buf[i].id # n
    /\ \A s, t \in Sessions : \A n \in reserved[s] \cap reserved[t] : s = t

MemoryInv == MemoryTypes /\ NumbersOnce

(* Frames of different numbers are as many as their places.                *)
LEMMA DistinctCount ==
    ASSUME NEW T, NEW q \in Seq(T), \A i, j \in DOMAIN q : q[i] = q[j] => i = j
    PROVE  Cardinality({q[i] : i \in DOMAIN q}) = Len(q)
<1> DEFINE n == Len(q)
           R == {q[i] : i \in 1..n}
           f == [i \in 1..n |-> q[i]]
<1>1. n \in Nat /\ DOMAIN q = 1..n
  OBVIOUS
<1>2. IsFiniteSet(1..n) /\ Cardinality(1..n) = n
  <2> HIDE DEF n
  <2>1. IsFiniteSet(1..n) /\ Cardinality(1..n) = IF 1 > n THEN 0 ELSE n - 1 + 1
    BY <1>1, FS_Interval
  <2> QED BY <1>1, <2>1
<1>3. \A i, j \in 1..n : q[i] = q[j] => i = j
  BY <1>1, Zenon
<1> HIDE DEF n
<1>4. f \in Surjection(1..n, R)
  BY Zenon DEF Surjection
<1>5. f \in Injection(1..n, R)
  BY <1>3, Zenon DEF Injection, IsInjective
<1>6. Cardinality(R) = Cardinality(1..n)
  <2> HIDE DEF f, R
  <2> QED BY <1>2, <1>4, <1>5, FS_Surjection, Zenon
<1> QED BY <1>1, <1>2, <1>6, Zenon DEF n

(* What pop_front leaves: an end of the buffer, with every frame above the *)
(* acknowledged number.                                                    *)
LEMMA PopAckedLeaves ==
    ASSUME MemoryTypes, NEW ack \in Nat, PopAcked(ack)
    PROVE  /\ buf' \in Seq(MemoryFrames)
           /\ \E k \in Nat : /\ \A i \in DOMAIN buf' : i + k \in DOMAIN buf /\ buf'[i] = buf[i + k]
                             /\ \A i \in DOMAIN buf : i > k => i - k \in DOMAIN buf'
                             /\ \A i \in DOMAIN buf : i <= k => buf[i].id <= ack
<1> DEFINE n == Len(buf)
<1>1. buf \in Seq(MemoryFrames) /\ n \in Nat /\ DOMAIN buf = 1..n
  BY DEF MemoryTypes
<1>2. PICK k \in 0..n : /\ \A i \in 1..k : buf[i].id <= ack
                        /\ buf' = SubSeq(buf, k + 1, n)
  BY Zenon DEF PopAcked
<1>3. k \in Nat /\ k <= n
  BY <1>1, <1>2
<1>4. \A i \in (k + 1)..n : buf[i] \in MemoryFrames
  BY <1>1, <1>3
<1>5. /\ buf' \in Seq(MemoryFrames) /\ Len(buf') = n - k /\ DOMAIN buf' = 1..(n - k)
      /\ \A i \in 1..(n - k) : buf'[i] = buf[i + k]
  <2> DEFINE m == k + 1
  <2>1. m \in 1..(n + 1) /\ n - m + 1 = n - k /\ n - m + 1 \in Nat /\ \A i \in 1..(n - k) : m + i - 1 = i + k
    BY <1>1, <1>3
  <2>2. buf' = SubSeq(buf, m, n)
    BY <1>2, Zenon
  <2>3. \A i \in m..n : buf[i] \in MemoryFrames
    BY <1>4, Zenon
  <2> HIDE DEF m, n
  <2>4. /\ Len(buf') = n - m + 1 /\ DOMAIN buf' = 1..(n - m + 1)
        /\ \A i \in 1..(n - m + 1) : buf'[i] = buf[m + i - 1]
    BY <1>1, <2>1, <2>2
  <2>5. \A i \in 1..(n - m + 1) : m + i - 1 \in m..n
    BY <1>1, <2>1
  <2>6. buf' \in Seq(MemoryFrames)
    <3>1. \A i \in 1..(n - m + 1) : buf'[i] \in MemoryFrames
      BY <2>3, <2>4, <2>5, Zenon
    <3>2. buf' = [i \in 1..(n - m + 1) |-> buf[m + i - 1]]
      BY <1>1, <2>1, <2>2
    <3> QED BY <2>1, <2>4, <3>1, <3>2
  <2> QED BY <2>1, <2>4, <2>6, Zenon
<1> HIDE DEF n
<1>6. \A i \in 1..(n - k) : i + k \in 1..n
  BY <1>1, <1>3
<1>7. \A i \in 1..n : i > k => i - k \in 1..(n - k)
  BY <1>1, <1>3
<1>8. \A i \in 1..n : i <= k => i \in 1..k
  BY <1>1, <1>3
<1> QED BY <1>1, <1>2, <1>3, <1>5, <1>6, <1>7, <1>8, Zenon

(* pop_front leaves numbers where they were, and discards only what the    *)
(* contract lets an acknowledgement discard.                               *)
LEMMA PopAckedKeeps ==
    ASSUME MemoryInv, NEW ack \in 0..issued, PopAcked(ack), UNCHANGED <<owner, issued, reserved>>
    PROVE  MemoryInv' /\ MemoryContract!Discard(ack)
<1> USE DEF MemoryInv
<1>1. ack \in Nat
  BY DEF MemoryTypes
<1>2. buf' \in Seq(MemoryFrames)
  BY <1>1, PopAckedLeaves, Zenon
<1>3. PICK k \in Nat : /\ \A i \in DOMAIN buf' : i + k \in DOMAIN buf /\ buf'[i] = buf[i + k]
                       /\ \A i \in DOMAIN buf : i > k => i - k \in DOMAIN buf'
                       /\ \A i \in DOMAIN buf : i <= k => buf[i].id <= ack
  BY <1>1, PopAckedLeaves, Zenon
<1>4. DOMAIN buf \subseteq Nat /\ DOMAIN buf' \subseteq Nat
  BY <1>2 DEF MemoryTypes
<1>5. MemoryTypes'
  BY <1>2, Zenon DEF MemoryTypes
<1>6. NumbersOnce'
  <2>1. \A i, j \in DOMAIN buf' : buf'[i].id = buf'[j].id => i = j
    <3> SUFFICES ASSUME NEW i \in DOMAIN buf', NEW j \in DOMAIN buf', buf'[i].id = buf'[j].id
                 PROVE  i = j
      BY Zenon
    <3>1. i + k = j + k
      BY <1>3 DEF NumbersOnce
    <3> QED BY <1>4, <3>1
  <2>2. \A i \in DOMAIN buf' : \E j \in DOMAIN buf : buf'[i] = buf[j]
    BY <1>3, Zenon
  <2> QED BY <2>1, <2>2 DEF NumbersOnce
<1>7. {buf'[i] : i \in DOMAIN buf'} \subseteq {buf[i] : i \in DOMAIN buf}
  <2>1. \A i \in DOMAIN buf' : \E j \in DOMAIN buf : buf'[i] = buf[j]
    BY <1>3, Zenon
  <2> QED BY <2>1, Zenon
<1>8. ASSUME NEW i \in DOMAIN buf, buf[i].id > ack
      PROVE  \E j \in DOMAIN buf' : buf'[j] = buf[i]
  <2>1. buf[i].id \in Nat
    <3>1. buf[i] \in MemoryFrames
      BY DEF MemoryTypes
    <3> QED BY <3>1, Zenon DEF MemoryFrames
  <2>2. i > k
    BY <1>1, <1>3, <1>4, <1>8, <2>1
  <2>3. i - k \in DOMAIN buf' /\ (i - k) + k = i
    BY <1>3, <1>4, <2>2
  <2> QED BY <1>3, <2>3, Zenon
<1>9. \A e \in {buf[i] : i \in DOMAIN buf} : e.id > ack => e \in {buf'[i] : i \in DOMAIN buf'}
  BY <1>8, Zenon
<1>10. MemoryContract!Discard(ack)
  BY <1>7, <1>9, Zenon DEF MemoryContract!Discard
<1> QED BY <1>5, <1>6, <1>10, Zenon

(* The end of the buffer after push_back, and pop_front over the cap: the  *)
(* number moves from its send to the buffer, and something is dropped only *)
(* from a buffer of MaxLen frames.                                         *)
LEMMA PushBackKeeps ==
    ASSUME MemoryInv, NEW s \in Sessions, NEW n \in reserved[s], n # 0, owner = s,
           reserved' = [reserved EXCEPT ![s] = @ \ {n}], buf' = PushBack(s, n),
           UNCHANGED <<owner, issued>>
    PROVE  MemoryInv' /\ MemoryContract!Accept(s, n) /\ n \in 1..issued
<1> USE DEF MemoryInv
<1> DEFINE new == [id |-> n, by |-> s]
           k == Len(buf)
           longer == Append(buf, new)
           d == IF Len(longer) > MaxLen THEN 1 ELSE 0
<1>1. n \in Nat /\ n <= issued /\ issued \in Nat /\ \A i \in DOMAIN buf : buf[i].id # n
  BY Zenon DEF MemoryTypes, NumbersOnce
<1>2. new \in MemoryFrames /\ new.id = n
  BY <1>1, Zenon DEF MemoryFrames
<1> HIDE DEF new
<1>3. /\ buf \in Seq(MemoryFrames) /\ k \in Nat /\ DOMAIN buf = 1..k
      /\ \A i \in 1..k : buf[i] \in MemoryFrames
  BY DEF MemoryTypes
<1>4. /\ longer \in Seq(MemoryFrames) /\ Len(longer) = k + 1 /\ DOMAIN longer = 1..(k + 1)
      /\ longer[k + 1] = new /\ \A i \in 1..k : longer[i] = buf[i]
  BY <1>2, <1>3
<1>9. buf' = IF Len(longer) > MaxLen THEN Tail(longer) ELSE longer
  BY Zenon DEF PushBack, new
<1> HIDE DEF longer, k, d
<1>5. \A i \in 1..(k + 1) : longer[i].id <= issued
  <2>1. \A i \in 1..k : buf[i].id <= issued
    BY <1>3, Zenon DEF NumbersOnce
  <2> QED BY <1>1, <1>2, <1>3, <1>4, <2>1
<1>6. \A i, j \in 1..(k + 1) : longer[i].id = longer[j].id => i = j
  <2>1. \A i, j \in 1..k : buf[i].id = buf[j].id => i = j
    BY <1>3, Zenon DEF NumbersOnce
  <2> SUFFICES ASSUME NEW i \in 1..(k + 1), NEW j \in 1..(k + 1), longer[i].id = longer[j].id
               PROVE  i = j
    BY Zenon
  <2>2. (i = k + 1 \/ i \in 1..k) /\ (j = k + 1 \/ j \in 1..k)
    BY <1>3
  <2>3. \A m \in 1..k : longer[m].id # longer[k + 1].id
    BY <1>1, <1>2, <1>3, <1>4, Zenon
  <2>4. i \in 1..k /\ j \in 1..k => i = j
    BY <1>4, <2>1, Zenon
  <2> QED BY <2>2, <2>3, <2>4, Zenon
<1>7. \A t \in Sessions : \A m \in reserved'[t] : m \in reserved[t] /\ m # n
  <2> TAKE t \in Sessions
  <2> TAKE m \in reserved'[t]
  <2>1. CASE t = s
    BY <2>1, Zenon DEF MemoryTypes
  <2>2. CASE t # s
    BY <2>2 DEF MemoryTypes, NumbersOnce
  <2> QED BY <2>1, <2>2, Zenon
<1>8. \A t \in Sessions : \A m \in reserved'[t] : \A i \in 1..(k + 1) : longer[i].id # m
  <2> SUFFICES ASSUME NEW t \in Sessions, NEW m \in reserved'[t], NEW i \in 1..(k + 1)
               PROVE  longer[i].id # m
    BY Zenon
  <2>1. m \in reserved[t] /\ m # n
    BY <1>7, Zenon
  <2>2. i = k + 1 \/ i \in 1..k
    BY <1>3
  <2>3. i \in 1..k => longer[i].id # m
    BY <1>3, <1>4, <2>1, Zenon DEF NumbersOnce
  <2> QED BY <1>2, <1>4, <2>1, <2>2, <2>3, Zenon
<1>10. /\ d \in {0, 1} /\ buf' \in Seq(MemoryFrames) /\ Len(buf') = k + 1 - d /\ DOMAIN buf' = 1..(k + 1 - d)
       /\ \A i \in 1..(k + 1 - d) : buf'[i] = longer[i + d]
  <2>1. CASE Len(longer) > MaxLen
    <3>1. buf' = Tail(longer) /\ d = 1 /\ longer # <<>>
      BY <1>3, <1>4, <1>9, <2>1 DEF d
    <3> QED BY <1>3, <1>4, <3>1
  <2>2. CASE ~(Len(longer) > MaxLen)
    <3>1. buf' = longer /\ d = 0
      BY <1>9, <2>2, Zenon DEF d
    <3>2. \A i \in 1..(k + 1) : i + 0 = i
      BY <1>3
    <3> QED BY <1>3, <1>4, <3>1, <3>2
  <2> QED BY <2>1, <2>2, Zenon
<1>11. d = 1 => k + 1 > MaxLen
  BY <1>4 DEF d
<1>12. \A i \in 1..(k + 1 - d) : i + d \in 1..(k + 1)
  BY <1>3, <1>10
<1>13. \A i, j \in DOMAIN buf' : buf'[i].id = buf'[j].id => i = j
  <2> SUFFICES ASSUME NEW i \in 1..(k + 1 - d), NEW j \in 1..(k + 1 - d), buf'[i].id = buf'[j].id
               PROVE  i = j
    BY <1>10
  <2>1. longer[i + d].id = longer[j + d].id
    BY <1>10, Zenon
  <2>2. i + d = j + d
    BY <1>6, <1>12, <2>1, Zenon
  <2> QED BY <1>3, <1>10, <2>2
<1>14. MemoryTypes'
  BY <1>7, <1>10, Zenon DEF MemoryTypes
<1>15. NumbersOnce'
  <2>1. \A i \in DOMAIN buf' : \E j \in 1..(k + 1) : buf'[i] = longer[j]
    BY <1>10, <1>12, Zenon
  <2>2. \A i \in DOMAIN buf' : buf'[i].id <= issued'
    BY <1>5, <2>1, Zenon
  <2>3. \A t \in Sessions : \A m \in reserved'[t] : m <= issued' /\ \A i \in DOMAIN buf' : buf'[i].id # m
    BY <1>7, <1>8, <2>1 DEF NumbersOnce
  <2>4. \A t, u \in Sessions : \A m \in reserved'[t] \cap reserved'[u] : t = u
    BY <1>7, Zenon DEF NumbersOnce
  <2> QED BY <1>13, <2>2, <2>3, <2>4, Zenon DEF NumbersOnce
<1>16. MemoryContract!Accept(s, n)
  <2> DEFINE old == {buf[i] : i \in DOMAIN buf}
             now == {buf'[i] : i \in DOMAIN buf'}
  <2>1. now \subseteq old \cup {new}
    <3>1. \A j \in 1..(k + 1) : longer[j] = new \/ (j \in 1..k /\ longer[j] = buf[j])
      BY <1>3, <1>4 DEF k
    <3>2. \A i \in DOMAIN buf' : \E j \in 1..(k + 1) : buf'[i] = longer[j]
      BY <1>10, <1>12, Zenon
    <3> QED BY <1>3, <3>1, <3>2, Zenon
  <2>2. ASSUME d = 0 PROVE now = old \cup {new}
    <3>1. \A j \in 1..(k + 1) : j \in DOMAIN buf' /\ buf'[j] = longer[j]
      BY <1>3, <1>10, <2>2
    <3>2. new \in now
      BY <1>3, <1>4, <3>1 DEF k
    <3>3. old \subseteq now
      <4>1. \A j \in 1..k : j \in 1..(k + 1)
        BY <1>3
      <4> QED BY <1>3, <1>4, <3>1, <4>1, Zenon DEF k
    <3> QED BY <2>1, <3>2, <3>3, Zenon
  <2>3. ASSUME d = 1 PROVE Cardinality(now) >= MaxLen
    <3>1. \A i, j \in DOMAIN buf' : buf'[i] = buf'[j] => i = j
      BY <1>13, Zenon
    <3>2. Cardinality(now) = Len(buf')
      <4>1. buf' \in Seq(MemoryFrames)
        BY <1>10, Zenon
      <4> QED BY <3>1, <4>1, DistinctCount, Zenon
    <3>3. Len(buf') = k
      BY <1>3, <1>10, <2>3
    <3>4. k >= MaxLen
      BY <1>3, <1>11, <2>3, MemoryAssumption
    <3> QED BY <3>2, <3>3, <3>4, Zenon
  <2>4. \A kept : MemoryContract!Cardinality(kept) = Cardinality(kept)
    BY Zenon DEF Cardinality, MemoryContract!Cardinality
  <2>5. now = old \cup {new} \/ MemoryContract!Cardinality(now) >= MaxLen
    <3>1. CASE d = 0
      <4>1. now = old \cup {new}
        BY <2>2, <3>1, Zenon
      <4> QED BY <4>1, Zenon
    <3>2. CASE d = 1
      <4>1. Cardinality(now) >= MaxLen
        BY <2>3, <3>2, Zenon
      <4> HIDE DEF now, old
      <4> QED BY <2>4, <4>1, Zenon
    <3> QED BY <1>10, <3>1, <3>2, Zenon
  <2>6. \A e \in old : e.id # n
    BY <1>1, Zenon
  <2> QED BY <1>1, <2>1, <2>5, <2>6, Zenon DEF MemoryContract!Accept, new
<1> QED BY <1>1, <1>14, <1>15, <1>16

(* Every call keeps the numbers where the proof says, and is a step of the *)
(* contract or changes nothing the contract speaks of.                     *)
LEMMA StepMemory ==
    ASSUME MemoryInv, [MemoryNext]_memoryVars
    PROVE  MemoryInv' /\ [MemoryContract!Next]_(MemoryContract!contractVars)
<1> USE MemoryAssumption DEF MemoryInv
<1> DEFINE Kept == MemoryInv' /\ [MemoryContract!Next]_(MemoryContract!contractVars)
<1>1. ASSUME NEW s \in Sessions, try_acquire_lock(s) PROVE Kept
  <2>1. MemoryInv'
    BY <1>1, Zenon DEF try_acquire_lock, MemoryTypes, NumbersOnce
  <2>2. MemoryContract!Grant(s)
    BY <1>1, Zenon DEF try_acquire_lock, MemoryContract!Grant
  <2> QED BY <2>1, <2>2, Zenon DEF MemoryContract!Next
<1>2. ASSUME NEW s \in Sessions, release_lock(s) PROVE Kept
  <2>1. MemoryInv'
    BY <1>2, Zenon DEF release_lock, MemoryTypes, NumbersOnce
  <2>2. MemoryContract!EndLease
    BY <1>2, Zenon DEF release_lock, MemoryContract!EndLease
  <2> QED BY <2>1, <2>2, Zenon DEF MemoryContract!Next
<1>3. ASSUME NEW s \in Sessions, fenced_incr_seq(s) PROVE Kept
  <2>1. /\ issued \in Nat /\ issued' = issued + 1 /\ UNCHANGED <<owner, buf>>
        /\ reserved' = [reserved EXCEPT ![s] = @ \cup {issued + 1}] /\ owner = s
    BY <1>3, Zenon DEF fenced_incr_seq, MemoryTypes
  <2>2. \A t \in Sessions : \A n \in reserved'[t] :
            \/ n \in reserved[t]
            \/ t = s /\ n = issued + 1
    BY <2>1, Zenon DEF MemoryTypes
  <2>3. MemoryTypes'
    BY <2>1 DEF MemoryTypes
  <2>4. NumbersOnce'
    <3>1. \A i \in DOMAIN buf : buf[i].id \in Nat /\ buf[i].id <= issued
      <4>1. \A i \in DOMAIN buf : buf[i] \in MemoryFrames
        BY DEF MemoryTypes
      <4> QED BY <4>1, Zenon DEF NumbersOnce, MemoryFrames
    <3>2. \A t \in Sessions : \A n \in reserved[t] : n \in Nat /\ n <= issued
      BY Zenon DEF NumbersOnce, MemoryTypes
    <3>3. \A i \in DOMAIN buf' : buf'[i].id <= issued'
      BY <2>1, <3>1
    <3>4. \A t \in Sessions : \A n \in reserved'[t] : n <= issued' /\ \A i \in DOMAIN buf' : buf'[i].id # n
      BY <2>1, <2>2, <3>1, <3>2 DEF NumbersOnce
    <3>5. \A t, u \in Sessions : \A n \in reserved'[t] \cap reserved'[u] : t = u
      BY <2>1, <2>2, <3>2 DEF NumbersOnce
    <3> QED BY <2>1, <3>3, <3>4, <3>5, Zenon DEF NumbersOnce
  <2>5. MemoryContract!Issue(s)
    BY <2>1, Zenon DEF MemoryContract!Issue
  <2> QED BY <2>3, <2>4, <2>5, Zenon DEF MemoryContract!Next
<1>4. ASSUME NEW ack \in 0..issued, PopAcked(ack), UNCHANGED <<owner, issued, reserved>> PROVE Kept
  <2>1. MemoryInv' /\ MemoryContract!Discard(ack)
    BY <1>4, PopAckedKeeps, Zenon
  <2> QED BY <2>1, Zenon DEF MemoryContract!Next
<1>5. ASSUME NEW s \in Sessions, NEW ack \in 0..MaxIssued, reconcile_on_hello(s, ack) PROVE Kept
  <2>0. ack \in Nat /\ issued \in Nat /\ UNCHANGED <<owner, reserved>> /\ owner = s
    BY <1>5 DEF reconcile_on_hello, MemoryTypes
  <2>1. CASE ack > issued
    <3>1. issued' = ack /\ buf' = <<>>
      BY <1>5, <2>1, Zenon DEF reconcile_on_hello
    <3>2. DOMAIN buf' = {} /\ buf' \in Seq(MemoryFrames)
      BY <3>1
    <3>3. MemoryTypes'
      BY <2>0, <3>1, <3>2, Zenon DEF MemoryTypes
    <3>4. NumbersOnce'
      <4>1. \A t \in Sessions : \A n \in reserved[t] : n \in Nat /\ n <= issued
        BY Zenon DEF NumbersOnce, MemoryTypes
      <4>2. \A t \in Sessions : \A n \in reserved'[t] : n <= issued'
        BY <2>0, <2>1, <3>1, <4>1
      <4> QED BY <2>0, <3>2, <4>2, Zenon DEF NumbersOnce
    <3>5. MemoryContract!Bootstrap
      BY <2>0, <2>1, <3>1, <3>2, Zenon DEF MemoryContract!Bootstrap
    <3> QED BY <3>3, <3>4, <3>5, Zenon DEF MemoryContract!Next
  <2>2. CASE ack <= issued
    <3>1. ack \in 0..issued /\ PopAcked(ack) /\ UNCHANGED <<owner, issued, reserved>>
      BY <1>5, <2>0, <2>2 DEF reconcile_on_hello
    <3> QED BY <1>4, <3>1, Zenon
  <2> QED BY <2>0, <2>1, <2>2
<1>6. ASSUME NEW s \in Sessions, NEW n \in 1..MaxIssued, xadd_frame(s, n) PROVE Kept
  <2>1. CASE owner = s
    <3>1. MemoryInv' /\ MemoryContract!Accept(s, n) /\ n \in 1..issued
      <4>1. /\ n \in reserved[s] /\ n # 0 /\ reserved' = [reserved EXCEPT ![s] = @ \ {n}]
            /\ buf' = PushBack(s, n) /\ UNCHANGED <<owner, issued>>
        BY <1>6, <2>1 DEF xadd_frame
      <4> QED BY <2>1, <4>1, PushBackKeeps, Zenon
    <3> QED BY <3>1, Zenon DEF MemoryContract!Next
  <2>2. CASE owner # s
    <3>1. UNCHANGED <<owner, issued, buf>> /\ \A t \in Sessions : reserved'[t] \subseteq reserved[t]
      BY <1>6, <2>2, Zenon DEF xadd_frame, MemoryTypes
    <3>2. MemoryTypes'
      BY <1>6, <3>1, Zenon DEF xadd_frame, MemoryTypes
    <3>3. NumbersOnce'
      BY <3>1, Zenon DEF NumbersOnce
    <3>4. UNCHANGED (MemoryContract!contractVars)
      BY <3>1, Zenon DEF MemoryContract!contractVars
    <3> QED BY <3>2, <3>3, <3>4, Zenon
  <2> QED BY <2>1, <2>2, Zenon
<1>7. ASSUME NEW ack \in 1..MaxIssued, observe_ack(ack) PROVE Kept
  <2>1. ack \in 0..issued
    BY <1>7 DEF observe_ack, MemoryTypes
  <2> QED BY <1>4, <1>7, <2>1, Zenon DEF observe_ack
<1>8. CASE HubRestarts
  <2>1. DOMAIN buf' = {} /\ buf' \in Seq(MemoryFrames)
    BY <1>8 DEF HubRestarts
  <2>2. MemoryTypes'
    BY <1>8, <2>1, Zenon DEF HubRestarts, MemoryTypes
  <2>3. NumbersOnce'
    BY <1>8, <2>1, Zenon DEF HubRestarts, NumbersOnce
  <2>4. MemoryContract!Lose
    BY <1>8, <2>1, Zenon DEF HubRestarts, MemoryContract!Lose
  <2> QED BY <2>2, <2>3, <2>4, Zenon DEF MemoryContract!Next
<1>9. CASE UNCHANGED memoryVars
  <2>1. UNCHANGED <<owner, issued, buf, reserved>>
    BY <1>9, Zenon DEF memoryVars
  <2>2. MemoryInv' /\ UNCHANGED (MemoryContract!contractVars)
    BY <2>1, Zenon DEF MemoryTypes, NumbersOnce, MemoryContract!contractVars
  <2> QED BY <2>2, Zenon
<1> QED BY <1>1, <1>2, <1>3, <1>5, <1>6, <1>7, <1>8, <1>9, Zenon DEF MemoryNext

(* The in-memory outbox keeps the contract the Redis store keeps, for any  *)
(* sessions and any cap: the refinement of OutboxContract.                 *)
THEOREM MemoryOutboxKeepsContract == MemorySpec => MemoryKeepsContract
<1>1. MemoryInit => MemoryInv /\ MemoryContract!Init
  <2> SUFFICES ASSUME MemoryInit PROVE MemoryInv /\ MemoryContract!Init
    BY Zenon
  <2>1. DOMAIN buf = {} /\ buf \in Seq(MemoryFrames)
    BY DEF MemoryInit
  <2> QED BY <2>1, Zenon DEF MemoryInit, MemoryInv, MemoryTypes, NumbersOnce, MemoryContract!Init
<1>2. MemoryInv /\ [MemoryNext]_memoryVars
        => MemoryInv' /\ [MemoryContract!Next]_(MemoryContract!contractVars)
  BY StepMemory, Zenon
<1> QED BY <1>1, <1>2, PTL DEF MemorySpec, MemoryKeepsContract, MemoryContract!Spec

----------------------------------------------------------------------------
(***************************************************************************)
(* The pending request tables.                                             *)
(***************************************************************************)
(* Someone has taken d's sender to answer it.                              *)
Answered(d) == slot[d] = "answer" \/ taken[d] # "no"

(* Another call with c's request id was answered.                          *)
OtherAnswered(c) == \E d \in Calls \ {c} : key[d] = key[c] /\ Answered(d)

(* TypeOK but for the sign of the counter, which follows from CountsSlots. *)
Shape ==
    /\ pending \in [Keys -> Calls \cup {None}]
    /\ pc \in [Calls -> Points]
    /\ slot \in [Calls -> {"open", "answer", "closed"}]
    /\ taken \in [Calls -> {"no", "count", "answer"}]
    /\ asked \in SUBSET Calls
    /\ result \in [Calls -> Results]

(* Only file calls are counted.                                            *)
CountedAreFiles ==
    \A c \in Calls :
        pc[c] \in {"reserved", "full", "dup", "release"} \/ taken[c] = "count" => c \in Files

(* A sender in the map, or of a handler that has not reached the map yet,  *)
(* is untouched.                                                           *)
Untouched ==
    /\ \A k \in Keys : pending[k] # None => slot[pending[k]] = "open" /\ taken[pending[k]] = "no"
    /\ \A c \in Calls : pc[c] \in {"new", "reserved", "full", "dup"} =>
           slot[c] = "open" /\ taken[c] = "no"

(* A handler past its registration that has lost its place in the map was  *)
(* answered, or lost it to the guard of one that was.                      *)
LostToAnswer ==
    /\ \A c \in Calls : pc[c] \in {"send", "wait", "guard"} /\ pending[key[c]] # c =>
           Answered(c) \/ OtherAnswered(c)
    /\ \A c \in Calls : pc[c] \in {"send", "wait"} /\ slot[c] = "closed" => OtherAnswered(c)
    /\ \A c \in Calls : result[c] = "closed" => OtherAnswered(c)

(* The sender's life: everything but the counting.                         *)
SlotInv == Shape /\ SlotsOwned /\ CountedAreFiles /\ Untouched /\ LostToAnswer

----------------------------------------------------------------------------
USE PendingAssumption

(* No call, no entry.                                                      *)
LEMMA SlotInit == Init => SlotInv
  BY SMTT(40) DEF Init, SlotInv, Shape, SlotsOwned, CountedAreFiles, Untouched, LostToAnswer, Calls,
         Points, Results

(* Every step keeps an entry with the call that owns it.                   *)
LEMMA SlotStep == SlotInv /\ [Next]_vars => SlotInv'
  <1> SUFFICES ASSUME SlotInv, [Next]_vars PROVE SlotInv'
    BY Zenon
  <1> USE DEF SlotInv, Shape, SlotsOwned, CountedAreFiles, Untouched, LostToAnswer, Answered,
              OtherAnswered, Goto, Return, Calls, Points, Results
  <1>1. ASSUME NEW c \in Files, Reserve(c) PROVE SlotInv'
    BY <1>1 DEF Reserve
  <1>2. ASSUME NEW c \in Plain, Insert(c) PROVE SlotInv'
    BY <1>2 DEF Insert
  <1>3. ASSUME NEW c \in Calls, TakeSlot(c) PROVE SlotInv'
    BY <1>3 DEF TakeSlot
  <1>4. ASSUME NEW c \in Calls, HandBack(c) PROVE SlotInv'
    BY <1>4 DEF HandBack
  <1>5. ASSUME NEW c \in Calls, SendRequest(c) PROVE SlotInv'
    BY <1>5 DEF SendRequest
  <1>6. ASSUME NEW c \in Calls, Receive(c) PROVE SlotInv'
    BY <1>6 DEF Receive
  <1>7. ASSUME NEW c \in Calls, Timeout(c) PROVE SlotInv'
    BY <1>7 DEF Timeout
  <1>8. ASSUME NEW c \in Calls, DropGuard(c) PROVE SlotInv'
    BY <1>8 DEF DropGuard
  <1>9. ASSUME NEW c \in Calls, ReleaseCount(c) PROVE SlotInv'
    BY <1>9 DEF ReleaseCount
  <1>10. ASSUME NEW c \in Calls, Abandon(c) PROVE SlotInv'
    BY <1>10 DEF Abandon
  <1>11. ASSUME NEW c \in Calls, Respond(c) PROVE SlotInv'
    BY <1>11 DEF Respond
  <1>12. ASSUME NEW c \in Calls, ResolveCount(c) PROVE SlotInv'
    BY <1>12 DEF ResolveCount
  <1>13. ASSUME NEW c \in Calls, ResolveSend(c) PROVE SlotInv'
    BY <1>13 DEF ResolveSend
  <1>14. CASE UNCHANGED vars
    BY <1>14 DEF vars
  <1> QED
    BY <1>1, <1>2, <1>3, <1>4, <1>5, <1>6, <1>7, <1>8, <1>9, <1>10, <1>11, <1>12, <1>13, <1>14, Zenon
       DEF Next, Handler, Resolve

----------------------------------------------------------------------------
(* The counting.  Firm are the counted calls that passed the cap.          *)
Firm == {c \in Calls : pc[c] \in {"reserved", "dup", "release"}}

FirmWithinCap == Cardinality(Held) + Cardinality(Firm) + Cardinality(Resolving) <= Capacity

CountInv == SlotInv /\ CountsSlots /\ FirmWithinCap

(* The sets of calls the count is about are finite.                        *)
LEMMA AllFinite ==
    /\ IsFiniteSet(Held) /\ IsFiniteSet(Counted) /\ IsFiniteSet(Resolving) /\ IsFiniteSet(Firm)
    /\ Cardinality(Held) \in Nat /\ Cardinality(Counted) \in Nat
    /\ Cardinality(Resolving) \in Nat /\ Cardinality(Firm) \in Nat
  <1>1. IsFiniteSet(Held)
    BY FS_Subset, Zenon DEF Held
  <1>2. IsFiniteSet(Counted)
    BY FS_Subset, Zenon DEF Counted
  <1>3. IsFiniteSet(Resolving)
    BY FS_Subset, Zenon DEF Resolving
  <1>4. IsFiniteSet(Firm)
    BY FS_Subset, Zenon DEF Firm
  <1> QED
    BY <1>1, <1>2, <1>3, <1>4, FS_CardinalityType, Zenon

(* A set grows by one with a new element.                                  *)
LEMMA Grow == ASSUME NEW S, IsFiniteSet(S), NEW x, x \notin S
              PROVE  Cardinality(S \cup {x}) = Cardinality(S) + 1
  BY FS_AddElement, Zenon

(* A set shrinks by one without one of its elements.                       *)
LEMMA Shrink == ASSUME NEW S, IsFiniteSet(S), NEW x \in S
                PROVE  Cardinality(S \ {x}) = Cardinality(S) - 1
  BY FS_RemoveElement, Zenon

(* Nothing is counted.                                                     *)
LEMMA CountInit == Init => CountInv
  <1> SUFFICES ASSUME Init PROVE CountInv
    BY Zenon
  <1>1. Held = {} /\ Counted = {} /\ Resolving = {} /\ Firm = {}
    BY Zenon DEF Init, Held, Counted, Resolving, Firm, Calls
  <1> QED
    BY <1>1, SlotInit, FS_EmptySet DEF CountInv, CountsSlots, FirmWithinCap, Init

(* What a step does to the four sets decides what it does to the counts.   *)
LEMMA CountStep == CountInv /\ [Next]_vars => CountInv'
  <1> SUFFICES ASSUME CountInv, [Next]_vars PROVE CountInv'
    BY Zenon
  <1>0. SlotInv /\ SlotInv'
    BY SlotStep, Zenon DEF CountInv
  <1>a. inFlight \in Int
    BY AllFinite DEF CountInv, CountsSlots
  <1>same. ASSUME UNCHANGED <<Held, Counted, Resolving, Firm, inFlight>> PROVE CountInv'
    BY <1>same, <1>0, <1>a, Zenon DEF CountInv, CountsSlots, FirmWithinCap
  <1>1. ASSUME NEW c \in Files, Reserve(c) PROVE CountInv'
    <2>1. UNCHANGED <<Held, Resolving>> /\ Counted' = Counted \cup {c} /\ c \notin Counted /\ c \notin Firm
      BY <1>0, <1>1 DEF Reserve, Held, Counted, Resolving, Firm, Goto, Calls, SlotInv, Shape
    <2>2. Cardinality(Counted') = Cardinality(Counted) + 1
      BY <2>1, Grow, AllFinite, Zenon
    <2>3. Firm \subseteq Counted /\ Cardinality(Firm) <= Cardinality(Counted)
      BY FS_Subset, AllFinite, Zenon DEF Firm, Counted
    <2>4. CASE inFlight + 1 > Capacity
      <3>1. UNCHANGED Firm
        BY <1>0, <1>1, <2>4, Zenon DEF Reserve, Firm, Goto, Calls, SlotInv, Shape
      <3> QED
        BY <1>0, <1>1, <1>a, <2>1, <2>2, <3>1, AllFinite DEF Reserve, CountInv, CountsSlots, FirmWithinCap
    <2>5. CASE ~(inFlight + 1 > Capacity)
      <3>1. Firm' = Firm \cup {c}
        BY <1>0, <1>1, <2>5 DEF Reserve, Firm, Goto, Calls, SlotInv, Shape
      <3>2. Cardinality(Firm') = Cardinality(Firm) + 1
        BY <3>1, <2>1, Grow, AllFinite, Zenon
      <3> QED
        BY <1>0, <1>1, <1>a, <2>1, <2>2, <2>3, <2>5, <3>2, AllFinite
           DEF Reserve, CountInv, CountsSlots, FirmWithinCap
    <2> QED
      BY <2>4, <2>5, Zenon
  <1>2. ASSUME NEW c \in Plain, Insert(c) PROVE CountInv'
    <2>1. UNCHANGED <<Held, Counted, Resolving, Firm, inFlight>>
      BY <1>0, <1>2 DEF Insert, Held, Counted, Resolving, Firm, Goto, Calls, SlotInv, Shape, SlotsOwned
    <2> QED
      BY <2>1, <1>same, Zenon
  <1>3. ASSUME NEW c \in Calls, TakeSlot(c) PROVE CountInv'
    <2>1. CASE pending[key[c]] # None
      <3>1. UNCHANGED <<Held, Counted, Resolving, Firm, inFlight>>
        BY <1>0, <1>3, <2>1 DEF TakeSlot, Held, Counted, Resolving, Firm, Goto, SlotInv, Shape
      <3> QED
        BY <3>1, <1>same, Zenon
    <2>2. CASE pending[key[c]] = None
      <3>1. /\ Held' = Held \cup {key[c]} /\ key[c] \notin Held
            /\ Counted' = Counted \ {c} /\ c \in Counted
            /\ Firm' = Firm \ {c} /\ c \in Firm
            /\ UNCHANGED <<Resolving, inFlight>>
        BY <1>0, <1>3, <2>2 DEF TakeSlot, Held, Counted, Resolving, Firm, Goto, Calls, SlotInv, Shape, CountedAreFiles
      <3>2. /\ Cardinality(Held') = Cardinality(Held) + 1
            /\ Cardinality(Counted') = Cardinality(Counted) - 1
            /\ Cardinality(Firm') = Cardinality(Firm) - 1
        BY <3>1, Grow, Shrink, AllFinite, Zenon
      <3> QED
        BY <1>0, <1>a, <3>1, <3>2, AllFinite DEF CountInv, CountsSlots, FirmWithinCap
    <2> QED
      BY <2>1, <2>2, Zenon
  <1>4. ASSUME NEW c \in Calls, HandBack(c) PROVE CountInv'
    <2>1. /\ Counted' = Counted \ {c} /\ c \in Counted
          /\ Firm' = Firm \ {c}
          /\ UNCHANGED <<Held, Resolving>>
      BY <1>0, <1>4, Zenon DEF HandBack, Held, Counted, Resolving, Firm, Goto, SlotInv, Shape
    <2>2. /\ Cardinality(Counted') = Cardinality(Counted) - 1
          /\ Cardinality(Firm') \in Nat /\ Cardinality(Firm') <= Cardinality(Firm)
      BY <2>1, Shrink, FS_Subset, FS_CardinalityType, AllFinite, Zenon
    <2> QED
      BY <1>0, <1>4, <1>a, <2>1, <2>2, AllFinite DEF HandBack, CountInv, CountsSlots, FirmWithinCap
  <1>5. ASSUME NEW c \in Calls, SendRequest(c) \/ Receive(c) \/ Timeout(c) \/ Abandon(c) \/ ResolveSend(c)
        PROVE  CountInv'
    <2>1. UNCHANGED <<Held, Counted, Resolving, Firm, inFlight>>
      BY <1>0, <1>5 DEF SendRequest, Receive, Timeout, Abandon, ResolveSend, Held, Counted, Resolving, Firm,
                        Goto, SlotInv, Shape
    <2> QED
      BY <2>1, <1>same, Zenon
  <1>6. ASSUME NEW c \in Calls, DropGuard(c) PROVE CountInv'
    <2>1. CASE c \in Files /\ pending[key[c]] # None
      <3>1. /\ Held' = Held \ {key[c]} /\ key[c] \in Held
            /\ Counted' = Counted \cup {c} /\ c \notin Counted
            /\ Firm' = Firm \cup {c} /\ c \notin Firm
            /\ UNCHANGED <<Resolving, inFlight>>
        BY <1>0, <1>6, <2>1 DEF DropGuard, Held, Counted, Resolving, Firm, Goto, Calls, SlotInv, Shape, SlotsOwned
      <3>2. /\ Cardinality(Held') = Cardinality(Held) - 1
            /\ Cardinality(Counted') = Cardinality(Counted) + 1
            /\ Cardinality(Firm') = Cardinality(Firm) + 1
        BY <3>1, Grow, Shrink, AllFinite, Zenon
      <3> QED
        BY <1>0, <1>a, <3>1, <3>2, AllFinite DEF CountInv, CountsSlots, FirmWithinCap
    <2>2. CASE ~(c \in Files /\ pending[key[c]] # None)
      <3>1. UNCHANGED <<Held, Counted, Resolving, Firm, inFlight>>
        BY <1>0, <1>6, <2>2 DEF DropGuard, Held, Counted, Resolving, Firm, Goto, Calls, SlotInv, Shape, SlotsOwned
      <3> QED
        BY <3>1, <1>same, Zenon
    <2> QED
      BY <2>1, <2>2, Zenon
  <1>7. ASSUME NEW c \in Calls, ReleaseCount(c) PROVE CountInv'
    <2>1. /\ Counted' = Counted \ {c} /\ c \in Counted
          /\ Firm' = Firm \ {c} /\ c \in Firm
          /\ UNCHANGED <<Held, Resolving>>
      BY <1>0, <1>7, Zenon DEF ReleaseCount, Held, Counted, Resolving, Firm, Goto, SlotInv, Shape
    <2>2. /\ Cardinality(Counted') = Cardinality(Counted) - 1
          /\ Cardinality(Firm') = Cardinality(Firm) - 1
      BY <2>1, Shrink, AllFinite, Zenon
    <2> QED
      BY <1>0, <1>7, <1>a, <2>1, <2>2, AllFinite DEF ReleaseCount, CountInv, CountsSlots, FirmWithinCap
  <1>8. ASSUME NEW c \in Calls, Respond(c) PROVE CountInv'
    <2> DEFINE d == pending[key[c]]
    <2>1. CASE d \in Files
      <3>1. /\ Held' = Held \ {key[c]} /\ key[c] \in Held
            /\ Resolving' = Resolving \cup {d} /\ d \notin Resolving
            /\ UNCHANGED <<Counted, Firm, inFlight>>
        BY <1>0, <1>8, <2>1 DEF Respond, Held, Counted, Resolving, Firm, Calls, SlotInv, Shape, Untouched
      <3>2. /\ Cardinality(Held') = Cardinality(Held) - 1
            /\ Cardinality(Resolving') = Cardinality(Resolving) + 1
        BY <3>1, Grow, Shrink, AllFinite, Zenon
      <3> QED
        BY <1>0, <1>a, <3>1, <3>2, AllFinite DEF CountInv, CountsSlots, FirmWithinCap
    <2>2. CASE d \notin Files
      <3>1. UNCHANGED <<Held, Counted, Resolving, Firm, inFlight>>
        BY <1>0, <1>8, <2>2 DEF Respond, Held, Counted, Resolving, Firm, Calls, SlotInv, Shape, Untouched
      <3> QED
        BY <3>1, <1>same, Zenon
    <2> QED
      BY <2>1, <2>2, Zenon
  <1>9. ASSUME NEW c \in Calls, ResolveCount(c) PROVE CountInv'
    <2>1. /\ Resolving' = Resolving \ {c} /\ c \in Resolving
          /\ UNCHANGED <<Held, Counted, Firm>>
      BY <1>0, <1>9, Zenon DEF ResolveCount, Held, Counted, Resolving, Firm, SlotInv, Shape
    <2>2. Cardinality(Resolving') = Cardinality(Resolving) - 1
      BY <2>1, Shrink, AllFinite, Zenon
    <2> QED
      BY <1>0, <1>9, <1>a, <2>1, <2>2, AllFinite DEF ResolveCount, CountInv, CountsSlots, FirmWithinCap
  <1>10. CASE UNCHANGED vars
    <2>1. UNCHANGED <<Held, Counted, Resolving, Firm, inFlight>>
      BY <1>10, Zenon DEF vars, Held, Counted, Resolving, Firm
    <2> QED
      BY <2>1, <1>same, Zenon
  <1> QED
    BY <1>1, <1>2, <1>3, <1>4, <1>5, <1>6, <1>7, <1>8, <1>9, <1>10, Zenon DEF Next, Handler, Resolve

----------------------------------------------------------------------------
(* The counter is the number of counted entries, always.                   *)
LEMMA CountAlways == Spec => []CountInv
  BY CountInit, CountStep, PTL DEF Spec

(* in_flight never drifts from the table and never wraps below zero, for   *)
(* any calls, ids and capacity and any interleaving of register, resolve   *)
(* and cancel.                                                             *)
THEOREM CounterExact == Spec => [](TypeOK /\ CountsSlots)
  <1>1. CountInv => TypeOK /\ CountsSlots
    BY AllFinite DEF CountInv, CountsSlots, TypeOK, SlotInv, Shape
  <1> QED
    BY <1>1, CountAlways, PTL

(* Concurrent registers never hold more than the capacity between them.    *)
THEOREM CapRaceFree == Spec => []CapHolds
  <1>1. ASSUME CountInv PROVE CapHolds
    <2> DEFINE R == {c \in Calls : pc[c] = "reserved"}
    <2>1. R \subseteq Firm
      BY Zenon DEF Firm
    <2>2. Cardinality(R) \in Nat /\ Cardinality(R) <= Cardinality(Firm)
      BY <2>1, AllFinite, FS_Subset, FS_CardinalityType, Zenon
    <2> QED
      BY <1>1, <2>2, AllFinite DEF CountInv, FirmWithinCap, CapHolds
  <1> QED
    BY <1>1, CountAlways, PTL

(* Every sender in the map belongs to a handler whose guard will remove it.*)
THEOREM NoSlotLeaks == Spec => []SlotsOwned
  <1>1. CountInv => SlotsOwned
    BY Zenon DEF CountInv, SlotInv
  <1> QED
    BY <1>1, CountAlways, PTL

(* A waiter loses its channel only to the guard of an answered twin.       *)
THEOREM WaitersKeepSlots == Spec => []NeverClobbered
  <1>1. CountInv => NeverClobbered
    BY Zenon DEF CountInv, SlotInv, LostToAnswer, OtherAnswered, Answered, NeverClobbered
  <1> QED
    BY <1>1, CountAlways, PTL

(* All of it together, for any calls, ids and capacity.                    *)
THEOREM TablesAreSound == Spec => []TablesSound
  BY CounterExact, CapRaceFree, NoSlotLeaks, WaitersKeepSlots, PTL DEF TablesSound
=============================================================================

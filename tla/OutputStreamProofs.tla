------------------------ MODULE OutputStreamProofs --------------------------
EXTENDS OutputStream, TLAPS

(***************************************************************************)
(* The in-memory output stream.  Why a number a reader passes over is one  *)
(* that changed places, or one it was told of, depends on the order of the *)
(* history, on what left it, and on the writers between two of their       *)
(* steps.                                                                  *)
(***************************************************************************)
WriterStates == {"idle", "store", "flag", "send", "over"}
ReaderRecords ==
    [at : {"idle", "copy", "plan", "live", "ended"}, life : 0..Lives, raw : BOOLEAN,
     from : LastIds \cup {Fresh}, seen : Nat, done : BOOLEAN, plan : Seq(Nat \ {0}),
     queue : Seq(Nat \ {0}), lag : BOOLEAN, told : BOOLEAN, got : Seq(Nat \ {0})]

OutputTypes ==
    /\ last \in 0..Lives /\ life \in {0, last}
    /\ next \in [1..Lives -> Nat]
    /\ history \in [1..Lives -> Seq(Nat \ {0})]
    /\ finished \in [1..Lives -> BOOLEAN]
    /\ final \in [1..Lives -> SUBSET Nat]
    /\ writer \in [Writers -> [at : WriterStates, life : 0..Lives, seq : Nat]]
    /\ reader \in [Readers -> ReaderRecords]
    /\ swapped \in [1..Lives -> SUBSET Nat]

(* Numbers in the history or once in it, sent, and gone from the history.  *)
Unstored(l) == Behind(l, {"store"})
Unsent(l) == Behind(l, {"store", "flag", "send"})
Stored(l) == Behind(l, {"flag", "send", "over"})
Sent(l) == Behind(l, {"over"})
Gone(l) == Stored(l) \ Elements(history[l])

(* Each number of a life is one writer's.                                  *)
NumbersOwned ==
    /\ \A w \in Writers : writer[w].at = "idle" <=> writer[w].life = 0
    /\ \A w \in Writers : writer[w].life # 0 =>
          writer[w].life <= last /\ writer[w].seq \in 1..next[writer[w].life]
    /\ \A w, v \in Writers :
          writer[w].life # 0 /\ writer[w].life = writer[v].life /\ writer[w].seq = writer[v].seq => w = v
    /\ \A l \in 1..Lives : \A n \in 1..next[l] : n \in Unsent(l) \cup Sent(l)

(* A number that is late in the history or in the broadcast has changed    *)
(* places.                                                                 *)
LateSwapped(l) ==
    /\ \A n \in Unstored(l), z \in Stored(l) : n < z => n \in swapped[l] /\ z \in swapped[l]
    /\ \A n \in Unsent(l), z \in Sent(l) : n < z => n \in swapped[l]

(* The history is in the order of the numbers but for those, and so is     *)
(* what was trimmed.                                                       *)
HistoryOrdered(l) ==
    /\ Elements(history[l]) \subseteq Stored(l)
    /\ \A i, j \in DOMAIN history[l] : i < j =>
          \/ history[l][i] < history[l][j]
          \/ history[l][i] \in swapped[l] /\ history[l][j] \in swapped[l]
    /\ \A m \in Gone(l) : m \in swapped[l] \/ \A z \in Elements(history[l]) : m < z
    /\ history[l] = <<>> => Stored(l) = {}

(* A life that left the map had its terminal record.                       *)
LivesFinish ==
    /\ \A l \in 1..last : l # life => finished[l]
    /\ \A l \in 1..Lives : finished[l] => final[l] # {}
    /\ \A l \in 1..Lives : final[l] \subseteq Stored(l)
    /\ \A w \in Writers : writer[w].at = "flag" => writer[w].seq \in final[writer[w].life]

WritersInv ==
    /\ OutputTypes /\ NumbersOwned /\ LivesFinish
    /\ \A l \in 1..Lives : LateSwapped(l) /\ HistoryOrdered(l)

----------------------------------------------------------------------------
(* What a reader may pass over, and what it need not have.                 *)
Excused(rd, n) == n \in swapped[rd.life] \/ rd.told
Covered(rd, n) ==
    \/ n \in Elements(rd.got) \/ Excused(rd, n)
    \/ rd.from # Fresh /\ n <= rd.from
    \/ n \in Gone(rd.life)

(* A reader that has delivered nothing stands at its header.               *)
NothingYet(rd) == rd.got = <<>> => rd.seen = IF rd.from = Fresh THEN 0 ELSE rd.from

(* Below the last number delivered nothing is missing without a word ...   *)
Below(rd) ==
    ~rd.raw /\ rd.got # <<>> => \A n \in 1..rd.seen :
        \/ n \in Elements(rd.got) \/ Excused(rd, n)
        \/ rd.from # Fresh /\ n <= rd.from
        \/ rd.from = Fresh /\ n < Head(rd.got) /\ n \in Gone(rd.life)

(* ... nor will it be below what the copied history still holds ...        *)
PlanSound(rd) ==
    rd.at = "plan" =>
        /\ Elements(rd.plan) \subseteq Stored(rd.life)
        /\ ~rd.raw => \A i \in DOMAIN rd.plan : \A m \in Nat :
              rd.seen < m /\ m < rd.plan[i] =>
                 \/ \E j \in DOMAIN rd.plan : j < i /\ rd.plan[j] = m
                 \/ Excused(rd, m)
                 \/ rd.from = Fresh /\ rd.got = <<>> /\ m < rd.plan[1] /\ m \in Gone(rd.life)

(* ... or below what was sent since the subscription.                      *)
QueueSound(rd) ==
    rd.at \in {"copy", "plan", "live"} =>
        /\ Elements(rd.queue) \subseteq Sent(rd.life)
        /\ \A i, j \in DOMAIN rd.queue : i < j =>
              rd.queue[i] < rd.queue[j] \/ rd.queue[j] \in swapped[rd.life]

Handled(rd, n) == IF rd.raw THEN n \in Elements(rd.got) ELSE n <= rd.seen
Missed(rd, n) ==
    IF rd.raw THEN n \in Gone(rd.life)
    ELSE rd.from = Fresh /\ rd.got = <<>> /\ rd.plan # <<>> /\ n < rd.plan[1]

(* What was sent has been handled or is still to come, or is excused, or   *)
(* left the history before the reader came.                                *)
SentReaches(rd) ==
    rd.at \in {"plan", "live"} => \A n \in Sent(rd.life) :
        \/ Handled(rd, n) \/ n \in Elements(rd.plan) \/ n \in Elements(rd.queue)
        \/ Excused(rd, n) \/ rd.lag \/ Missed(rd, n)

(* A stream that is over, or that ends with the history, covers a terminal *)
(* record.                                                                 *)
TerminalCovered(rd) ==
    /\ rd.at = "copy" /\ rd.done => final[rd.life] # {}
    /\ rd.at = "plan" /\ rd.done => \E f \in final[rd.life] : f \in Elements(rd.plan) \/ Covered(rd, f)
    /\ rd.at = "ended" => \E f \in final[rd.life] : Covered(rd, f)

ReaderPlace(rd) ==
    /\ rd.at # "idle" => rd.life \in 1..last
    /\ rd.at \in {"copy", "live"} => rd.plan = <<>>
    /\ rd.at = "copy" => rd.got = <<>> /\ ~rd.told
    /\ rd.at = "idle" => rd.got = <<>> /\ rd.seen = 0 /\ rd.from = Fresh

ReaderSound(rd) ==
    /\ ReaderPlace(rd) /\ NothingYet(rd) /\ Below(rd) /\ PlanSound(rd) /\ QueueSound(rd)
    /\ SentReaches(rd) /\ TerminalCovered(rd)

OutputInv == WritersInv /\ \A r \in Readers : ReaderSound(reader[r])

----------------------------------------------------------------------------
(* Nothing is written and nobody reads.                                    *)
LEMMA InitOutput == OutputInit => OutputInv
<1> SUFFICES ASSUME OutputInit PROVE OutputInv
  BY Zenon
<1> USE OutputAssumption DEF OutputInit
<1>1. NoReader \in ReaderRecords
  BY DEF NoReader, ReaderRecords
<1>2. OutputTypes
  BY <1>1 DEF OutputTypes, WriterStates
<1>3. \A l \in 1..Lives : Unstored(l) = {} /\ Stored(l) = {} /\ Unsent(l) = {} /\ Sent(l) = {}
  BY Zenon DEF Unstored, Stored, Unsent, Sent, Behind
<1>4. NumbersOwned /\ LivesFinish
  BY <1>3 DEF NumbersOwned, LivesFinish
<1>5. \A l \in 1..Lives : LateSwapped(l) /\ HistoryOrdered(l)
  BY <1>3 DEF LateSwapped, HistoryOrdered, Elements, Gone
<1>6. ASSUME NEW r \in Readers PROVE ReaderSound(reader[r])
  BY Zenon DEF NoReader, ReaderSound, ReaderPlace, NothingYet, Below, PlanSound, QueueSound, SentReaches,
         TerminalCovered
<1> QED BY <1>2, <1>4, <1>5, <1>6, Zenon DEF OutputInv, WritersInv

(* Which writer a number is with.                                          *)
LEMMA BehindIs ==
    \A l, at, n : n \in Behind(l, at) <=>
        \E w \in Writers : writer[w].life = l /\ writer[w].at \in at /\ writer[w].seq = n
  BY Zenon DEF Behind

(* The same after a step.                                                  *)
LEMMA BehindIsNext ==
    \A l, at, n : n \in Behind(l, at)' <=>
        \E w \in Writers : writer'[w].life = l /\ writer'[w].at \in at /\ writer'[w].seq = n
  BY Zenon DEF Behind

(* The numbers of a life are naturals above zero, at most its counter; a   *)
(* number is in one place.                                                 *)
LEMMA NumberFacts ==
    ASSUME OutputTypes, NumbersOwned, NEW l \in 1..Lives
    PROVE  /\ next[l] \in Nat
           /\ Unsent(l) \subseteq 1..next[l] /\ Sent(l) \subseteq 1..next[l]
           /\ Unstored(l) \subseteq Unsent(l) /\ Sent(l) \subseteq Stored(l)
           /\ Unstored(l) \cap Stored(l) = {} /\ Unsent(l) \cap Sent(l) = {}
           /\ Unsent(l) \cup Sent(l) = 1..next[l] /\ Unstored(l) \cup Stored(l) = 1..next[l]
<1>1. next[l] \in Nat
  BY Zenon DEF OutputTypes
<1>2. \A w \in Writers : writer[w].life = l => writer[w].seq \in 1..next[l]
  BY DEF NumbersOwned
<1>3. \A w, v \in Writers :
          writer[w].life = l /\ writer[v].life = l /\ writer[w].seq = writer[v].seq => w = v
  BY DEF NumbersOwned
<1>4. \A n \in 1..next[l] : n \in Unsent(l) \cup Sent(l)
  BY Zenon DEF NumbersOwned
<1>5. Unsent(l) \subseteq 1..next[l] /\ Sent(l) \subseteq 1..next[l] /\ Stored(l) \subseteq 1..next[l]
  BY <1>2, Zenon DEF Unsent, Sent, Stored, Behind
<1>6. Unstored(l) \subseteq Unsent(l) /\ Sent(l) \subseteq Stored(l)
  BY Zenon DEF Unsent, Sent, Stored, Unstored, Behind
<1>7. Unstored(l) \cap Stored(l) = {} /\ Unsent(l) \cap Sent(l) = {}
  BY <1>3, BehindIs DEF Unsent, Sent, Stored, Unstored
<1>8. Unsent(l) \subseteq Unstored(l) \cup Stored(l)
  BY BehindIs DEF Unsent, Stored, Unstored
<1> QED BY <1>1, <1>4, <1>5, <1>6, <1>7, <1>8, Zenon

(* A writer that goes on to its next step.                                 *)
LEMMA WriterGoes ==
    ASSUME OutputTypes, NumbersOwned, NEW w \in Writers, NEW a \in WriterStates \ {"idle"},
           writer[w].at \in WriterStates \ {"idle"},
           NEW l \in 1..Lives, l = writer[w].life, NEW n \in Nat, n = writer[w].seq,
           writer'[w].life = l, writer'[w].seq = n, writer'[w].at = a,
           \A v \in Writers : v # w => writer'[v] = writer[v],
           NEW S \in SUBSET (WriterStates \ {"idle"})
    PROVE  /\ \A k \in 1..Lives : k # l => Behind(k, S)' = Behind(k, S)
           /\ a \in S => Behind(l, S)' = Behind(l, S) \cup {n}
           /\ a \notin S => Behind(l, S)' = Behind(l, S) \ {n}
           /\ writer[w].at \in S => n \in Behind(l, S)
           /\ writer[w].at \notin S => n \notin Behind(l, S)
<1>1. /\ writer'[w].life = l /\ writer'[w].seq = n /\ writer'[w].at = a
      /\ \A v \in Writers : v # w => writer'[v] = writer[v]
  BY Zenon
<1>2. l # 0
  BY Zenon DEF NumbersOwned
<1>3. \A v \in Writers : writer[v].life = l /\ writer[v].seq = n => v = w
  BY <1>2, ZenonT(60) DEF NumbersOwned
<1>4. ASSUME NEW k \in 1..Lives, k # l PROVE Behind(k, S)' = Behind(k, S)
  BY <1>1, <1>4, Zenon DEF Behind
<1>5. ASSUME a \in S PROVE Behind(l, S)' = Behind(l, S) \cup {n}
  BY <1>1, <1>5, BehindIs, BehindIsNext
<1>6. ASSUME a \notin S PROVE Behind(l, S)' = Behind(l, S) \ {n}
  BY <1>1, <1>3, <1>6, BehindIs, BehindIsNext
<1>7. /\ writer[w].at \in S => n \in Behind(l, S)
      /\ writer[w].at \notin S => n \notin Behind(l, S)
  BY <1>3, BehindIs
<1> QED BY <1>4, <1>5, <1>6, <1>7, Zenon

(* What a reader relies on only grows.                                     *)
Grows ==
    /\ last <= last' /\ last' \in Nat
    /\ \A l \in 1..Lives :
          /\ swapped[l] \subseteq swapped'[l] /\ final[l] \subseteq final'[l]
          /\ Stored(l) \subseteq Stored(l)' /\ Gone(l) \subseteq Gone(l)'
          /\ Sent(l) \subseteq Sent(l)'

(* Taking the life in the map, or a new one.                               *)
LEMMA LifeTaken ==
    ASSUME OutputTypes, NEW l \in 1..Lives, JobState(l)
    PROVE  /\ life' = l /\ last' = l /\ last \in Nat /\ last <= last' /\ last' \in 0..Lives
           /\ \A k \in 1..last' : k # life' => k \in 1..last /\ k # life
  BY OutputAssumption DEF OutputTypes, JobState

(* A life nothing happens to.                                              *)
LEMMA LifeKept ==
    ASSUME NEW k \in 1..Lives, LateSwapped(k), HistoryOrdered(k),
           history'[k] = history[k], swapped'[k] = swapped[k], Stored(k)' = Stored(k),
           Unstored(k)' = Unstored(k), Unsent(k)' = Unsent(k), Sent(k)' = Sent(k)
    PROVE  LateSwapped(k)' /\ HistoryOrdered(k)' /\ Gone(k)' = Gone(k)
<1>1. Gone(k)' = Gone(k)
  BY Zenon DEF Gone, Elements
<1>2. LateSwapped(k)'
  BY Zenon DEF LateSwapped
<1>3. HistoryOrdered(k)'
  BY <1>1, Zenon DEF HistoryOrdered, Elements
<1> QED BY <1>1, <1>2, <1>3, Zenon

(* record's number is above every other.                                   *)
LEMMA NumberStep ==
    ASSUME WritersInv, NEW w \in Writers, Number(w)
    PROVE  WritersInv' /\ Grows /\ \A l \in 1..Lives : Sent(l)' = Sent(l)
<1> USE OutputAssumption DEF WritersInv
<1>1. PICK l \in 1..Lives :
          /\ JobState(l)
          /\ next' = [next EXCEPT ![l] = @ + 1]
          /\ writer' = [writer EXCEPT ![w] = [at |-> "store", life |-> l, seq |-> next[l] + 1]]
  BY Zenon DEF Number
<1>2. writer[w].at = "idle" /\ UNCHANGED <<history, finished, final, reader, swapped>>
  BY Zenon DEF Number
<1> DEFINE n == next[l] + 1
<1>3. next[l] \in Nat /\ n \in Nat /\ n \in 1..n /\ next'[l] = n /\ n = next[l] + 1
  BY <1>1 DEF OutputTypes
<1>4. \A k \in 1..Lives : k # l => next'[k] = next[k]
  BY <1>1, Zenon DEF OutputTypes
<1>5. /\ writer'[w].life = l /\ writer'[w].seq = n /\ writer'[w].at = "store"
      /\ \A v \in Writers : v # w => writer'[v] = writer[v]
  BY <1>1, Zenon DEF OutputTypes
<1> HIDE DEF n
<1>6. writer[w].life = 0 /\ \A v \in Writers : writer[v].life = l => writer[v].seq \in 1..next[l]
  BY <1>2 DEF NumbersOwned
<1>7. /\ life' = l /\ last' = l /\ last \in Nat /\ last <= last' /\ last' \in 0..Lives
      /\ \A k \in 1..last' : k # life' => k \in 1..last /\ k # life
  BY <1>1, LifeTaken, Zenon
<1>8. ASSUME NEW k \in 1..Lives
      PROVE  /\ Stored(k)' = Stored(k) /\ Sent(k)' = Sent(k)
             /\ k # l => Unstored(k)' = Unstored(k) /\ Unsent(k)' = Unsent(k)
             /\ k = l => Unstored(k)' = Unstored(k) \cup {n} /\ Unsent(k)' = Unsent(k) \cup {n}
  <2>1. Stored(k)' = Stored(k) /\ Sent(k)' = Sent(k)
    BY <1>5, <1>6, <1>2, ZenonT(60) DEF Stored, Sent, Behind
  <2>2. k # l => Unstored(k)' = Unstored(k) /\ Unsent(k)' = Unsent(k)
    BY <1>5, <1>6, <1>2, ZenonT(60) DEF Unstored, Unsent, Behind
  <2>3. k = l => Unstored(k)' = Unstored(k) \cup {n} /\ Unsent(k)' = Unsent(k) \cup {n}
    BY <1>5, <1>6, <1>2 DEF Unstored, Unsent, Behind
  <2> QED BY <2>1, <2>2, <2>3, Zenon
<1>9. OutputTypes'
  <2>1. [at |-> "store", life |-> l, seq |-> n] \in [at : WriterStates, life : 0..Lives, seq : Nat]
    BY <1>3 DEF WriterStates
  <2>2. writer' \in [Writers -> [at : WriterStates, life : 0..Lives, seq : Nat]]
    BY <2>1, <1>1, Zenon DEF OutputTypes, n
  <2>3. next' \in [1..Lives -> Nat]
    BY <1>1, <1>3, Zenon DEF OutputTypes, n
  <2> QED BY <2>2, <2>3, <1>7, <1>2, Zenon DEF OutputTypes
<1>10. NumbersOwned'
  <2>1. \A v \in Writers : writer'[v].at = "idle" <=> writer'[v].life = 0
    BY <1>5 DEF NumbersOwned
  <2>2. \A v \in Writers : writer'[v].life # 0 =>
           writer'[v].life <= last' /\ writer'[v].seq \in 1..next'[writer'[v].life]
    <3> SUFFICES ASSUME NEW v \in Writers, writer'[v].life # 0
                 PROVE  writer'[v].life <= last' /\ writer'[v].seq \in 1..next'[writer'[v].life]
      BY Zenon
    <3>1. CASE v = w
      BY <3>1, <1>5, <1>7, <1>3
    <3>2. CASE v # w
      <4>1. writer[v].life \in 1..Lives /\ writer[v].seq \in Nat /\ writer'[v] = writer[v]
        BY <3>2, <1>5 DEF OutputTypes
      <4>2. writer[v].life <= last /\ writer[v].seq \in 1..next[writer[v].life]
        BY <4>1, Zenon DEF NumbersOwned
      <4>3. next[writer[v].life] \in Nat /\ next[writer[v].life] <= next'[writer[v].life]
        BY <4>1, <1>3, <1>4 DEF OutputTypes
      <4>4. next'[writer[v].life] \in Nat
        BY <4>1, <1>9, Zenon DEF OutputTypes
      <4> QED BY <4>1, <4>2, <4>3, <4>4, <1>7
    <3> QED BY <3>1, <3>2, Zenon
  <2>3. \A u, v \in Writers :
           writer'[u].life # 0 /\ writer'[u].life = writer'[v].life /\ writer'[u].seq = writer'[v].seq
             => u = v
    <3>1. n \notin 1..next[l]
      BY <1>3
    <3>2. \A v \in Writers : v # w => ~(writer'[v].life = l /\ writer'[v].seq = n)
      BY <3>1, <1>5, <1>6, Zenon
    <3> QED BY <3>2, <1>5 DEF NumbersOwned
  <2>4. \A k \in 1..Lives : \A m \in 1..next'[k] : m \in Unsent(k)' \cup Sent(k)'
    BY <1>8, <1>3, <1>4 DEF NumbersOwned
  <2> QED BY <2>1, <2>2, <2>3, <2>4, Zenon DEF NumbersOwned
<1>11. LivesFinish'
  BY <1>8, <1>5, <1>7, <1>2, ZenonT(60) DEF LivesFinish
<1>12. ASSUME NEW k \in 1..Lives PROVE LateSwapped(k)' /\ HistoryOrdered(k)' /\ Gone(k)' = Gone(k)
  <2>1. CASE k # l
    BY <2>1, <1>8, <1>2, LifeKept, Zenon
  <2>2. CASE k = l
    <3>1. Gone(k)' = Gone(k)
      BY <1>8, <1>2, Zenon DEF Gone
    <3>2. HistoryOrdered(k)'
      BY <3>1, <1>8, <1>2, Zenon DEF HistoryOrdered
    <3>3. \A z \in Stored(k) \cup Sent(k) : ~(n < z)
      BY <2>2, <1>3, NumberFacts
    <3>4. LateSwapped(k)'
      BY <2>2, <3>3, <1>8, <1>2 DEF LateSwapped
    <3> QED BY <3>1, <3>2, <3>4, Zenon
  <2> QED BY <2>1, <2>2, Zenon
<1>13. Grows
  BY <1>12, <1>8, <1>7, <1>2 DEF Grows
<1> QED BY <1>9, <1>10, <1>11, <1>12, <1>13, <1>8, Zenon

(* The end of a sequence.                                                  *)
LEMMA SuffixOf ==
    ASSUME NEW h \in Seq(Nat \ {0}), NEW a \in 1..Len(h)
    PROVE  /\ SubSeq(h, a, Len(h)) \in Seq(Nat \ {0})
           /\ Len(SubSeq(h, a, Len(h))) = Len(h) - a + 1
           /\ \A j \in 1..(Len(h) - a + 1) : SubSeq(h, a, Len(h))[j] = h[a + j - 1]
  BY SMTT(40)

(* The history with a record at its end, cut to its bound.                 *)
LEMMA Trimmed ==
    ASSUME NEW h \in Seq(Nat \ {0}), h # <<>>
    PROVE  /\ Trim(h) \in Seq(Nat \ {0}) /\ Trim(h) # <<>>
           /\ \E k \in 0..(Len(h) - 1) :
                 /\ Len(Trim(h)) = Len(h) - k
                 /\ \A j \in 1..Len(Trim(h)) : Trim(h)[j] = h[j + k]
<1> USE OutputAssumption
<1>1. Len(h) \in Nat \ {0}
  OBVIOUS
<1>2. CASE Len(h) > MaxHistory
  <2> DEFINE k == Len(h) - MaxHistory
             a == Len(h) - MaxHistory + 1
             t == SubSeq(h, a, Len(h))
  <2>1. Trim(h) = t
    BY <1>2, Zenon DEF Trim
  <2>2. /\ k \in 0..(Len(h) - 1) /\ a \in 1..Len(h) /\ a = k + 1
        /\ Len(h) - a + 1 = MaxHistory /\ Len(h) - k = MaxHistory
    BY <1>1, <1>2
  <2> HIDE DEF a, k
  <2>3. /\ t \in Seq(Nat \ {0}) /\ Len(t) = Len(h) - a + 1
        /\ \A j \in 1..(Len(h) - a + 1) : t[j] = h[a + j - 1]
    BY <2>2, SuffixOf, Zenon
  <2> HIDE DEF t
  <2>4. Len(t) = Len(h) - k /\ t # <<>>
    BY <2>2, <2>3, Zenon
  <2>5. \A j \in 1..Len(t) : a + j - 1 = j + k /\ j \in 1..(Len(h) - a + 1)
    BY <2>2, <2>3, <1>1
  <2>6. \A j \in 1..Len(t) : t[j] = h[j + k]
    BY <2>3, <2>5, Zenon
  <2> QED BY <2>1, <2>2, <2>3, <2>4, <2>6, Zenon
<1>3. CASE ~(Len(h) > MaxHistory)
  <2>1. Trim(h) = h
    BY <1>3, Zenon DEF Trim
  <2>2. 0 \in 0..(Len(h) - 1) /\ Len(h) = Len(h) - 0 /\ \A j \in 1..Len(h) : h[j] = h[j + 0]
    BY <1>1
  <2> QED BY <2>1, <2>2, Zenon
<1> QED BY <1>2, <1>3, Zenon

(* A history in order, with what it lost below it.                         *)
Arranged(t, l, n) ==
    /\ t \in Seq(Nat \ {0}) /\ t # <<>> /\ n \in Elements(t)
    /\ Elements(t) \subseteq Elements(history[l]) \cup {n}
    /\ \A i, j \in DOMAIN t : i < j => t[i] < t[j] \/ (t[i] \in swapped[l] /\ t[j] \in swapped[l])
    /\ \A m \in Stored(l) \ Elements(t) : m \in swapped[l] \/ \A z \in Elements(t) : m < z

(* The history's order after a record at its end.                          *)
LEMMA TrimmedOrder ==
    ASSUME WritersInv, NEW l \in 1..Lives, NEW n \in Unstored(l)
    PROVE  Arranged(Trim(Append(history[l], n)), l, n)
<1>0. PICK t : t = Trim(Append(history[l], n))
  BY Zenon
<1> SUFFICES Arranged(t, l, n)
  BY <1>0, Zenon
<1> USE OutputAssumption DEF WritersInv
<1> DEFINE g == history[l]
           len == Len(g) + 1
           h == Append(g, n)
<1>1. g \in Seq(Nat \ {0}) /\ len \in Nat \ {0} /\ len = Len(g) + 1
  BY DEF OutputTypes
<1>2. n \in Nat \ {0} /\ n \notin Stored(l) /\ Stored(l) \subseteq Nat
  BY NumberFacts
<1>a. h \in Seq(Nat \ {0}) /\ h # <<>> /\ Len(h) = len /\ h[len] = n /\ \A i \in 1..Len(g) : h[i] = g[i]
  BY <1>1, <1>2
<1>b. t = Trim(h)
  BY <1>0, Zenon
<1>c. /\ \A i \in 1..Len(g) : g[i] \in Stored(l)
      /\ \A i, j \in 1..Len(g) : i < j =>
            g[i] < g[j] \/ (g[i] \in swapped[l] /\ g[j] \in swapped[l])
      /\ \A m \in Stored(l) \ Elements(g) : m \in swapped[l] \/ \A z \in Elements(g) : m < z
  <2>1. \A i \in 1..Len(g) : g[i] \in Stored(l)
    BY <1>1 DEF HistoryOrdered, Elements
  <2>2. \A i, j \in 1..Len(g) : i < j =>
           g[i] < g[j] \/ (g[i] \in swapped[l] /\ g[j] \in swapped[l])
    <3>1. DOMAIN history[l] = 1..Len(g)
      BY <1>1
    <3> QED BY <3>1, Zenon DEF HistoryOrdered
  <2>3. \A m \in Stored(l) \ Elements(g) : m \in swapped[l] \/ \A z \in Elements(g) : m < z
    BY Zenon DEF HistoryOrdered, Gone
  <2> QED BY <2>1, <2>2, <2>3, Zenon
<1> SUFFICES /\ t \in Seq(Nat \ {0}) /\ t # <<>> /\ n \in Elements(t)
             /\ Elements(t) \subseteq Elements(g) \cup {n}
             /\ \A i, j \in DOMAIN t : i < j =>
                   t[i] < t[j] \/ (t[i] \in swapped[l] /\ t[j] \in swapped[l])
             /\ \A m \in Stored(l) \ Elements(t) :
                   m \in swapped[l] \/ \A z \in Elements(t) : m < z
  BY Zenon DEF Arranged
<1> HIDE DEF g, h, len
<1>4. t \in Seq(Nat \ {0}) /\ t # <<>>
  BY <1>a, <1>b, Trimmed, Zenon
<1>d. PICK k \in 0..(Len(h) - 1) :
         /\ Len(Trim(h)) = Len(h) - k
         /\ \A j \in 1..Len(Trim(h)) : Trim(h)[j] = h[j + k]
  BY <1>a, Trimmed, Zenon
<1>3. Len(t) = Len(h) - k /\ \A j \in 1..Len(t) : t[j] = h[j + k]
  BY <1>b, <1>d, Zenon
<1>5. \A i \in 1..Len(g) : h[i] = g[i] /\ g[i] \in Stored(l) /\ g[i] \in Nat /\ g[i] # n
  BY <1>2, <1>a, <1>c, Zenon
<1>6. \A z \in Stored(l) : z < n \/ (n \in swapped[l] /\ z \in swapped[l])
  BY <1>2 DEF LateSwapped
<1>7. \A i, j \in 1..len : i < j =>
         h[i] < h[j] \/ (h[i] \in swapped[l] /\ h[j] \in swapped[l])
  <2> SUFFICES ASSUME NEW i \in 1..len, NEW j \in 1..len, i < j
               PROVE  h[i] < h[j] \/ (h[i] \in swapped[l] /\ h[j] \in swapped[l])
    BY Zenon
  <2>1. i \in 1..Len(g)
    BY <1>1
  <2>2. CASE j = len
    BY <2>1, <2>2, <1>5, <1>6, <1>a, Zenon
  <2>3. CASE j # len
    <3>1. j \in 1..Len(g)
      BY <2>3, <1>1
    <3> QED BY <2>1, <3>1, <1>5, <1>c, Zenon
  <2> QED BY <2>2, <2>3, Zenon
<1>9. \A j \in 1..Len(t) : j + k \in 1..len
  BY <1>1, <1>3, <1>a
<1>10. DOMAIN t = 1..Len(t) /\ DOMAIN g = 1..Len(g)
  BY <1>1, <1>4
<1>8. \A i \in 1..len : h[i] = n \/ \E j \in DOMAIN g : h[i] = g[j]
  <2> SUFFICES ASSUME NEW i \in 1..len, h[i] # n PROVE \E j \in DOMAIN g : h[i] = g[j]
    BY Zenon
  <2>1. i \in 1..Len(g)
    BY <1>1, <1>a
  <2> QED BY <2>1, <1>5, <1>10, Zenon
<1>11. \A i, j \in DOMAIN t : i < j =>
          t[i] < t[j] \/ (t[i] \in swapped[l] /\ t[j] \in swapped[l])
  <2> SUFFICES ASSUME NEW i \in 1..Len(t), NEW j \in 1..Len(t), i < j
               PROVE  t[i] < t[j] \/ (t[i] \in swapped[l] /\ t[j] \in swapped[l])
    BY <1>10, Zenon
  <2>1. i + k < j + k /\ i + k \in 1..len /\ j + k \in 1..len
    BY <1>9, <1>4
  <2> QED BY <2>1, <1>3, <1>7, Zenon
<1>12. n \in Elements(t)
  <2>1. Len(t) \in 1..Len(t) /\ Len(t) + k = len
    BY <1>3, <1>1, <1>a
  <2>2. t[Len(t)] = n
    BY <2>1, <1>3, <1>a, Zenon
  <2> QED BY <2>1, <2>2, <1>10, Zenon DEF Elements
<1>13. Elements(t) \subseteq Elements(g) \cup {n}
  <2>1. \A j \in 1..Len(t) : t[j] = n \/ \E i \in DOMAIN g : t[j] = g[i]
    <3> SUFFICES ASSUME NEW j \in 1..Len(t) PROVE t[j] = n \/ \E i \in DOMAIN g : t[j] = g[i]
      BY Zenon
    <3>1. t[j] = h[j + k] /\ j + k \in 1..len
      BY <1>3, <1>9, Zenon
    <3> QED BY <3>1, <1>8, Zenon
  <2> QED BY <2>1, <1>10, Zenon DEF Elements
<1>14. ASSUME NEW m \in Stored(l) \ Elements(t)
       PROVE  m \in swapped[l] \/ \A z \in Elements(t) : m < z
  <2>1. CASE m \in Elements(g)
    <3>1. PICK i \in 1..Len(g) : m = h[i]
      BY <2>1, <1>5, <1>10, Zenon DEF Elements
    <3>2. i <= k
      <4> SUFFICES ASSUME i > k PROVE FALSE
        BY <3>1
      <4>1. i - k \in 1..Len(t) /\ (i - k) + k = i
        BY <1>3, <1>1, <1>a
      <4>2. t[i - k] = m
        BY <4>1, <1>3, <3>1, Zenon
      <4> QED BY <4>1, <4>2, <1>10, Zenon DEF Elements
    <3>3. \A j \in 1..Len(t) : i \in 1..len /\ j + k \in 1..len /\ i < j + k
      BY <3>1, <3>2, <1>9, <1>1
    <3>4. \A j \in 1..Len(t) : m < t[j] \/ m \in swapped[l]
      BY <3>1, <3>3, <1>3, <1>7, Zenon
    <3> QED BY <3>4, <1>10, Zenon DEF Elements
  <2>2. CASE m \notin Elements(g)
    BY <2>2, <1>c, <1>6, <1>13, Zenon
  <2> QED BY <2>1, <2>2, Zenon
<1> QED BY <1>4, <1>11, <1>12, <1>13, <1>14, Zenon

(* What Swap records.                                                      *)
LEMMA SwapFacts ==
    ASSUME OutputTypes, NEW l \in 1..Lives, NEW n \in Nat, NEW behind \in SUBSET Nat,
           Swap(l, n, behind)
    PROVE  /\ swapped' \in [1..Lives -> SUBSET Nat] /\ swapped[l] \subseteq swapped'[l]
           /\ \A k \in 1..Lives : k # l => swapped'[k] = swapped[k]
           /\ \A m \in behind : m < n => m \in swapped'[l] /\ n \in swapped'[l]
  BY Zenon DEF Swap, OutputTypes

(* Storing: what is late by it is marked, and so the history's order and   *)
(* what it lost stay explained.                                            *)
LEMMA StoreStep ==
    ASSUME WritersInv, NEW w \in Writers, Store(w)
    PROVE  WritersInv' /\ Grows /\ \A l \in 1..Lives : Sent(l)' = Sent(l)
<1> USE OutputAssumption DEF WritersInv
<1>1. writer[w].at = "store" /\ UNCHANGED <<life, last, next, finished, reader>>
  BY Zenon DEF Store
<1>3. PICK l \in 1..Lives, n \in Nat : l = writer[w].life /\ n = writer[w].seq
  <2>1. writer[w].life \in 1..Lives /\ writer[w].seq \in Nat
    BY <1>1 DEF OutputTypes, NumbersOwned
  <2> QED BY <2>1, Zenon
<1>4. PICK a \in {"flag", "send"} : a = IF w \in Finals THEN "flag" ELSE "send"
  BY Zenon
<1> DEFINE t == Trim(Append(history[l], n))
<1>2. /\ history' = [history EXCEPT ![l] = t]
      /\ Swap(l, n, Unstored(l))
      /\ final' = [final EXCEPT ![l] = IF w \in Finals THEN @ \cup {n} ELSE @]
      /\ writer' = [writer EXCEPT ![w].at = a]
  BY <1>3, <1>4, Zenon DEF Store, Unstored, OutputTypes
<1>5. /\ writer'[w].life = l /\ writer'[w].seq = n /\ writer'[w].at = a
      /\ \A v \in Writers : v # w => writer'[v] = writer[v]
  BY <1>2, <1>3, Zenon DEF OutputTypes
<1>t. writer' \in [Writers -> [at : WriterStates, life : 0..Lives, seq : Nat]]
  BY <1>2, <1>4, ZenonT(60) DEF OutputTypes, WriterStates
<1> HIDE DEF t
<1>g. ASSUME NEW S \in SUBSET (WriterStates \ {"idle"})
      PROVE  /\ \A k \in 1..Lives : k # l => Behind(k, S)' = Behind(k, S)
             /\ a \in S => Behind(l, S)' = Behind(l, S) \cup {n}
             /\ a \notin S => Behind(l, S)' = Behind(l, S) \ {n}
             /\ "store" \in S => n \in Behind(l, S)
             /\ "store" \notin S => n \notin Behind(l, S)
  <2>1. writer[w].at \in WriterStates \ {"idle"}
    BY <1>1, Zenon DEF WriterStates
  <2>2. OutputTypes /\ NumbersOwned
    BY Zenon
  <2>o. \A v \in Writers : v # w => writer'[v] = writer[v]
    BY <1>5, Zenon
  <2>3. CASE a = "flag"
    <3>1. writer'[w].life = l /\ writer'[w].seq = n /\ writer'[w].at = "flag"
      BY <1>5, <2>3, Zenon
    <3>2. "flag" \in WriterStates \ {"idle"}
      BY Zenon DEF WriterStates
    <3>3. /\ \A k \in 1..Lives : k # l => Behind(k, S)' = Behind(k, S)
          /\ "flag" \in S => Behind(l, S)' = Behind(l, S) \cup {n}
          /\ "flag" \notin S => Behind(l, S)' = Behind(l, S) \ {n}
          /\ writer[w].at \in S => n \in Behind(l, S)
          /\ writer[w].at \notin S => n \notin Behind(l, S)
      BY <2>1, <2>2, <2>o, <1>3, <3>1, <3>2, WriterGoes, ZenonT(60)
    <3> QED BY <3>3, <2>3, <1>1, Zenon
  <2>4. CASE a = "send"
    <3>1. writer'[w].life = l /\ writer'[w].seq = n /\ writer'[w].at = "send"
      BY <1>5, <2>4, Zenon
    <3>2. "send" \in WriterStates \ {"idle"}
      BY Zenon DEF WriterStates
    <3>3. /\ \A k \in 1..Lives : k # l => Behind(k, S)' = Behind(k, S)
          /\ "send" \in S => Behind(l, S)' = Behind(l, S) \cup {n}
          /\ "send" \notin S => Behind(l, S)' = Behind(l, S) \ {n}
          /\ writer[w].at \in S => n \in Behind(l, S)
          /\ writer[w].at \notin S => n \notin Behind(l, S)
      BY <2>1, <2>2, <2>o, <1>3, <3>1, <3>2, WriterGoes, ZenonT(60)
    <3> QED BY <3>3, <2>4, <1>1, Zenon
  <2> QED BY <2>3, <2>4, <1>4, Zenon
<1>6. /\ Unstored(l)' = Unstored(l) \ {n} /\ n \in Unstored(l)
      /\ Stored(l)' = Stored(l) \cup {n} /\ n \notin Stored(l)
      /\ Unsent(l)' = Unsent(l) /\ Sent(l)' = Sent(l)
  <2>1. Unstored(l)' = Unstored(l) \ {n} /\ n \in Unstored(l)
    BY <1>g, <1>4, Zenon DEF Unstored, WriterStates
  <2>2. Stored(l)' = Stored(l) \cup {n} /\ n \notin Stored(l)
    BY <1>g, <1>4, Zenon DEF Stored, WriterStates
  <2>3. Unsent(l)' = Unsent(l)
    BY <1>g, <1>4, ZenonT(60) DEF Unsent, WriterStates
  <2>4. Sent(l)' = Sent(l)
    BY <1>g, <1>4 DEF Sent, WriterStates
  <2> QED BY <2>1, <2>2, <2>3, <2>4, Zenon
<1>7. \A k \in 1..Lives : k # l =>
         Unstored(k)' = Unstored(k) /\ Stored(k)' = Stored(k) /\ Unsent(k)' = Unsent(k) /\ Sent(k)' = Sent(k)
  BY <1>g, Zenon DEF Unstored, Stored, Unsent, Sent, WriterStates
<1>8. /\ swapped' \in [1..Lives -> SUBSET Nat] /\ swapped[l] \subseteq swapped'[l]
      /\ \A k \in 1..Lives : k # l => swapped'[k] = swapped[k]
      /\ \A m \in Unstored(l) : m < n => m \in swapped'[l] /\ n \in swapped'[l]
  <2>1. Unstored(l) \in SUBSET Nat
    BY <1>3, NumberFacts
  <2> QED BY <2>1, <1>2, <1>3, SwapFacts, Zenon
<1>9. /\ t \in Seq(Nat \ {0}) /\ t # <<>> /\ n \in Elements(t)
      /\ Elements(t) \subseteq Elements(history[l]) \cup {n}
      /\ \A i, j \in DOMAIN t : i < j =>
            t[i] < t[j] \/ (t[i] \in swapped[l] /\ t[j] \in swapped[l])
      /\ \A m \in Stored(l) \ Elements(t) :
            m \in swapped[l] \/ \A z \in Elements(t) : m < z
  <2>1. Arranged(t, l, n)
    BY <1>6, TrimmedOrder, Zenon DEF t
  <2> QED BY <2>1, Zenon DEF Arranged
<1>10. history'[l] = t /\ \A k \in 1..Lives : k # l => history'[k] = history[k]
  BY <1>2, <1>3, Zenon DEF OutputTypes
<1>11. OutputTypes'
  <2>1. history' \in [1..Lives -> Seq(Nat \ {0})]
    BY <1>2, <1>9, Zenon DEF OutputTypes
  <2>2. final' \in [1..Lives -> SUBSET Nat]
    BY <1>2, <1>3, ZenonT(60) DEF OutputTypes
  <2> QED BY <2>1, <2>2, <1>8, <1>t, <1>1, Zenon DEF OutputTypes
<1>12. NumbersOwned'
  <2>1. \A v \in Writers : writer'[v].life = writer[v].life /\ writer'[v].seq = writer[v].seq
    BY <1>3, <1>5, Zenon
  <2>2. \A v \in Writers : writer'[v].at = "idle" <=> writer[v].at = "idle"
    BY <1>5, <1>4, <1>1, Zenon
  <2>3. \A k \in 1..Lives : \A m \in 1..next'[k] : m \in Unsent(k)' \cup Sent(k)'
    BY <1>6, <1>7, <1>1, Zenon DEF NumbersOwned
  <2> QED BY <2>1, <2>2, <2>3, <1>1, ZenonT(60) DEF NumbersOwned
<1>13. \A k \in 1..Lives : final[k] \subseteq final'[k]
  BY <1>2, Zenon DEF OutputTypes
<1>14. LivesFinish'
  <2>1. \A k \in 1..Lives : final'[k] \subseteq Stored(k)'
    BY <1>2, <1>6, <1>7, SMTT(40) DEF LivesFinish, OutputTypes
  <2>2. \A k \in 1..Lives : finished'[k] => final'[k] # {}
    BY <1>13, <1>1, Zenon DEF LivesFinish
  <2>3. \A v \in Writers : writer'[v].at = "flag" => writer'[v].seq \in final'[writer'[v].life]
    <3> SUFFICES ASSUME NEW v \in Writers, writer'[v].at = "flag"
                 PROVE  writer'[v].seq \in final'[writer'[v].life]
      BY Zenon
    <3>1. CASE v = w
      BY <3>1, <1>2, <1>3, <1>4, <1>5 DEF OutputTypes
    <3>2. CASE v # w
      <4>1. writer[v].life \in 1..Lives
        BY <3>2, <1>5 DEF OutputTypes, NumbersOwned
      <4> QED BY <4>1, <3>2, <1>5, <1>13, Zenon DEF LivesFinish
    <3> QED BY <3>1, <3>2, Zenon
  <2> QED BY <2>1, <2>2, <2>3, <1>1, Zenon DEF LivesFinish
<1>15. LateSwapped(l)'
  <2>1. LateSwapped(l)
    BY <1>3, Zenon
  <2>2. \A m \in Unstored(l)', z \in Stored(l)' : m < z => m \in swapped'[l] /\ z \in swapped'[l]
    BY <2>1, <1>6, <1>8, Zenon DEF LateSwapped
  <2>3. \A m \in Unsent(l)', z \in Sent(l)' : m < z => m \in swapped'[l]
    BY <2>1, <1>6, <1>8, Zenon DEF LateSwapped
  <2> QED BY <2>2, <2>3, Zenon DEF LateSwapped
<1>16. HistoryOrdered(l)'
  <2>1. Elements(t) \subseteq Stored(l)'
    BY <1>3, <1>6, <1>9, Zenon DEF HistoryOrdered
  <2>2. Gone(l)' = Stored(l) \ Elements(t)
    BY <1>6, <1>9, <1>10, Zenon DEF Gone
  <2>3. \A i, j \in DOMAIN t : i < j =>
           t[i] < t[j] \/ (t[i] \in swapped'[l] /\ t[j] \in swapped'[l])
    BY <1>8, <1>9, Zenon
  <2>4. \A m \in Gone(l)' : m \in swapped'[l] \/ \A z \in Elements(t) : m < z
    BY <2>2, <1>8, <1>9, Zenon
  <2> QED BY <2>1, <2>3, <2>4, <1>9, <1>10, Zenon DEF HistoryOrdered
<1>17. Gone(l) \subseteq Gone(l)'
  BY <1>6, <1>9, <1>10, Zenon DEF Gone
<1>18. \A k \in 1..Lives : k # l => LateSwapped(k)' /\ HistoryOrdered(k)' /\ Gone(k)' = Gone(k)
  BY <1>7, <1>8, <1>10, LifeKept, Zenon
<1>19. Grows
  <2>1. last <= last' /\ last' \in Nat
    BY <1>1 DEF OutputTypes
  <2>2. ASSUME NEW k \in 1..Lives
        PROVE  /\ swapped[k] \subseteq swapped'[k] /\ final[k] \subseteq final'[k]
               /\ Stored(k) \subseteq Stored(k)' /\ Gone(k) \subseteq Gone(k)' /\ Sent(k) \subseteq Sent(k)'
    <3>1. CASE k = l
      BY <3>1, <1>1, <1>6, <1>8, <1>13, <1>17, Zenon
    <3>2. CASE k # l
      BY <3>2, <1>1, <1>7, <1>8, <1>13, <1>18, Zenon
    <3> QED BY <3>1, <3>2, Zenon
  <2> QED BY <2>1, <2>2, Zenon DEF Grows
<1>20. \A k \in 1..Lives : LateSwapped(k)' /\ HistoryOrdered(k)'
  BY <1>15, <1>16, <1>18, Zenon
<1>21. \A k \in 1..Lives : Sent(k)' = Sent(k)
  BY <1>6, <1>7, Zenon
<1> QED BY <1>11, <1>12, <1>14, <1>19, <1>20, <1>21, Zenon

(* Raising the flag of a stored terminal record.                           *)
LEMMA FlagStep ==
    ASSUME WritersInv, NEW w \in Writers, Flag(w)
    PROVE  WritersInv' /\ Grows /\ \A l \in 1..Lives : Sent(l)' = Sent(l)
<1> USE OutputAssumption DEF WritersInv
<1> DEFINE n == writer[w].seq
           l == writer[w].life
<1>1. writer[w].at = "flag" /\ UNCHANGED <<life, last, next, history, final, reader, swapped>>
  BY Zenon DEF Flag
<1>2. finished' = [finished EXCEPT ![l] = TRUE] /\ writer' = [writer EXCEPT ![w].at = "send"]
  BY Zenon DEF Flag
<1>3. l \in 1..Lives /\ n \in final[l]
  BY <1>1 DEF OutputTypes, NumbersOwned, LivesFinish
<1>5. /\ writer'[w].life = l /\ writer'[w].seq = n /\ writer'[w].at = "send"
      /\ \A v \in Writers : v # w => writer'[v] = writer[v]
  BY <1>2, Zenon DEF OutputTypes
<1>6. \A k \in 1..Lives :
         Unstored(k)' = Unstored(k) /\ Stored(k)' = Stored(k) /\ Unsent(k)' = Unsent(k) /\ Sent(k)' = Sent(k)
  BY <1>1, <1>5 DEF Unstored, Stored, Unsent, Sent, Behind
<1>7. OutputTypes'
  BY <1>1, <1>2, ZenonT(60) DEF OutputTypes, WriterStates
<1>8. NumbersOwned'
  <2>1. \A v \in Writers : writer'[v].life = writer[v].life /\ writer'[v].seq = writer[v].seq
    BY <1>5, Zenon
  <2>2. \A v \in Writers : writer'[v].at = "idle" <=> writer[v].at = "idle"
    BY <1>5, <1>1, Zenon
  <2> QED BY <2>1, <2>2, <1>6, <1>1 DEF NumbersOwned
<1>9. LivesFinish'
  <2>1. \A k \in 1..Lives : finished'[k] => final'[k] # {}
    BY <1>1, <1>2, <1>3, Zenon DEF LivesFinish, OutputTypes
  <2>2. \A k \in 1..last' : k # life' => finished'[k]
    BY <1>1, <1>2 DEF LivesFinish, OutputTypes
  <2>3. \A v \in Writers : writer'[v].at = "flag" => writer'[v].seq \in final'[writer'[v].life]
    BY <1>1, <1>5, Zenon DEF LivesFinish
  <2> QED BY <2>1, <2>2, <2>3, <1>1, <1>6, Zenon DEF LivesFinish
<1>10. \A k \in 1..Lives : LateSwapped(k)' /\ HistoryOrdered(k)' /\ Gone(k)' = Gone(k)
  BY <1>1, <1>6, LifeKept, Zenon
<1>11. Grows
  BY <1>1, <1>6, <1>10 DEF Grows, OutputTypes
<1> QED BY <1>7, <1>8, <1>9, <1>10, <1>11, <1>6, Zenon

(* A receiver's buffer after a record.                                     *)
LEMMA PushFacts ==
    ASSUME NEW rd \in ReaderRecords, NEW n \in Nat \ {0}
    PROVE  /\ Push(rd, n) \in ReaderRecords
           /\ Push(rd, n).at = rd.at /\ Push(rd, n).life = rd.life /\ Push(rd, n).raw = rd.raw
           /\ Push(rd, n).from = rd.from /\ Push(rd, n).seen = rd.seen /\ Push(rd, n).done = rd.done
           /\ Push(rd, n).plan = rd.plan /\ Push(rd, n).told = rd.told /\ Push(rd, n).got = rd.got
           /\ \/ Push(rd, n).lag = rd.lag /\ Push(rd, n).queue = Append(rd.queue, n)
              \/ Push(rd, n).lag = TRUE /\ rd.queue # <<>> /\ Push(rd, n).queue = Append(Tail(rd.queue), n)
<1> USE OutputAssumption
<1>1. rd.queue \in Seq(Nat \ {0})
  BY Zenon DEF ReaderRecords
<1>2. CASE Len(rd.queue) = Capacity
  <2> DEFINE q == Append(Tail(rd.queue), n)
  <2>1. rd.queue # <<>> /\ q \in Seq(Nat \ {0})
    BY <1>1, <1>2
  <2>2. Push(rd, n) = [rd EXCEPT !.queue = q, !.lag = TRUE]
    BY <1>2, Zenon DEF Push, ReaderRecords
  <2> HIDE DEF q
  <2>3. Push(rd, n) \in ReaderRecords
    BY <2>1, <2>2, Zenon DEF ReaderRecords
  <2>4. /\ Push(rd, n).at = rd.at /\ Push(rd, n).life = rd.life /\ Push(rd, n).raw = rd.raw
        /\ Push(rd, n).from = rd.from /\ Push(rd, n).seen = rd.seen /\ Push(rd, n).done = rd.done
        /\ Push(rd, n).plan = rd.plan /\ Push(rd, n).told = rd.told /\ Push(rd, n).got = rd.got
        /\ Push(rd, n).lag = TRUE /\ Push(rd, n).queue = q
    BY <2>2, Zenon DEF ReaderRecords
  <2> QED BY <2>1, <2>3, <2>4, Zenon DEF q
<1>3. CASE Len(rd.queue) # Capacity
  <2> DEFINE q == Append(rd.queue, n)
  <2>1. q \in Seq(Nat \ {0})
    BY <1>1
  <2>2. Push(rd, n) = [rd EXCEPT !.queue = q]
    BY <1>3, Zenon DEF Push, ReaderRecords
  <2> HIDE DEF q
  <2>3. Push(rd, n) \in ReaderRecords
    BY <2>1, <2>2, Zenon DEF ReaderRecords
  <2>4. /\ Push(rd, n).at = rd.at /\ Push(rd, n).life = rd.life /\ Push(rd, n).raw = rd.raw
        /\ Push(rd, n).from = rd.from /\ Push(rd, n).seen = rd.seen /\ Push(rd, n).done = rd.done
        /\ Push(rd, n).plan = rd.plan /\ Push(rd, n).told = rd.told /\ Push(rd, n).got = rd.got
        /\ Push(rd, n).lag = rd.lag /\ Push(rd, n).queue = q
    BY <2>2, Zenon DEF ReaderRecords
  <2> QED BY <2>3, <2>4, Zenon DEF q
<1> QED BY <1>2, <1>3, Zenon

(* Sending: the writers.                                                   *)
LEMMA SendWriters ==
    ASSUME WritersInv, NEW w \in Writers, Send(w)
    PROVE  /\ WritersInv' /\ Grows
           /\ \E l \in 1..Lives, n \in Nat \ {0} :
                 /\ l = writer[w].life /\ n = writer[w].seq
                 /\ n \in Unsent(l) /\ n \notin Sent(l) /\ Sent(l)' = Sent(l) \cup {n}
                 /\ \A k \in 1..Lives : k # l => Sent(k)' = Sent(k)
<1> USE OutputAssumption DEF WritersInv
<1>1. writer[w].at = "send" /\ UNCHANGED <<life, last, next, history, finished, final>>
  BY Zenon DEF Send
<1>3. PICK l \in 1..Lives, n \in Nat \ {0} : l = writer[w].life /\ n = writer[w].seq
  <2>1. writer[w].life \in 1..Lives /\ writer[w].seq \in Nat \ {0}
    BY <1>1 DEF OutputTypes, NumbersOwned
  <2> QED BY <2>1, Zenon
<1>2. /\ Swap(l, n, Unsent(l)) /\ writer' = [writer EXCEPT ![w].at = "over"]
      /\ reader' = [r \in Readers |-> IF Subscribed(r, l) THEN Push(reader[r], n) ELSE reader[r]]
  BY <1>3, Zenon DEF Send, Unsent
<1>5. /\ writer'[w].life = l /\ writer'[w].seq = n /\ writer'[w].at = "over"
      /\ \A v \in Writers : v # w => writer'[v] = writer[v]
  BY <1>2, <1>3, Zenon DEF OutputTypes
<1>g. ASSUME NEW S \in SUBSET (WriterStates \ {"idle"})
      PROVE  /\ \A k \in 1..Lives : k # l => Behind(k, S)' = Behind(k, S)
             /\ "over" \in S => Behind(l, S)' = Behind(l, S) \cup {n}
             /\ "over" \notin S => Behind(l, S)' = Behind(l, S) \ {n}
             /\ "send" \in S => n \in Behind(l, S)
             /\ "send" \notin S => n \notin Behind(l, S)
  <2>1. writer[w].at \in WriterStates \ {"idle"} /\ "over" \in WriterStates \ {"idle"}
    BY <1>1, Zenon DEF WriterStates
  <2>2. OutputTypes /\ NumbersOwned
    BY Zenon
  <2>3. /\ \A k \in 1..Lives : k # l => Behind(k, S)' = Behind(k, S)
        /\ "over" \in S => Behind(l, S)' = Behind(l, S) \cup {n}
        /\ "over" \notin S => Behind(l, S)' = Behind(l, S) \ {n}
        /\ writer[w].at \in S => n \in Behind(l, S)
        /\ writer[w].at \notin S => n \notin Behind(l, S)
    BY <2>1, <2>2, <1>3, <1>5, WriterGoes, Zenon
  <2> QED BY <2>3, <1>1, Zenon
<1>r. \A r \in Readers : reader[r] \in ReaderRecords
  BY Zenon DEF OutputTypes
<1>w. WritersInv
  BY Zenon
<1>ww. writer' \in [Writers -> [at : WriterStates, life : 0..Lives, seq : Nat]]
  BY <1>2, ZenonT(60) DEF OutputTypes, WriterStates
<1>rr. reader' \in [Readers -> ReaderRecords]
  BY <1>2, <1>3, <1>r, PushFacts, Zenon
<1>v. /\ \A v \in Writers : writer'[v].life = writer[v].life /\ writer'[v].seq = writer[v].seq
      /\ \A v \in Writers : writer'[v].at = "idle" <=> writer[v].at = "idle"
      /\ \A v \in Writers : writer'[v].at = "flag" => writer'[v] = writer[v]
  BY <1>3, <1>5, <1>1, Zenon
<1>6. /\ Unstored(l)' = Unstored(l) /\ Stored(l)' = Stored(l)
      /\ Unsent(l)' = Unsent(l) \ {n} /\ n \in Unsent(l)
      /\ Sent(l)' = Sent(l) \cup {n} /\ n \notin Sent(l)
  <2>1. Unstored(l)' = Unstored(l)
    BY <1>g DEF Unstored, WriterStates
  <2>2. Stored(l)' = Stored(l)
    BY <1>g, Zenon DEF Stored, WriterStates
  <2>3. Unsent(l)' = Unsent(l) \ {n} /\ n \in Unsent(l)
    BY <1>g, Zenon DEF Unsent, WriterStates
  <2>4. Sent(l)' = Sent(l) \cup {n} /\ n \notin Sent(l)
    BY <1>g, Zenon DEF Sent, WriterStates
  <2> QED BY <2>1, <2>2, <2>3, <2>4, Zenon
<1>7. \A k \in 1..Lives : k # l =>
         Unstored(k)' = Unstored(k) /\ Stored(k)' = Stored(k) /\ Unsent(k)' = Unsent(k) /\ Sent(k)' = Sent(k)
  BY <1>g, Zenon DEF Unstored, Stored, Unsent, Sent, WriterStates
<1>8. /\ swapped' \in [1..Lives -> SUBSET Nat] /\ swapped[l] \subseteq swapped'[l]
      /\ \A k \in 1..Lives : k # l => swapped'[k] = swapped[k]
      /\ \A m \in Unsent(l) : m < n => m \in swapped'[l] /\ n \in swapped'[l]
  <2>1. Unsent(l) \in SUBSET Nat
    BY <1>3, NumberFacts
  <2> QED BY <2>1, <1>2, <1>3, SwapFacts, Zenon
<1>9. OutputTypes'
  BY <1>1, <1>8, <1>ww, <1>rr, Zenon DEF OutputTypes
<1>10. NumbersOwned'
  <2>1. \A k \in 1..Lives : \A m \in 1..next'[k] : m \in Unsent(k)' \cup Sent(k)'
    BY <1>6, <1>7, <1>1, Zenon DEF NumbersOwned
  <2> QED BY <2>1, <1>v, <1>1 DEF NumbersOwned
<1>11. LivesFinish'
  BY <1>1, <1>v, <1>6, <1>7, ZenonT(60) DEF LivesFinish
<1>12. LateSwapped(l)'
  <2>1. LateSwapped(l)
    BY <1>3, Zenon
  <2>2. \A m \in Unstored(l)', z \in Stored(l)' : m < z => m \in swapped'[l] /\ z \in swapped'[l]
    BY <2>1, <1>6, <1>8, Zenon DEF LateSwapped
  <2>3. \A m \in Unsent(l)', z \in Sent(l)' : m < z => m \in swapped'[l]
    BY <2>1, <1>6, <1>8, Zenon DEF LateSwapped
  <2> QED BY <2>2, <2>3, Zenon DEF LateSwapped
<1>13. Gone(l)' = Gone(l)
  BY <1>1, <1>6, Zenon DEF Gone
<1>14. HistoryOrdered(l)'
  BY <1>1, <1>3, <1>6, <1>8, <1>13 DEF HistoryOrdered
<1>15. \A k \in 1..Lives : k # l => LateSwapped(k)' /\ HistoryOrdered(k)' /\ Gone(k)' = Gone(k)
  BY <1>1, <1>7, <1>8, LifeKept, Zenon
<1>16. Grows
  <2>1. last <= last' /\ last' \in Nat
    BY <1>1 DEF OutputTypes
  <2>2. ASSUME NEW k \in 1..Lives
        PROVE  /\ swapped[k] \subseteq swapped'[k] /\ final[k] \subseteq final'[k]
               /\ Stored(k) \subseteq Stored(k)' /\ Gone(k) \subseteq Gone(k)' /\ Sent(k) \subseteq Sent(k)'
    <3>1. CASE k = l
      BY <3>1, <1>1, <1>6, <1>8, <1>13, Zenon
    <3>2. CASE k # l
      BY <3>2, <1>1, <1>7, <1>8, <1>15, Zenon
    <3> QED BY <3>1, <3>2, Zenon
  <2> QED BY <2>1, <2>2, Zenon DEF Grows
<1>17. \A k \in 1..Lives : LateSwapped(k)' /\ HistoryOrdered(k)'
  BY <1>12, <1>14, <1>15, Zenon
<1>18. WritersInv'
  BY <1>9, <1>10, <1>11, <1>17, Zenon
<1> QED BY <1>3, <1>16, <1>18, <1>6, <1>7, Zenon

----------------------------------------------------------------------------
(* What a reader was promised stays true while the stream goes on, but for *)
(* what is newly sent.                                                     *)
LEMMA PromisesStay ==
    ASSUME Grows, last' \in 0..Lives, last \in Nat, NEW rd \in ReaderRecords, NEW qd \in ReaderRecords,
           ReaderSound(rd),
           qd.at = rd.at, qd.life = rd.life, qd.raw = rd.raw, qd.from = rd.from, qd.seen = rd.seen,
           qd.done = rd.done, qd.plan = rd.plan, qd.told = rd.told, qd.got = rd.got
    PROVE  /\ ReaderPlace(qd)' /\ NothingYet(qd)' /\ Below(qd)' /\ PlanSound(qd)' /\ TerminalCovered(qd)'
           /\ rd.at # "idle" => rd.life \in 1..Lives
<1> USE OutputAssumption DEF ReaderSound
<1>1. ReaderPlace(qd)' /\ NothingYet(qd)'
  BY DEF ReaderPlace, NothingYet, Grows
<1>2. CASE rd.at = "idle"
  BY <1>1, <1>2, Zenon DEF ReaderPlace, Below, PlanSound, TerminalCovered
<1>3. CASE rd.at # "idle"
  <2> DEFINE l == rd.life
  <2>1. l \in 1..Lives
    BY <1>3 DEF ReaderPlace, Grows
  <2>2. /\ swapped[l] \subseteq swapped'[l] /\ final[l] \subseteq final'[l]
        /\ Stored(l) \subseteq Stored(l)' /\ Gone(l) \subseteq Gone(l)'
    BY <2>1, Zenon DEF Grows
  <2>3. \A m : Excused(rd, m) => Excused(qd, m)'
    BY <2>2, Zenon DEF Excused
  <2>4. \A m : Covered(rd, m) => Covered(qd, m)'
    BY <2>2, <2>3, Zenon DEF Covered
  <2>5. Below(qd)'
    BY <2>2, <2>3, Zenon DEF Below
  <2>6. PlanSound(qd)'
    BY <2>2, <2>3, ZenonT(60) DEF PlanSound
  <2>7. TerminalCovered(qd)'
    BY <2>2, <2>4, Zenon DEF TerminalCovered
  <2> QED BY <1>1, <2>1, <2>5, <2>6, <2>7, Zenon
<1> QED BY <1>2, <1>3, Zenon

(* A reader nothing is sent to keeps what it was promised.                 *)
LEMMA ReaderKept ==
    ASSUME Grows, last' \in 0..Lives, last \in Nat, NEW rd \in ReaderRecords, ReaderSound(rd),
           rd.at \in {"copy", "plan", "live"} => Sent(rd.life)' = Sent(rd.life)
    PROVE  ReaderSound(rd)'
<1> USE DEF ReaderSound
<1>1. /\ ReaderPlace(rd)' /\ NothingYet(rd)' /\ Below(rd)' /\ PlanSound(rd)' /\ TerminalCovered(rd)'
      /\ rd.at # "idle" => rd.life \in 1..Lives
  BY PromisesStay, Zenon
<1>2. rd.at # "idle" => swapped[rd.life] \subseteq swapped'[rd.life] /\ Gone(rd.life) \subseteq Gone(rd.life)'
  BY <1>1, Zenon DEF Grows
<1>3. QueueSound(rd)'
  BY <1>2, Zenon DEF QueueSound
<1>4. SentReaches(rd)'
  <2>1. \A m : rd.at # "idle" /\ Excused(rd, m) => Excused(rd, m)'
    BY <1>2, Zenon DEF Excused
  <2>2. \A m : rd.at # "idle" /\ Missed(rd, m) => Missed(rd, m)'
    BY <1>2, Zenon DEF Missed
  <2>3. \A m : Handled(rd, m) => Handled(rd, m)'
    BY Zenon DEF Handled
  <2> QED BY <2>1, <2>2, <2>3, Zenon DEF SentReaches
<1> QED BY <1>1, <1>3, <1>4, Zenon

(* The list without its first item.                                        *)
LEMMA HeadAndTail ==
    ASSUME NEW s \in Seq(Nat \ {0}), s # <<>>
    PROVE  /\ Head(s) \in Nat \ {0} /\ Tail(s) \in Seq(Nat \ {0}) /\ Head(s) = s[1]
           /\ Elements(s) = {Head(s)} \cup Elements(Tail(s))
           /\ \A i \in DOMAIN Tail(s) : i + 1 \in DOMAIN s /\ Tail(s)[i] = s[i + 1]
           /\ \A j \in DOMAIN s : j = 1 \/ (j - 1 \in DOMAIN Tail(s) /\ s[j] = Tail(s)[j - 1])
           /\ 1 \in DOMAIN s /\ DOMAIN s \subseteq Nat \ {0} /\ DOMAIN Tail(s) \subseteq Nat \ {0}
<1>0. PICK t : t = Tail(s)
  BY Zenon
<1>1. /\ Head(s) \in Nat \ {0} /\ t \in Seq(Nat \ {0}) /\ Head(s) = s[1] /\ Len(s) \in Nat \ {0}
      /\ DOMAIN s = 1..Len(s) /\ DOMAIN t = 1..(Len(s) - 1)
      /\ \A i \in 1..(Len(s) - 1) : t[i] = s[i + 1]
  BY <1>0
<1>2. \A i \in DOMAIN t : i + 1 \in DOMAIN s /\ t[i] = s[i + 1]
  BY <1>1
<1>3. \A j \in DOMAIN s : j = 1 \/ (j - 1 \in DOMAIN t /\ s[j] = t[j - 1])
  <2> SUFFICES ASSUME NEW j \in DOMAIN s, j # 1 PROVE j - 1 \in DOMAIN t /\ s[j] = t[j - 1]
    BY Zenon
  <2>1. j - 1 \in 1..(Len(s) - 1) /\ (j - 1) + 1 = j
    BY <1>1
  <2> QED BY <2>1, <1>1, Zenon
<1>4. 1 \in DOMAIN s /\ DOMAIN s \subseteq Nat \ {0} /\ DOMAIN t \subseteq Nat \ {0}
  BY <1>1
<1>5. Elements(s) \subseteq {s[1]} \cup Elements(t)
  BY <1>3 DEF Elements
<1>6. {s[1]} \cup Elements(t) \subseteq Elements(s)
  BY <1>2, <1>4, Zenon DEF Elements
<1> QED BY <1>0, <1>1, <1>2, <1>3, <1>4, <1>5, <1>6, Zenon

(* The list with one more.                                                 *)
LEMMA OneMore ==
    ASSUME NEW s \in Seq(Nat \ {0}), NEW n \in Nat \ {0}
    PROVE  /\ DOMAIN s \subseteq Nat \ {0} /\ DOMAIN Append(s, n) \subseteq Nat \ {0}
           /\ Elements(Append(s, n)) = Elements(s) \cup {n}
           /\ \A j \in DOMAIN Append(s, n) :
                 \/ j \in DOMAIN s /\ Append(s, n)[j] = s[j]
                 \/ Append(s, n)[j] = n /\ \A i \in DOMAIN s : i < j
           /\ \A i, j \in DOMAIN Append(s, n) : i < j => i \in DOMAIN s
<1>0. PICK t : t = Append(s, n)
  BY Zenon
<1>1. /\ Len(s) \in Nat /\ DOMAIN s = 1..Len(s) /\ DOMAIN t = 1..(Len(s) + 1)
      /\ t[Len(s) + 1] = n /\ \A i \in 1..Len(s) : t[i] = s[i]
  BY <1>0
<1>2. \A j \in DOMAIN t : (j \in DOMAIN s /\ t[j] = s[j]) \/ (t[j] = n /\ \A i \in DOMAIN s : i < j)
  BY <1>1
<1>3. \A i, j \in DOMAIN t : i < j => i \in DOMAIN s
  BY <1>1
<1>4. DOMAIN s \subseteq Nat \ {0} /\ DOMAIN t \subseteq Nat \ {0}
  BY <1>1
<1>5. Elements(t) \subseteq Elements(s) \cup {n}
  BY <1>2, Zenon DEF Elements
<1>6. Elements(s) \cup {n} \subseteq Elements(t)
  <2>1. Len(s) + 1 \in DOMAIN t /\ t[Len(s) + 1] = n
    BY <1>1
  <2>2. \A i \in DOMAIN s : i \in DOMAIN t /\ t[i] = s[i]
    BY <1>1
  <2> QED BY <2>1, <2>2, Zenon DEF Elements
<1> QED BY <1>0, <1>2, <1>3, <1>4, <1>5, <1>6, Zenon

(* A sent record reaches the buffer of every reader subscribed, in order   *)
(* unless it changed places.                                               *)
LEMMA PushSound ==
    ASSUME Grows, last' \in 0..Lives, last \in Nat, NEW rd \in ReaderRecords, ReaderSound(rd),
           rd.at \in {"copy", "plan", "live"}, NEW n \in Nat \ {0},
           Sent(rd.life)' = Sent(rd.life) \cup {n},
           \A z \in Sent(rd.life) : z < n \/ n \in swapped[rd.life]
    PROVE  ReaderSound(Push(rd, n))'
<1> USE DEF ReaderSound
<1> DEFINE qd == Push(rd, n)
           l == rd.life
<1>1. /\ qd \in ReaderRecords
      /\ qd.at = rd.at /\ qd.life = l /\ qd.raw = rd.raw /\ qd.from = rd.from /\ qd.seen = rd.seen
      /\ qd.done = rd.done /\ qd.plan = rd.plan /\ qd.told = rd.told /\ qd.got = rd.got
      /\ \/ qd.lag = rd.lag /\ qd.queue = Append(rd.queue, n)
         \/ qd.lag = TRUE /\ rd.queue # <<>> /\ qd.queue = Append(Tail(rd.queue), n)
  BY PushFacts, ZenonT(60)
<1>q. rd.queue \in Seq(Nat \ {0}) /\ rd.queue \in Seq(Nat)
  BY DEF ReaderRecords
<1> SUFFICES ReaderSound(qd)'
  BY Zenon
<1> HIDE DEF qd
<1>2. /\ ReaderPlace(qd)' /\ NothingYet(qd)' /\ Below(qd)' /\ PlanSound(qd)' /\ TerminalCovered(qd)'
      /\ l \in 1..Lives
  BY <1>1, PromisesStay, Zenon
<1>3. swapped[l] \subseteq swapped'[l] /\ Gone(l) \subseteq Gone(l)' /\ Sent(l) \subseteq Sent(l)'
  BY <1>2, Zenon DEF Grows
<1>4. /\ Elements(qd.queue) \subseteq Elements(rd.queue) \cup {n} /\ n \in Elements(qd.queue)
      /\ qd.lag \/ Elements(rd.queue) \subseteq Elements(qd.queue)
      /\ rd.lag => qd.lag
  <2>1. CASE qd.lag = rd.lag /\ qd.queue = Append(rd.queue, n)
    BY <2>1, <1>q, OneMore
  <2>2. CASE qd.lag = TRUE /\ rd.queue # <<>> /\ qd.queue = Append(Tail(rd.queue), n)
    <3>1. /\ Tail(rd.queue) \in Seq(Nat \ {0})
          /\ Elements(rd.queue) = {Head(rd.queue)} \cup Elements(Tail(rd.queue))
      BY <2>2, <1>q, HeadAndTail, Zenon
    <3>2. Elements(qd.queue) = Elements(Tail(rd.queue)) \cup {n}
      BY <2>2, <3>1, OneMore, Zenon
    <3> QED BY <2>2, <3>1, <3>2, Zenon
  <2> QED BY <1>1, <2>1, <2>2, Zenon
<1>5. \A i, j \in DOMAIN qd.queue : i < j =>
         \/ qd.queue[j] = n /\ qd.queue[i] \in Elements(rd.queue)
         \/ \E a, b \in DOMAIN rd.queue : a < b /\ qd.queue[i] = rd.queue[a] /\ qd.queue[j] = rd.queue[b]
  <2>0. PICK q, s : q = rd.queue /\ s = qd.queue
    BY Zenon
  <2> SUFFICES ASSUME NEW i \in DOMAIN s, NEW j \in DOMAIN s, i < j
               PROVE  \/ s[j] = n /\ s[i] \in Elements(q)
                      \/ \E a, b \in DOMAIN q : a < b /\ s[i] = q[a] /\ s[j] = q[b]
    BY <2>0
  <2>1. CASE s = Append(q, n)
    <3>1. /\ i \in DOMAIN q /\ s[i] = q[i]
          /\ (j \in DOMAIN q /\ s[j] = q[j]) \/ s[j] = n
      BY <2>0, <2>1, <1>q, OneMore
    <3> QED BY <3>1, Zenon DEF Elements
  <2>2. CASE q # <<>> /\ s = Append(Tail(q), n)
    <3>0. PICK u \in Seq(Nat \ {0}) : u = Tail(q)
      BY <2>0, <2>2, <1>q, HeadAndTail, Zenon
    <3>1. /\ i \in DOMAIN u /\ s[i] = u[i]
          /\ (j \in DOMAIN u /\ s[j] = u[j]) \/ s[j] = n
          /\ DOMAIN u \subseteq Nat
      BY <2>2, <3>0, OneMore
    <3>2. \A k \in DOMAIN u : k + 1 \in DOMAIN q /\ u[k] = q[k + 1]
      BY <2>0, <2>2, <3>0, <1>q, HeadAndTail, ZenonT(60)
    <3>3. i + 1 \in DOMAIN q /\ s[i] = q[i + 1]
      BY <3>1, <3>2, Zenon
    <3>4. CASE s[j] = n
      BY <3>3, <3>4, Zenon DEF Elements
    <3>5. CASE j \in DOMAIN u /\ s[j] = u[j]
      <4>1. j + 1 \in DOMAIN q /\ s[j] = q[j + 1] /\ i + 1 < j + 1
        BY <3>1, <3>2, <3>5
      <4> QED BY <4>1, <3>3, Zenon
    <3> QED BY <3>1, <3>4, <3>5, Zenon
  <2> QED BY <2>0, <1>1, <2>1, <2>2, Zenon
<1>6. QueueSound(qd)'
  <2>1. /\ Elements(rd.queue) \subseteq Sent(l)
        /\ \A a, b \in DOMAIN rd.queue : a < b => rd.queue[a] < rd.queue[b] \/ rd.queue[b] \in swapped[l]
    BY Zenon DEF QueueSound
  <2>2. Elements(qd.queue) \subseteq Sent(l)'
    BY <2>1, <1>4, Zenon
  <2>3. \A i, j \in DOMAIN qd.queue : i < j =>
           qd.queue[i] < qd.queue[j] \/ qd.queue[j] \in swapped'[l]
    BY <2>1, <1>5, <1>3
  <2> QED BY <2>2, <2>3, <1>1, Zenon DEF QueueSound
<1>7. SentReaches(qd)'
  <2> SUFFICES ASSUME qd.at \in {"plan", "live"}, NEW m \in Sent(l)'
               PROVE  \/ Handled(qd, m) \/ m \in Elements(qd.plan) \/ m \in Elements(qd.queue)
                      \/ Excused(qd, m)' \/ qd.lag \/ Missed(qd, m)'
    BY <1>1, Zenon DEF SentReaches, Handled
  <2>1. CASE m = n
    BY <2>1, <1>4, Zenon
  <2>2. CASE m # n
    <3>1. \/ Handled(rd, m) \/ m \in Elements(rd.plan) \/ m \in Elements(rd.queue)
          \/ Excused(rd, m) \/ rd.lag \/ Missed(rd, m)
      BY <2>2, <1>1, Zenon DEF SentReaches
    <3>2. Handled(rd, m) => Handled(qd, m)
      BY <1>1, Zenon DEF Handled
    <3>3. Excused(rd, m) => Excused(qd, m)'
      BY <1>1, <1>3, Zenon DEF Excused
    <3>4. Missed(rd, m) => Missed(qd, m)'
      BY <1>1, <1>3, Zenon DEF Missed
    <3> QED BY <3>1, <3>2, <3>3, <3>4, <1>1, <1>4, Zenon
  <2> QED BY <2>1, <2>2, Zenon
<1> QED BY <1>2, <1>6, <1>7, Zenon

(* Every step of a writer keeps the invariant.                             *)
LEMMA WriterStep ==
    ASSUME OutputInv, NEW w \in Writers, Number(w) \/ Store(w) \/ Flag(w) \/ Send(w)
    PROVE  OutputInv'
<1> USE OutputAssumption DEF OutputInv
<1>1. ASSUME Number(w) \/ Store(w) \/ Flag(w)
      PROVE  WritersInv' /\ Grows /\ (\A l \in 1..Lives : Sent(l)' = Sent(l)) /\ reader' = reader
  <2>1. reader' = reader
    BY <1>1, Zenon DEF Number, Store, Flag
  <2> QED BY <2>1, <1>1, NumberStep, StoreStep, FlagStep, Zenon
<1>2. \A r \in Readers : reader[r] \in ReaderRecords /\ ReaderSound(reader[r])
  BY Zenon DEF WritersInv, OutputTypes
<1>3. last \in Nat /\ (WritersInv' => last' \in 0..Lives)
  BY DEF WritersInv, OutputTypes
<1>4. \A r \in Readers : reader[r].at # "idle" => reader[r].life \in 1..Lives
  BY <1>2 DEF WritersInv, OutputTypes, ReaderSound, ReaderPlace
<1>5. CASE Number(w) \/ Store(w) \/ Flag(w)
  <2>1. ASSUME NEW r \in Readers PROVE ReaderSound(reader[r])'
    <3>1. PICK rd : rd = reader[r]
      BY Zenon
    <3>2. rd.at \in {"copy", "plan", "live"} => Sent(rd.life)' = Sent(rd.life)
      BY <3>1, <1>1, <1>4, <1>5, Zenon
    <3>3. rd \in ReaderRecords /\ ReaderSound(rd) /\ Grows /\ last' \in 0..Lives /\ last \in Nat
      BY <3>1, <1>1, <1>2, <1>3, <1>5, Zenon
    <3>4. ReaderSound(rd)'
      BY <3>2, <3>3, ReaderKept, Zenon
    <3> QED BY <3>1, <3>4, <1>1, <1>5, Zenon
  <2> QED BY <2>1, <1>1, <1>5, Zenon
<1>6. CASE Send(w)
  <2>0. PICK l \in 1..Lives, n \in Nat \ {0} :
           /\ l = writer[w].life /\ n = writer[w].seq
           /\ n \in Unsent(l) /\ n \notin Sent(l) /\ Sent(l)' = Sent(l) \cup {n}
           /\ \A k \in 1..Lives : k # l => Sent(k)' = Sent(k)
    BY <1>6, SendWriters, Zenon
  <2>1. WritersInv' /\ Grows
    BY <1>6, SendWriters, Zenon
  <2>2. \A z \in Sent(l) : z < n \/ n \in swapped[l]
    <3>1. Sent(l) \subseteq Nat
      BY <2>0, NumberFacts DEF WritersInv
    <3> QED BY <2>0, <3>1 DEF WritersInv, LateSwapped
  <2>3. ASSUME NEW r \in Readers PROVE ReaderSound(reader[r])'
    <3>1. PICK rd : rd = reader[r]
      BY Zenon
    <3>2. rd \in ReaderRecords /\ ReaderSound(rd) /\ last' \in 0..Lives /\ last \in Nat
      BY <3>1, <2>1, <1>2, <1>3, Zenon
    <3>3. CASE Subscribed(r, l)
      <4>1. rd.life = l /\ rd.at \in {"copy", "plan", "live"} /\ reader'[r] = Push(rd, n)
        BY <2>0, <3>1, <3>3, <1>6, Zenon DEF Subscribed, Send
      <4>2. ReaderSound(Push(rd, n))'
        BY <4>1, <3>2, <2>0, <2>1, <2>2, PushSound, Zenon
      <4> QED BY <4>1, <4>2, Zenon
    <3>4. CASE ~Subscribed(r, l)
      <4>1. reader'[r] = rd
        BY <2>0, <3>1, <3>4, <1>6, Zenon DEF Send
      <4>2. rd.at \in {"copy", "plan", "live"} => Sent(rd.life)' = Sent(rd.life)
        BY <2>0, <3>1, <3>4, <1>4, Zenon DEF Subscribed
      <4>3. ReaderSound(rd)'
        BY <4>2, <3>2, <2>1, ReaderKept, Zenon
      <4> QED BY <4>1, <4>3, Zenon
    <3> QED BY <3>3, <3>4, Zenon
  <2> QED BY <2>1, <2>3, Zenon
<1> QED BY <1>5, <1>6, Zenon

----------------------------------------------------------------------------
(* A step of one reader.                                                   *)
LEMMA ReaderOnly ==
    ASSUME OutputInv, NEW r \in Readers, NEW qd \in ReaderRecords, ReaderSound(qd),
           reader' = [reader EXCEPT ![r] = qd],
           UNCHANGED <<life, last, next, history, finished, final, writer, swapped>>
    PROVE  OutputInv'
<1> USE OutputAssumption DEF OutputInv
<1>1. \A l \in 1..Lives :
         Unstored(l)' = Unstored(l) /\ Stored(l)' = Stored(l) /\ Unsent(l)' = Unsent(l) /\ Sent(l)' = Sent(l)
  BY Zenon DEF Unstored, Stored, Unsent, Sent, Behind
<1>2. \A l \in 1..Lives : LateSwapped(l)' /\ HistoryOrdered(l)' /\ Gone(l)' = Gone(l)
  BY <1>1, LifeKept, Zenon DEF WritersInv
<1>3. OutputTypes'
  BY Zenon DEF WritersInv, OutputTypes
<1>4. NumbersOwned' /\ LivesFinish'
  BY <1>1, Zenon DEF WritersInv, NumbersOwned, LivesFinish
<1>5. Grows /\ last' \in 0..Lives /\ last \in Nat
  BY <1>1, <1>2 DEF WritersInv, OutputTypes, Grows
<1>6. ASSUME NEW rd \in ReaderRecords, ReaderSound(rd) PROVE ReaderSound(rd)'
  <2>1. rd.at \in {"copy", "plan", "live"} => Sent(rd.life)' = Sent(rd.life)
    BY Zenon DEF Sent, Behind
  <2> QED BY <2>1, <1>5, <1>6, ReaderKept, Zenon
<1>7. ASSUME NEW q \in Readers PROVE ReaderSound(reader[q])'
  <2>1. PICK rd : rd = reader'[q]
    BY Zenon
  <2>2. rd \in ReaderRecords /\ ReaderSound(rd)
    BY <2>1, Zenon DEF WritersInv, OutputTypes
  <2>3. ReaderSound(rd)'
    BY <2>2, <1>6, Zenon
  <2> QED BY <2>1, <2>3, Zenon
<1> QED BY <1>2, <1>3, <1>4, <1>7, Zenon DEF WritersInv

(* A retention that is over takes the life out of the map.                 *)
LEMMA ExpireStep == ASSUME OutputInv, Expire PROVE OutputInv'
<1> USE OutputAssumption DEF OutputInv
<1>0. finished[life] /\ life' = 0 /\ UNCHANGED <<last, next, history, finished, final, writer, reader, swapped>>
  BY Zenon DEF Expire
<1>1. \A l \in 1..Lives :
         Unstored(l)' = Unstored(l) /\ Stored(l)' = Stored(l) /\ Unsent(l)' = Unsent(l) /\ Sent(l)' = Sent(l)
  BY <1>0, Zenon DEF Unstored, Stored, Unsent, Sent, Behind
<1>2. \A l \in 1..Lives : LateSwapped(l)' /\ HistoryOrdered(l)' /\ Gone(l)' = Gone(l)
  BY <1>0, <1>1, LifeKept, Zenon DEF WritersInv
<1>3. OutputTypes'
  BY <1>0, Zenon DEF WritersInv, OutputTypes
<1>4. NumbersOwned' /\ LivesFinish'
  BY <1>0, <1>1, Zenon DEF WritersInv, NumbersOwned, LivesFinish
<1>5. Grows /\ last' \in 0..Lives /\ last \in Nat
  BY <1>0, <1>1, <1>2 DEF WritersInv, OutputTypes, Grows
<1>6. ASSUME NEW q \in Readers PROVE ReaderSound(reader[q])'
  <2>1. PICK rd : rd = reader[q]
    BY Zenon
  <2>2. rd \in ReaderRecords /\ ReaderSound(rd)
    BY <2>1, Zenon DEF WritersInv, OutputTypes
  <2>3. rd.at \in {"copy", "plan", "live"} => Sent(rd.life)' = Sent(rd.life)
    BY <1>0, Zenon DEF Sent, Behind
  <2>4. ReaderSound(rd)'
    BY <2>2, <2>3, <1>5, ReaderKept, Zenon
  <2> QED BY <2>1, <2>4, <1>0, Zenon
<1> QED BY <1>2, <1>3, <1>4, <1>6, Zenon DEF WritersInv

(* A new reader stands at its header.                                      *)
LEMMA AttachStep ==
    ASSUME OutputInv, NEW r \in Readers, NEW from \in LastIds \cup {Fresh}, NEW raw \in BOOLEAN,
           Attach(r, from, raw)
    PROVE  OutputInv'
<1> USE OutputAssumption DEF OutputInv
<1>1. PICK l \in 1..Lives :
         /\ JobState(l)
         /\ reader' = [reader EXCEPT ![r] =
                [NoReader EXCEPT !.at = "copy", !.life = l, !.raw = raw, !.from = from,
                                 !.done = finished[l], !.seen = IF from = Fresh THEN 0 ELSE from]]
  BY Zenon DEF Attach
<1>0. UNCHANGED <<next, history, finished, final, writer, swapped>>
  BY Zenon DEF Attach
<1>2. PICK qd : qd = [NoReader EXCEPT !.at = "copy", !.life = l, !.raw = raw, !.from = from,
                                      !.done = finished[l], !.seen = IF from = Fresh THEN 0 ELSE from]
  BY Zenon
<1>3. reader' = [reader EXCEPT ![r] = qd]
  BY <1>1, <1>2, Zenon
<1>4. /\ qd.at = "copy" /\ qd.life = l /\ qd.from = from /\ qd.done = finished[l]
      /\ qd.seen = (IF from = Fresh THEN 0 ELSE from)
      /\ qd.plan = <<>> /\ qd.queue = <<>> /\ qd.lag = FALSE /\ qd.told = FALSE /\ qd.got = <<>>
      /\ qd \in ReaderRecords
  <2>1. finished[l] \in BOOLEAN
    BY Zenon DEF WritersInv, OutputTypes
  <2>2. qd = [at |-> "copy", life |-> l, raw |-> raw, from |-> from,
              seen |-> IF from = Fresh THEN 0 ELSE from, done |-> finished[l], plan |-> <<>>,
              queue |-> <<>>, lag |-> FALSE, told |-> FALSE, got |-> <<>>]
    BY <1>2, Zenon DEF NoReader
  <2>3. (IF from = Fresh THEN 0 ELSE from) \in Nat
    BY Zenon
  <2>4. qd \in ReaderRecords
    BY <2>1, <2>2, <2>3 DEF ReaderRecords
  <2> QED BY <2>2, <2>4, Zenon
<1>5. /\ life' = l /\ last' = l /\ last \in Nat /\ last <= last' /\ last' \in 0..Lives
      /\ \A k \in 1..last' : k # life' => k \in 1..last /\ k # life
  BY <1>1, LifeTaken, Zenon DEF WritersInv
<1>6. \A k \in 1..Lives :
         Unstored(k)' = Unstored(k) /\ Stored(k)' = Stored(k) /\ Unsent(k)' = Unsent(k) /\ Sent(k)' = Sent(k)
  BY <1>0, Zenon DEF Unstored, Stored, Unsent, Sent, Behind
<1>7. \A k \in 1..Lives : LateSwapped(k)' /\ HistoryOrdered(k)' /\ Gone(k)' = Gone(k)
  BY <1>0, <1>6, LifeKept, Zenon DEF WritersInv
<1>8. OutputTypes'
  BY <1>0, <1>3, <1>4, <1>5, Zenon DEF WritersInv, OutputTypes
<1>9. NumbersOwned'
  <2>1. \A v \in Writers : writer[v].life # 0 => writer[v].life <= last'
    BY <1>5 DEF WritersInv, NumbersOwned, OutputTypes
  <2> QED BY <2>1, <1>0, <1>6, Zenon DEF WritersInv, NumbersOwned
<1>10. LivesFinish'
  BY <1>0, <1>5, <1>6 DEF WritersInv, LivesFinish
<1>11. Grows
  BY <1>0, <1>5, <1>6, <1>7 DEF Grows
<1>12. ReaderSound(qd)'
  <2>1. ReaderPlace(qd)' /\ NothingYet(qd)' /\ Below(qd)' /\ PlanSound(qd)' /\ SentReaches(qd)'
    BY <1>4, <1>5 DEF ReaderPlace, NothingYet, Below, PlanSound, SentReaches
  <2>2. QueueSound(qd)'
    BY <1>4 DEF QueueSound, Elements
  <2>3. TerminalCovered(qd)'
    BY <1>4, <1>10, <1>0, Zenon DEF TerminalCovered, LivesFinish
  <2> QED BY <2>1, <2>2, <2>3, Zenon DEF ReaderSound
<1>13. ASSUME NEW q \in Readers PROVE ReaderSound(reader[q])'
  <2>1. CASE q = r
    <3>1. reader'[q] = qd
      BY <2>1, <1>3, Zenon DEF WritersInv, OutputTypes
    <3> QED BY <3>1, <1>12, Zenon
  <2>2. CASE q # r
    <3>1. PICK rd : rd = reader[q]
      BY Zenon
    <3>2. rd \in ReaderRecords /\ ReaderSound(rd) /\ reader'[q] = rd
      BY <3>1, <2>2, <1>3, Zenon DEF WritersInv, OutputTypes
    <3>3. rd.at \in {"copy", "plan", "live"} => Sent(rd.life)' = Sent(rd.life)
      BY <1>0, Zenon DEF Sent, Behind
    <3>4. ReaderSound(rd)'
      BY <3>2, <3>3, <1>5, <1>11, ReaderKept, Zenon
    <3> QED BY <3>2, <3>4, Zenon
  <2> QED BY <2>1, <2>2, Zenon
<1> QED BY <1>7, <1>8, <1>9, <1>10, <1>13, Zenon DEF WritersInv

(* The copy of the history: what it does not hold changed places, or was   *)
(* trimmed; of that a reader with a header hears.                          *)
LEMMA CopyStep ==
    ASSUME OutputInv, NEW r \in Readers, CopyHistory(r) PROVE OutputInv'
<1> USE OutputAssumption DEF OutputInv
<1> DEFINE rd == reader[r]
           l == rd.life
           h == history[l]
           qd == [rd EXCEPT !.at = "plan", !.plan = h, !.told = NeedsResync(rd.from, h)]
<1>1. rd \in ReaderRecords /\ ReaderSound(rd) /\ rd.at = "copy"
  BY Zenon DEF CopyHistory, WritersInv, OutputTypes
<1>2. /\ l \in 1..Lives /\ rd.got = <<>> /\ ~rd.told /\ rd.plan = <<>>
      /\ rd.seen = IF rd.from = Fresh THEN 0 ELSE rd.from
  BY <1>1 DEF ReaderSound, ReaderPlace, NothingYet, WritersInv, OutputTypes
<1>3. h \in Seq(Nat \ {0}) /\ HistoryOrdered(l) /\ LateSwapped(l)
  BY <1>2, Zenon DEF WritersInv, OutputTypes
<1>4. NeedsResync(rd.from, h) \in BOOLEAN
  BY Zenon DEF NeedsResync
<1>5. /\ qd \in ReaderRecords /\ qd.at = "plan" /\ qd.life = l /\ qd.raw = rd.raw /\ qd.from = rd.from
      /\ qd.seen = rd.seen /\ qd.done = rd.done /\ qd.plan = h /\ qd.queue = rd.queue /\ qd.lag = rd.lag
      /\ qd.told = NeedsResync(rd.from, h) /\ qd.got = rd.got
  <2> HIDE DEF h
  <2> QED BY <1>1, <1>3, <1>4, Zenon DEF ReaderRecords
<1>6. /\ reader' = [reader EXCEPT ![r] = qd]
      /\ UNCHANGED <<life, last, next, history, finished, final, writer, swapped>>
  BY <1>1, Zenon DEF CopyHistory, WritersInv, OutputTypes
<1>7. rd.from # Fresh => rd.from \in Nat
  BY <1>1, Zenon DEF ReaderRecords
<1> HIDE DEF qd
<1>8. /\ next[l] \in Nat /\ Stored(l) \subseteq 1..next[l] /\ Unstored(l) \cup Stored(l) = 1..next[l]
      /\ Sent(l) \subseteq Stored(l)
  BY <1>2, NumberFacts DEF WritersInv
<1>9. \A m \in Gone(l) : m \in swapped[l] \/ (h # <<>> /\ m < h[1] /\ h[1] \in Nat)
  <2>1. DOMAIN h = 1..Len(h) /\ (h # <<>> => 1 \in DOMAIN h /\ h[1] \in Nat)
    BY <1>3
  <2> QED BY <2>1, <1>3, Zenon DEF HistoryOrdered, Gone, Elements
<1>10. \A m \in Nat : rd.from # Fresh /\ h # <<>> /\ h[1] \in Nat /\ rd.from < m /\ m < h[1] => qd.told
  <2> SUFFICES ASSUME NEW m \in Nat, rd.from # Fresh, h # <<>>, h[1] \in Nat, rd.from < m, m < h[1]
               PROVE  qd.told
    BY Zenon
  <2>1. Head(h) = h[1]
    BY <1>3
  <2>2. rd.from \in Nat /\ h[1] > rd.from + 1
    BY <1>7, SMTT(40)
  <2> QED BY <2>1, <2>2, <1>5, Zenon DEF NeedsResync
<1>11. PlanSound(qd)
  <2>1. Elements(h) \subseteq Stored(l)
    BY <1>3, Zenon DEF HistoryOrdered
  <2>2. ASSUME NEW i \in DOMAIN h, NEW m \in Nat, rd.seen < m, m < h[i]
        PROVE  \/ \E j \in DOMAIN h : j < i /\ h[j] = m
               \/ Excused(qd, m)
               \/ rd.from = Fresh /\ rd.got = <<>> /\ m < h[1] /\ m \in Gone(l)
    <3>1. h[i] \in Stored(l) /\ h[i] \in 1..next[l]
      BY <2>1, <1>8, Zenon DEF Elements
    <3>2. m \in Unstored(l) \cup Stored(l)
      <4>1. rd.seen \in Nat
        BY <1>1, Zenon DEF ReaderRecords
      <4>2. m \in 1..next[l]
        BY <4>1, <3>1, <2>2, <1>8
      <4> QED BY <4>2, <1>8, Zenon
    <3>3. CASE m \in Unstored(l)
      BY <3>1, <3>3, <2>2, <1>3, <1>5, Zenon DEF LateSwapped, Excused
    <3>4. CASE m \in Elements(h)
      <4>1. PICK j \in DOMAIN h : h[j] = m
        BY <3>4, Zenon DEF Elements
      <4>2. DOMAIN h = 1..Len(h) /\ Len(h) \in Nat
        BY <1>3
      <4>3. CASE j < i
        BY <4>1, <4>3, Zenon
      <4>4. CASE i < j
        <5>1. h[i] < h[j] \/ h[j] \in swapped[l]
          BY <4>4, <1>3, Zenon DEF HistoryOrdered
        <5>2. h[i] \in Nat
          BY <3>1, <1>8
        <5> QED BY <5>1, <5>2, <4>1, <2>2, <1>5 DEF Excused
      <4>5. i # j
        BY <4>1, <2>2
      <4> QED BY <4>2, <4>3, <4>4, <4>5
    <3>5. CASE m \in Gone(l)
      BY <3>5, <2>2, <1>2, <1>5, <1>9, <1>10, Zenon DEF Excused
    <3> QED BY <3>2, <3>3, <3>4, <3>5, Zenon DEF Gone
  <2> QED BY <2>1, <2>2, <1>5, ZenonT(60) DEF PlanSound
<1>12. SentReaches(qd)
  <2> SUFFICES ASSUME NEW n \in Sent(l)
               PROVE  Handled(qd, n) \/ n \in Elements(h) \/ Excused(qd, n) \/ Missed(qd, n)
    BY <1>5, Zenon DEF SentReaches
  <2>1. n \in Stored(l) /\ n \in Nat
    BY <1>8
  <2>2. CASE n \in swapped[l]
    BY <2>2, <1>5, Zenon DEF Excused
  <2>3. CASE n \in Gone(l) /\ n \notin swapped[l]
    <3>1. h # <<>> /\ n < h[1] /\ h[1] \in Nat
      BY <2>3, <1>9, Zenon
    <3>2. CASE rd.raw \/ rd.from = Fresh
      BY <3>1, <3>2, <2>3, <1>2, <1>5, Zenon DEF Missed
    <3>3. CASE ~rd.raw /\ rd.from # Fresh
      BY <3>1, <3>3, <2>1, <1>2, <1>5, <1>7, <1>10 DEF Excused, Handled
    <3> QED BY <3>2, <3>3, Zenon
  <2> QED BY <2>1, <2>2, <2>3, Zenon DEF Gone
<1>13. TerminalCovered(qd)
  <2>1. qd.done => final[l] # {}
    BY <1>1, <1>5, Zenon DEF ReaderSound, TerminalCovered
  <2>2. \A f \in final[l] : f \in Elements(h) \/ f \in Gone(l)
    BY <1>2, Zenon DEF WritersInv, LivesFinish, Gone
  <2> QED BY <2>1, <2>2, <1>5, Zenon DEF TerminalCovered, Covered
<1>14. ReaderPlace(qd) /\ NothingYet(qd) /\ Below(qd)
  BY <1>1, <1>2, <1>5, Zenon DEF ReaderSound, ReaderPlace, NothingYet, Below
<1>15. QueueSound(qd)
  BY <1>1, <1>5, Zenon DEF ReaderSound, QueueSound
<1>16. ReaderSound(qd)
  BY <1>11, <1>12, <1>13, <1>14, <1>15, Zenon DEF ReaderSound
<1> QED BY <1>5, <1>6, <1>16, ReaderOnly, Zenon

(* Up to the last number it delivered a reader has every record, or a      *)
(* reason not to.                                                          *)
LEMMA SeenCovered ==
    ASSUME NEW rd \in ReaderRecords, ReaderSound(rd), ~rd.raw, NEW f \in Nat \ {0}, f <= rd.seen
    PROVE  Covered(rd, f)
<1> USE OutputAssumption DEF ReaderSound
<1>1. CASE rd.got = <<>>
  BY <1>1 DEF NothingYet, Covered, ReaderRecords
<1>2. CASE rd.got # <<>>
  <2>1. f \in 1..rd.seen
    BY DEF ReaderRecords
  <2> QED BY <2>1, <1>2, Zenon DEF Below, Covered
<1> QED BY <1>1, <1>2, Zenon

(* A reader that was given a record.                                       *)
Delivered(qd, td, p) ==
    /\ qd \in ReaderRecords /\ qd.at = IF p \in final[td.life] THEN "ended" ELSE td.at
    /\ qd.life = td.life /\ qd.raw = td.raw /\ qd.from = td.from /\ qd.seen = p /\ qd.done = td.done
    /\ qd.plan = td.plan /\ qd.queue = td.queue /\ qd.lag = td.lag /\ qd.told = td.told
    /\ qd.got = Append(td.got, p)

(* Delivering a record.                                                    *)
LEMMA DeliverFacts ==
    ASSUME NEW td \in ReaderRecords, NEW p \in Nat \ {0}, td.raw \/ ~(p <= td.seen)
    PROVE  Delivered(Deliver(td, p), td, p)
<1> DEFINE g == Append(td.got, p)
           a == IF p \in final[td.life] THEN "ended" ELSE td.at
<1>1. g \in Seq(Nat \ {0}) /\ a \in {"idle", "copy", "plan", "live", "ended"}
  BY DEF ReaderRecords
<1>2. Deliver(td, p) = [td EXCEPT !.got = g, !.seen = p, !.at = a]
  BY Zenon DEF Deliver, ReaderRecords
<1> SUFFICES /\ Deliver(td, p) \in ReaderRecords /\ Deliver(td, p).at = a
             /\ Deliver(td, p).life = td.life /\ Deliver(td, p).raw = td.raw
             /\ Deliver(td, p).from = td.from /\ Deliver(td, p).seen = p /\ Deliver(td, p).done = td.done
             /\ Deliver(td, p).plan = td.plan /\ Deliver(td, p).queue = td.queue
             /\ Deliver(td, p).lag = td.lag /\ Deliver(td, p).told = td.told
             /\ Deliver(td, p).got = g
  BY Zenon DEF Delivered
<1> HIDE DEF g, a
<1>3. Deliver(td, p) \in ReaderRecords
  BY <1>1, <1>2, Zenon DEF ReaderRecords
<1> QED BY <1>2, <1>3, Zenon DEF ReaderRecords

(* All that a delivery passes is excused, or was trimmed before the first  *)
(* record of a reader without a header.                                    *)
PassesExcused(rd, p) ==
    \/ rd.raw
    \/ /\ rd.seen < p
       /\ \A m \in Nat : rd.seen < m /\ m < p =>
             Excused(rd, m) \/ (rd.from = Fresh /\ rd.got = <<>> /\ m \in Gone(rd.life))

(* Such a delivery leaves no silent gap.                                   *)
LEMMA DeliverBelow ==
    ASSUME NEW rd \in ReaderRecords, ReaderSound(rd), NEW qd \in ReaderRecords, NEW p \in Nat \ {0},
           qd.life = rd.life, qd.raw = rd.raw, qd.from = rd.from, qd.told = rd.told,
           qd.seen = p, qd.got = Append(rd.got, p), PassesExcused(rd, p)
    PROVE  /\ Below(qd) /\ NothingYet(qd) /\ Covered(qd, p) /\ Handled(qd, p)
           /\ \A n : Excused(rd, n) => Excused(qd, n)
           /\ \A n : Covered(rd, n) => Covered(qd, n)
           /\ \A n \in Nat : Handled(rd, n) => Handled(qd, n)
<1> USE OutputAssumption DEF ReaderSound
<1>1. rd.got \in Seq(Nat \ {0}) /\ rd.seen \in Nat /\ (rd.from # Fresh => rd.from \in Nat)
  BY Zenon DEF ReaderRecords
<1>2. qd.got # <<>> /\ Elements(qd.got) = Elements(rd.got) \cup {p}
  <2>1. qd.got # <<>>
    BY <1>1
  <2> QED BY <2>1, <1>1, OneMore
<1>3. Head(qd.got) = IF rd.got = <<>> THEN p ELSE Head(rd.got)
  BY <1>1
<1>4. \A n : Excused(rd, n) => Excused(qd, n)
  BY Zenon DEF Excused
<1>5. (\A n : Covered(rd, n) => Covered(qd, n)) /\ Covered(qd, p)
  BY <1>2, <1>4, Zenon DEF Covered
<1>6. (\A n \in Nat : Handled(rd, n) => Handled(qd, n)) /\ Handled(qd, p)
  BY <1>1, <1>2 DEF Handled, PassesExcused
<1>7. NothingYet(qd)
  BY <1>2, Zenon DEF NothingYet
<1>8. Below(qd)
  <2> SUFFICES ASSUME ~rd.raw, NEW n \in 1..p
               PROVE  \/ n \in Elements(qd.got) \/ Excused(qd, n)
                      \/ rd.from # Fresh /\ n <= rd.from
                      \/ rd.from = Fresh /\ n < Head(qd.got) /\ n \in Gone(rd.life)
    BY Zenon DEF Below
  <2>1. CASE n = p
    BY <2>1, <1>2, Zenon
  <2>2. CASE n <= rd.seen /\ rd.got # <<>>
    <3>1. n \in 1..rd.seen
      BY <2>2, <1>1
    <3> QED BY <3>1, <2>2, <1>2, <1>3, <1>4, Zenon DEF Below
  <2>3. CASE n <= rd.seen /\ rd.got = <<>>
    BY <2>3 DEF NothingYet
  <2>4. CASE rd.seen < n /\ n < p
    BY <2>4, <1>3, <1>4 DEF PassesExcused
  <2> QED BY <2>1, <2>2, <2>3, <2>4, <1>1
<1> QED BY <1>4, <1>5, <1>6, <1>7, <1>8, Zenon

(* A record of the copied history is delivered, or skipped because a       *)
(* higher one was.                                                         *)
LEMMA PlanDelivered ==
    ASSUME WritersInv, NEW rd \in ReaderRecords, ReaderSound(rd), rd.at = "plan", rd.plan # <<>>,
           NEW qd, qd = Deliver([rd EXCEPT !.plan = Tail(@)], Head(rd.plan))
    PROVE  qd \in ReaderRecords /\ ReaderSound(qd)
<1> USE OutputAssumption DEF ReaderSound
<1> DEFINE s == rd.plan
           p == Head(s)
           t == Tail(s)
           td == [rd EXCEPT !.plan = t]
<1>1. s \in Seq(Nat \ {0}) /\ rd.seen \in Nat
  BY Zenon DEF ReaderRecords
<1>2. /\ p \in Nat \ {0} /\ t \in Seq(Nat \ {0}) /\ p = s[1] /\ Elements(s) = {p} \cup Elements(t)
      /\ \A i \in DOMAIN t : i + 1 \in DOMAIN s /\ t[i] = s[i + 1]
      /\ \A j \in DOMAIN s : j = 1 \/ (j - 1 \in DOMAIN t /\ s[j] = t[j - 1])
      /\ 1 \in DOMAIN s /\ DOMAIN s \subseteq Nat \ {0} /\ DOMAIN t \subseteq Nat \ {0}
  BY <1>1, HeadAndTail, Zenon
<1>3. /\ td \in ReaderRecords /\ td.plan = t
      /\ td.at = rd.at /\ td.life = rd.life /\ td.raw = rd.raw /\ td.from = rd.from /\ td.seen = rd.seen
      /\ td.done = rd.done /\ td.queue = rd.queue /\ td.lag = rd.lag /\ td.told = rd.told /\ td.got = rd.got
  <2> HIDE DEF t
  <2> QED BY <1>2, Zenon DEF ReaderRecords
<1>4. qd = Deliver(td, p)
  BY Zenon DEF ReaderRecords
<1> HIDE DEF td, t, p
<1>p. p \in Nat /\ rd.seen \in Nat
  BY <1>1, <1>2, Zenon
<1>5. /\ Elements(s) \subseteq Stored(rd.life)
      /\ ~rd.raw => \A i \in DOMAIN s : \A m \in Nat : rd.seen < m /\ m < s[i] =>
                 \/ \E j \in DOMAIN s : j < i /\ s[j] = m
                 \/ Excused(rd, m)
                 \/ rd.from = Fresh /\ rd.got = <<>> /\ m < p /\ m \in Gone(rd.life)
  BY <1>2, ZenonT(60) DEF PlanSound
<1>6. ~rd.raw => \A i \in DOMAIN t : \A m \in Nat : rd.seen < m /\ p < m /\ m < t[i] =>
                 (\E j \in DOMAIN t : j < i /\ t[j] = m) \/ Excused(rd, m)
  <2> SUFFICES ASSUME ~rd.raw, NEW i \in DOMAIN t, NEW m \in Nat, rd.seen < m, p < m, m < t[i]
               PROVE  (\E j \in DOMAIN t : j < i /\ t[j] = m) \/ Excused(rd, m)
    BY Zenon
  <2>1. i + 1 \in DOMAIN s /\ m < s[i + 1] /\ ~(m < p) /\ m # p /\ i \in Nat
    BY <1>2
  <2>2. (\E j \in DOMAIN s : j < i + 1 /\ s[j] = m) \/ Excused(rd, m)
    BY <2>1, <1>5, Zenon
  <2>3. ASSUME NEW j \in DOMAIN s, j < i + 1, s[j] = m PROVE \E k \in DOMAIN t : k < i /\ t[k] = m
    <3>1. j # 1
      BY <2>1, <2>3, <1>2, Zenon
    <3>2. j - 1 \in DOMAIN t /\ t[j - 1] = m /\ j \in Nat
      BY <3>1, <2>3, <1>2, Zenon
    <3>3. j - 1 < i
      BY <3>2, <2>1, <2>3
    <3> QED BY <3>2, <3>3, Zenon
  <2> QED BY <2>2, <2>3, Zenon
<1>7. /\ Elements(rd.queue) \subseteq Sent(rd.life)
      /\ \A i, j \in DOMAIN rd.queue : i < j =>
            rd.queue[i] < rd.queue[j] \/ rd.queue[j] \in swapped[rd.life]
  BY Zenon DEF QueueSound
<1>8. \A n \in Sent(rd.life) :
        \/ Handled(rd, n) \/ n = p \/ n \in Elements(t) \/ n \in Elements(rd.queue)
        \/ Excused(rd, n) \/ rd.lag \/ (rd.raw /\ n \in Gone(rd.life))
        \/ (~rd.raw /\ rd.from = Fresh /\ rd.got = <<>> /\ n < p)
  BY <1>2, Zenon DEF SentReaches, Missed
<1>9. rd.life \in 1..last /\ (rd.done => \E f \in final[rd.life] : f = p \/ f \in Elements(t) \/ Covered(rd, f))
  BY <1>2, Zenon DEF ReaderPlace, TerminalCovered
<1>10. CASE ~rd.raw /\ p <= rd.seen
  <2>1. qd = td
    BY <1>3, <1>4, <1>10, Zenon DEF Deliver
  <2>2. ReaderPlace(td) /\ NothingYet(td) /\ Below(td) /\ QueueSound(td)
    BY <1>3, <1>7, Zenon DEF ReaderPlace, NothingYet, Below, Excused, QueueSound
  <2>3. \A n : (Excused(rd, n) => Excused(td, n)) /\ (Covered(rd, n) => Covered(td, n))
               /\ (Handled(rd, n) => Handled(td, n))
    BY <1>3, Zenon DEF Excused, Covered, Handled
  <2>4. PlanSound(td)
    <3>1. \A i \in DOMAIN t : \A m \in Nat : rd.seen < m /\ m < t[i] =>
             (\E j \in DOMAIN t : j < i /\ t[j] = m) \/ Excused(rd, m)
      <4> SUFFICES ASSUME NEW i \in DOMAIN t, NEW m \in Nat, rd.seen < m, m < t[i]
                   PROVE  (\E j \in DOMAIN t : j < i /\ t[j] = m) \/ Excused(rd, m)
        BY Zenon
      <4>1. p < m
        BY <1>p, <1>10
      <4> QED BY <4>1, <1>6, <1>10, Zenon
    <3> QED BY <3>1, <2>3, <1>2, <1>3, <1>5, <1>10 DEF PlanSound
  <2>5. SentReaches(td)
    <3>1. \A n \in Nat : n <= p => Handled(td, n)
      BY <1>1, <1>2, <1>3, <1>10 DEF Handled
    <3>2. rd.from = Fresh /\ rd.got = <<>> => FALSE
      BY <1>2, <1>10 DEF NothingYet
    <3> QED BY <3>1, <3>2, <2>3, <1>2, <1>3, <1>8, <1>10 DEF SentReaches
  <2>6. TerminalCovered(td)
    <3>1. Covered(td, p)
      BY <1>2, <1>10, <2>3, SeenCovered, Zenon
    <3> QED BY <3>1, <2>3, <1>3, <1>9, Zenon DEF TerminalCovered
  <2> QED BY <2>1, <2>2, <2>4, <2>5, <2>6, <1>3, Zenon
<1>11. CASE rd.raw \/ ~(p <= rd.seen)
  <2>1. /\ qd \in ReaderRecords /\ qd.at = IF p \in final[rd.life] THEN "ended" ELSE "plan"
        /\ qd.life = rd.life /\ qd.raw = rd.raw /\ qd.from = rd.from /\ qd.seen = p /\ qd.done = rd.done
        /\ qd.plan = t /\ qd.queue = rd.queue /\ qd.lag = rd.lag /\ qd.told = rd.told
        /\ qd.got = Append(rd.got, p)
    <3>1. td.raw \/ ~(p <= td.seen)
      BY <1>3, <1>11, Zenon
    <3>2. Delivered(qd, td, p)
      BY <3>1, <1>2, <1>3, <1>4, DeliverFacts, Zenon
    <3> QED BY <3>2, <1>3, Zenon DEF Delivered
  <2>2. PassesExcused(rd, p)
    <3>1. ~\E j \in DOMAIN s : j < 1
      BY <1>2
    <3> QED BY <3>1, <1>1, <1>2, <1>5, <1>11 DEF PassesExcused
  <2>3. /\ Below(qd) /\ NothingYet(qd) /\ Covered(qd, p) /\ Handled(qd, p)
        /\ \A n : Excused(rd, n) => Excused(qd, n)
        /\ \A n : Covered(rd, n) => Covered(qd, n)
        /\ \A n \in Nat : Handled(rd, n) => Handled(qd, n)
    <3> HIDE DEF ReaderSound
    <3>1. /\ qd \in ReaderRecords /\ p \in Nat \ {0} /\ qd.life = rd.life /\ qd.raw = rd.raw
          /\ qd.from = rd.from /\ qd.told = rd.told /\ qd.seen = p /\ qd.got = Append(rd.got, p)
      BY <2>1, <1>2, Zenon
    <3> QED BY <3>1, <2>2, DeliverBelow, ZenonT(60)
  <2>4. ReaderPlace(qd) /\ QueueSound(qd)
    BY <2>1, <1>7, <1>9, Zenon DEF ReaderPlace, QueueSound
  <2>5. PlanSound(qd)
    <3>1. ~rd.raw => rd.seen < p
      BY <1>1, <1>2, <1>11
    <3>2. ~rd.raw => \A i \in DOMAIN t : \A m \in Nat : p < m /\ m < t[i] =>
             (\E j \in DOMAIN t : j < i /\ t[j] = m) \/ Excused(rd, m)
      <4> SUFFICES ASSUME ~rd.raw, NEW i \in DOMAIN t, NEW m \in Nat, p < m, m < t[i]
                   PROVE  (\E j \in DOMAIN t : j < i /\ t[j] = m) \/ Excused(rd, m)
        BY Zenon
      <4>1. rd.seen < m
        BY <3>1, <1>p
      <4> QED BY <4>1, <1>6, Zenon
    <3>3. Elements(t) \subseteq Stored(rd.life)
      BY <1>2, <1>5, Zenon
    <3>4. \A m : Excused(rd, m) => Excused(qd, m)
      BY <2>3, Zenon
    <3>5. ~qd.raw => \A i \in DOMAIN qd.plan : \A m \in Nat : qd.seen < m /\ m < qd.plan[i] =>
             (\E j \in DOMAIN qd.plan : j < i /\ qd.plan[j] = m) \/ Excused(qd, m)
      <4> HIDE DEF ReaderSound
      <4>1. qd.plan = t /\ qd.seen = p /\ qd.raw = rd.raw
        BY <2>1, Zenon
      <4>2. ~rd.raw => \A i \in DOMAIN t : \A m \in Nat : p < m /\ m < t[i] =>
               (\E j \in DOMAIN t : j < i /\ t[j] = m) \/ Excused(qd, m)
        BY <3>2, <3>4, Zenon
      <4> QED BY <4>1, <4>2, SMTT(40)
    <3>6. Elements(qd.plan) \subseteq Stored(qd.life)
      BY <3>3, <2>1, Zenon
    <3> QED BY <3>5, <3>6, Zenon DEF PlanSound
  <2>6. SentReaches(qd)
    <3>1. ~rd.raw => \A n \in Nat : n < p => Handled(qd, n)
      BY <2>1, <1>2 DEF Handled
    <3>2. rd.raw => \A n \in Gone(rd.life) : Missed(qd, n)
      BY <2>1, Zenon DEF Missed
    <3>3. Sent(rd.life) \subseteq Nat
      <4>1. rd.life \in 1..Lives
        BY <1>9 DEF WritersInv, OutputTypes
      <4> QED BY <4>1, NumberFacts DEF WritersInv
    <3> QED BY <3>1, <3>2, <3>3, <2>1, <2>3, <1>8, Zenon DEF SentReaches
  <2>7. TerminalCovered(qd)
    BY <2>1, <2>3, <1>9, Zenon DEF TerminalCovered
  <2> QED BY <2>1, <2>3, <2>4, <2>5, <2>6, <2>7, Zenon
<1> QED BY <1>10, <1>11, Zenon

(* So is a record of the buffer: what it passes was sent after it or not   *)
(* at all, and so changed places.                                          *)
LEMMA QueueDelivered ==
    ASSUME WritersInv, NEW rd \in ReaderRecords, ReaderSound(rd), rd.at = "live", ~rd.lag, rd.queue # <<>>,
           NEW qd, qd = Deliver([rd EXCEPT !.queue = Tail(@)], Head(rd.queue))
    PROVE  qd \in ReaderRecords /\ ReaderSound(qd)
<1> USE OutputAssumption DEF ReaderSound
<1> DEFINE s == rd.queue
           p == Head(s)
           t == Tail(s)
           td == [rd EXCEPT !.queue = t]
           l == rd.life
<1>1. s \in Seq(Nat \ {0}) /\ rd.seen \in Nat
  BY Zenon DEF ReaderRecords
<1>2. /\ p \in Nat \ {0} /\ t \in Seq(Nat \ {0}) /\ p = s[1] /\ Elements(s) = {p} \cup Elements(t)
      /\ \A i \in DOMAIN t : i + 1 \in DOMAIN s /\ t[i] = s[i + 1]
      /\ \A j \in DOMAIN s : j = 1 \/ (j - 1 \in DOMAIN t /\ s[j] = t[j - 1])
      /\ 1 \in DOMAIN s /\ DOMAIN s \subseteq Nat \ {0} /\ DOMAIN t \subseteq Nat \ {0}
  BY <1>1, HeadAndTail, Zenon
<1>3. /\ td \in ReaderRecords /\ td.queue = t
      /\ td.at = rd.at /\ td.life = l /\ td.raw = rd.raw /\ td.from = rd.from /\ td.seen = rd.seen
      /\ td.done = rd.done /\ td.plan = rd.plan /\ td.lag = rd.lag /\ td.told = rd.told /\ td.got = rd.got
  <2> HIDE DEF t
  <2> QED BY <1>2, Zenon DEF ReaderRecords
<1>4. qd = Deliver(td, p)
  BY Zenon DEF ReaderRecords
<1> HIDE DEF td, t, p
<1>p. p \in Nat /\ rd.seen \in Nat
  BY <1>1, <1>2, Zenon
<1>5. l \in 1..last /\ l \in 1..Lives /\ rd.plan = <<>> /\ Elements(rd.plan) = {}
  BY DEF ReaderPlace, WritersInv, OutputTypes, Elements
<1>6. /\ Elements(s) \subseteq Sent(l)
      /\ \A i, j \in DOMAIN s : i < j => s[i] < s[j] \/ s[j] \in swapped[l]
  BY Zenon DEF QueueSound
<1>7. /\ next[l] \in Nat /\ Sent(l) \subseteq 1..next[l] /\ Unsent(l) \cup Sent(l) = 1..next[l]
      /\ \A n \in Unsent(l), z \in Sent(l) : n < z => n \in swapped[l]
  BY <1>5, NumberFacts, Zenon DEF WritersInv, LateSwapped
<1>8. \A n \in Sent(l) :
        \/ Handled(rd, n) \/ n = p \/ n \in Elements(t) \/ Excused(rd, n) \/ (rd.raw /\ n \in Gone(l))
  BY <1>2, <1>5, Zenon DEF SentReaches, Missed
<1>9. \A i, j \in DOMAIN t : i < j => t[i] < t[j] \/ t[j] \in swapped[l]
  <2> SUFFICES ASSUME NEW i \in DOMAIN t, NEW j \in DOMAIN t, i < j
               PROVE  t[i] < t[j] \/ t[j] \in swapped[l]
    BY Zenon
  <2>0. i \in Nat /\ j \in Nat
    BY <1>2, Zenon
  <2>1. i + 1 < j + 1 /\ i + 1 \in DOMAIN s /\ j + 1 \in DOMAIN s
    <3>1. i + 1 < j + 1
      BY <2>0
    <3> QED BY <3>1, <1>2, Zenon
  <2> QED BY <2>1, <1>2, <1>6, Zenon
<1>10. CASE ~rd.raw /\ p <= rd.seen
  <2>1. qd = td
    BY <1>3, <1>4, <1>10, Zenon DEF Deliver
  <2>2. ReaderPlace(td) /\ NothingYet(td) /\ Below(td) /\ PlanSound(td) /\ TerminalCovered(td)
    BY <1>3, Zenon DEF ReaderPlace, NothingYet, Below, Excused, PlanSound, TerminalCovered
  <2>3. QueueSound(td)
    BY <1>2, <1>3, <1>6, <1>9, Zenon DEF QueueSound
  <2>4. SentReaches(td)
    <3>1. \A n : (Excused(rd, n) => Excused(td, n)) /\ (Handled(rd, n) => Handled(td, n))
      BY <1>3, Zenon DEF Excused, Handled
    <3>2. Handled(td, p)
      BY <1>3, <1>10, Zenon DEF Handled
    <3> QED BY <3>1, <3>2, <1>3, <1>8, <1>10, Zenon DEF SentReaches
  <2> QED BY <2>1, <2>2, <2>3, <2>4, <1>3, Zenon
<1>11. CASE rd.raw \/ ~(p <= rd.seen)
  <2>1. /\ qd \in ReaderRecords /\ qd.at = IF p \in final[l] THEN "ended" ELSE "live"
        /\ qd.life = l /\ qd.raw = rd.raw /\ qd.from = rd.from /\ qd.seen = p /\ qd.done = rd.done
        /\ qd.plan = <<>> /\ qd.queue = t /\ qd.lag = rd.lag /\ qd.told = rd.told
        /\ qd.got = Append(rd.got, p)
    <3>1. td.raw \/ ~(p <= td.seen)
      BY <1>3, <1>11, Zenon
    <3>2. Delivered(qd, td, p)
      BY <3>1, <1>2, <1>3, <1>4, DeliverFacts, Zenon
    <3> QED BY <3>2, <1>3, <1>5, Zenon DEF Delivered
  <2>2. ASSUME ~rd.raw, NEW m \in Nat, rd.seen < m, m < p PROVE Excused(rd, m)
    <3>1. p \in Sent(l) /\ m \in 1..next[l]
      <4>1. p \in Sent(l) /\ p \in 1..next[l]
        BY <1>2, <1>6, <1>7, Zenon
      <4> QED BY <4>1, <2>2, <1>1, <1>7
    <3>2. CASE m \in Unsent(l)
      BY <3>1, <3>2, <2>2, <1>7, Zenon DEF Excused
    <3>3. CASE m \in Elements(t)
      <4>1. PICK i \in DOMAIN t : t[i] = m
        BY <3>3, Zenon DEF Elements
      <4>2. 1 \in DOMAIN s /\ i + 1 \in DOMAIN s /\ 1 < i + 1 /\ s[i + 1] = m /\ s[1] = p
        BY <4>1, <1>2
      <4>3. p < m \/ m \in swapped[l]
        BY <4>2, <1>6, Zenon
      <4>4. ~(p < m)
        BY <2>2, <1>2
      <4> QED BY <4>3, <4>4, Zenon DEF Excused
    <3>4. CASE m \in Sent(l) /\ m \notin Elements(t)
      <4>1. ~Handled(rd, m) /\ m # p
        BY <2>2, <1>1, <1>2 DEF Handled
      <4> QED BY <4>1, <3>4, <2>2, <1>8, Zenon
    <3> QED BY <3>1, <3>2, <3>3, <3>4, <1>7, Zenon
  <2>3. PassesExcused(rd, p)
    BY <2>2, <1>1, <1>2, <1>11 DEF PassesExcused
  <2>4. /\ Below(qd) /\ NothingYet(qd) /\ Covered(qd, p) /\ Handled(qd, p)
        /\ \A n : Excused(rd, n) => Excused(qd, n)
        /\ \A n : Covered(rd, n) => Covered(qd, n)
        /\ \A n \in Nat : Handled(rd, n) => Handled(qd, n)
    <3> HIDE DEF ReaderSound
    <3>1. /\ qd \in ReaderRecords /\ p \in Nat \ {0} /\ qd.life = rd.life /\ qd.raw = rd.raw
          /\ qd.from = rd.from /\ qd.told = rd.told /\ qd.seen = p /\ qd.got = Append(rd.got, p)
      BY <2>1, <1>2, Zenon
    <3> QED BY <3>1, <2>3, DeliverBelow, ZenonT(60)
  <2>5. ReaderPlace(qd) /\ PlanSound(qd) /\ TerminalCovered(qd)
    BY <2>1, <2>4, <1>5, Zenon DEF ReaderPlace, PlanSound, TerminalCovered
  <2>6. QueueSound(qd)
    BY <2>1, <1>2, <1>6, <1>9, Zenon DEF QueueSound
  <2>7. SentReaches(qd)
    <3>1. rd.raw => \A n \in Gone(l) : Missed(qd, n)
      BY <2>1, Zenon DEF Missed
    <3>2. Sent(l) \subseteq Nat
      BY <1>7
    <3> QED BY <3>1, <3>2, <2>1, <2>4, <1>8, Zenon DEF SentReaches
  <2> QED BY <2>1, <2>4, <2>5, <2>6, <2>7, Zenon
<1> QED BY <1>10, <1>11, Zenon

(* A step through the copied history.                                      *)
LEMMA FromHistoryStep ==
    ASSUME OutputInv, NEW r \in Readers, FromHistory(r) PROVE OutputInv'
<1> USE OutputAssumption
<1> DEFINE rd == reader[r]
<1>1. rd \in ReaderRecords /\ ReaderSound(rd) /\ rd.at = "plan" /\ WritersInv
  BY Zenon DEF FromHistory, OutputInv, WritersInv, OutputTypes
<1>2. UNCHANGED <<life, last, next, history, finished, final, writer, swapped>>
  BY Zenon DEF FromHistory
<1>3. CASE rd.plan = <<>>
  <2> DEFINE a == IF rd.done THEN "ended" ELSE "live"
             qd == [rd EXCEPT !.at = a]
  <2>1. reader' = [reader EXCEPT ![r] = qd]
    BY <1>3, Zenon DEF FromHistory
  <2>2. a \in {"ended", "live"} /\ (a = "ended" => rd.done)
    BY Zenon
  <2> HIDE DEF a
  <2>3. /\ qd \in ReaderRecords /\ qd.at = a /\ qd.life = rd.life /\ qd.raw = rd.raw /\ qd.from = rd.from
        /\ qd.seen = rd.seen /\ qd.done = rd.done /\ qd.plan = rd.plan /\ qd.queue = rd.queue
        /\ qd.lag = rd.lag /\ qd.told = rd.told /\ qd.got = rd.got
    BY <1>1, <2>2, Zenon DEF ReaderRecords
  <2> HIDE DEF qd
  <2>4. ReaderPlace(qd) /\ NothingYet(qd) /\ Below(qd) /\ PlanSound(qd)
    BY <1>1, <1>3, <2>2, <2>3, Zenon DEF ReaderSound, ReaderPlace, NothingYet, Below, Excused, PlanSound
  <2>5. QueueSound(qd)
    BY <1>1, <2>2, <2>3, Zenon DEF ReaderSound, QueueSound
  <2>6. SentReaches(qd)
    BY <1>1, <2>2, <2>3, Zenon DEF ReaderSound, SentReaches, Handled, Missed, Excused
  <2>7. TerminalCovered(qd)
    <3>1. Elements(rd.plan) = {}
      BY <1>3 DEF Elements
    <3>2. \A f \in final[rd.life] : Covered(rd, f) => Covered(qd, f)
      BY <2>3, Zenon DEF Covered, Excused
    <3>3. a = "ended" => \E f \in final[rd.life] : Covered(rd, f)
      BY <1>1, <2>2, <3>1, Zenon DEF ReaderSound, TerminalCovered
    <3> QED BY <2>2, <2>3, <3>2, <3>3, Zenon DEF TerminalCovered
  <2>8. ReaderSound(qd)
    BY <2>4, <2>5, <2>6, <2>7, Zenon DEF ReaderSound
  <2> QED BY <2>1, <2>3, <2>8, <1>2, ReaderOnly, Zenon
<1>4. CASE rd.plan # <<>>
  <2>1. PICK qd : qd = Deliver([rd EXCEPT !.plan = Tail(@)], Head(rd.plan))
    BY Zenon
  <2>2. reader' = [reader EXCEPT ![r] = qd]
    BY <2>1, <1>4, Zenon DEF FromHistory
  <2>3. qd \in ReaderRecords /\ ReaderSound(qd)
    BY <2>1, <1>1, <1>4, PlanDelivered, Zenon
  <2> QED BY <2>2, <2>3, <1>2, ReaderOnly, Zenon
<1> QED BY <1>3, <1>4, Zenon

(* A step of a live reader: a word about what its buffer lost, a record of *)
(* it, or the end when nobody can write any more.                          *)
LEMMA ReceiveStep ==
    ASSUME OutputInv, NEW r \in Readers, Receive(r) PROVE OutputInv'
<1> USE OutputAssumption
<1> DEFINE rd == reader[r]
<1>1. rd \in ReaderRecords /\ ReaderSound(rd) /\ rd.at = "live" /\ WritersInv
  BY Zenon DEF Receive, OutputInv, WritersInv, OutputTypes
<1>2. UNCHANGED <<life, last, next, history, finished, final, writer, swapped>>
  BY Zenon DEF Receive
<1>3. rd.life \in 1..last /\ rd.life \in 1..Lives /\ rd.plan = <<>> /\ Elements(rd.plan) = {}
  <2>1. rd.life \in 1..last /\ rd.plan = <<>>
    BY <1>1, Zenon DEF ReaderSound, ReaderPlace
  <2>2. last \in 0..Lives
    BY <1>1, Zenon DEF WritersInv, OutputTypes
  <2>3. rd.life \in 1..Lives
    BY <2>1, <2>2
  <2> QED BY <2>1, <2>3 DEF Elements
<1>4. CASE rd.lag /\ reader' = [reader EXCEPT ![r].lag = FALSE, ![r].told = TRUE]
  <2> DEFINE qd == [rd EXCEPT !.lag = FALSE, !.told = TRUE]
  <2>1. reader' = [reader EXCEPT ![r] = qd]
    BY <1>4, Zenon DEF OutputInv, WritersInv, OutputTypes
  <2>2. /\ qd \in ReaderRecords /\ qd.at = "live" /\ qd.life = rd.life /\ qd.raw = rd.raw /\ qd.from = rd.from
        /\ qd.seen = rd.seen /\ qd.done = rd.done /\ qd.plan = rd.plan /\ qd.queue = rd.queue
        /\ qd.lag = FALSE /\ qd.told = TRUE /\ qd.got = rd.got
    BY <1>1, Zenon DEF ReaderRecords
  <2> HIDE DEF qd
  <2>3. ReaderPlace(qd) /\ NothingYet(qd) /\ Below(qd) /\ PlanSound(qd) /\ TerminalCovered(qd) /\ SentReaches(qd)
    BY <1>1, <2>2, Zenon DEF ReaderSound, ReaderPlace, NothingYet, Below, Excused, PlanSound, TerminalCovered,
                      SentReaches
  <2>4. QueueSound(qd)
    BY <1>1, <2>2, Zenon DEF ReaderSound, QueueSound
  <2>5. ReaderSound(qd)
    BY <2>3, <2>4, Zenon DEF ReaderSound
  <2> QED BY <2>1, <2>2, <2>5, <1>2, ReaderOnly, Zenon
<1>5. CASE /\ ~rd.lag /\ rd.queue # <<>>
           /\ reader' = [reader EXCEPT ![r] = Deliver([rd EXCEPT !.queue = Tail(@)], Head(rd.queue))]
  <2>1. PICK qd : qd = Deliver([rd EXCEPT !.queue = Tail(@)], Head(rd.queue))
    BY Zenon
  <2>2. qd \in ReaderRecords /\ ReaderSound(qd)
    BY <2>1, <1>1, <1>5, QueueDelivered, Zenon
  <2> QED BY <2>1, <2>2, <1>2, <1>5, ReaderOnly, Zenon
<1>6. CASE ~rd.lag /\ rd.queue = <<>> /\ Dropped(rd.life) /\ reader' = [reader EXCEPT ![r].at = "ended"]
  <2> DEFINE qd == [rd EXCEPT !.at = "ended"]
             l == rd.life
  <2>1. reader' = [reader EXCEPT ![r] = qd]
    BY <1>6, Zenon DEF OutputInv, WritersInv, OutputTypes
  <2>2. /\ qd \in ReaderRecords /\ qd.at = "ended" /\ qd.life = l /\ qd.raw = rd.raw /\ qd.from = rd.from
        /\ qd.seen = rd.seen /\ qd.done = rd.done /\ qd.plan = rd.plan /\ qd.queue = rd.queue
        /\ qd.lag = rd.lag /\ qd.told = rd.told /\ qd.got = rd.got
    BY <1>1, Zenon DEF ReaderRecords
  <2> HIDE DEF qd
  <2>3. PICK f \in final[l] : f \in Stored(l)
    BY <1>1, <1>3, <1>6, Zenon DEF Dropped, WritersInv, LivesFinish
  <2>4. f \in Sent(l)
    BY <2>3, <1>6, Zenon DEF Dropped, Stored, Sent, Behind
  <2>5. f \in Nat \ {0}
    BY <2>4, <1>1, <1>3, NumberFacts DEF WritersInv
  <2>6. Covered(rd, f)
    <3>1. Handled(rd, f) \/ Excused(rd, f) \/ (rd.raw /\ f \in Gone(l))
      <4>1. Elements(rd.queue) = {}
        BY <1>6 DEF Elements
      <4> QED BY <4>1, <2>4, <1>1, <1>3, <1>6, Zenon DEF ReaderSound, SentReaches, Missed
    <3>2. CASE rd.raw
      BY <3>1, <3>2, Zenon DEF Covered, Handled
    <3>3. CASE ~rd.raw
      <4>1. f <= rd.seen \/ Excused(rd, f)
        BY <3>1, <3>3, Zenon DEF Handled
      <4>2. CASE f <= rd.seen
        BY <4>2, <3>3, <2>5, <1>1, SeenCovered, Zenon
      <4>3. CASE Excused(rd, f)
        BY <4>3, Zenon DEF Covered
      <4> QED BY <4>1, <4>2, <4>3, Zenon
    <3> QED BY <3>2, <3>3, Zenon
  <2>7. Covered(qd, f)
    BY <2>2, <2>6, Zenon DEF Covered, Excused
  <2>8. ReaderSound(qd)
    BY <1>1, <2>2, <2>3, <2>7, Zenon DEF ReaderSound, ReaderPlace, NothingYet, Below, Excused, PlanSound,
         QueueSound, SentReaches, TerminalCovered
  <2> QED BY <2>1, <2>2, <2>8, <1>2, ReaderOnly, Zenon
<1> QED BY <1>4, <1>5, <1>6, Zenon DEF Receive

(* Every step keeps the invariant.                                         *)
LEMMA NextOutput == OutputInv /\ [OutputNext]_outputVars => OutputInv'
<1> SUFFICES ASSUME OutputInv, [OutputNext]_outputVars PROVE OutputInv'
  BY Zenon
<1>1. CASE \E w \in Writers : Number(w) \/ Store(w) \/ Flag(w) \/ Send(w)
  BY <1>1, WriterStep, Zenon
<1>2. CASE Expire
  BY <1>2, ExpireStep, Zenon
<1>3. CASE \E r \in Readers : \E from \in LastIds \cup {Fresh} : SubscribeFrom(r, from)
  BY <1>3, AttachStep, Zenon DEF SubscribeFrom
<1>4. CASE \E r \in Readers : SubscribeTerminal(r)
  BY <1>4, AttachStep, Zenon DEF SubscribeTerminal
<1>5. CASE \E r \in Readers : CopyHistory(r) \/ FromHistory(r) \/ Receive(r)
  BY <1>5, CopyStep, FromHistoryStep, ReceiveStep, Zenon
<1>6. CASE UNCHANGED outputVars
  <2>1. \A l \in 1..Lives :
           Unstored(l)' = Unstored(l) /\ Stored(l)' = Stored(l) /\ Unsent(l)' = Unsent(l) /\ Sent(l)' = Sent(l)
    BY <1>6, Zenon DEF Unstored, Stored, Unsent, Sent, Behind, outputVars
  <2>2. \A l \in 1..Lives : LateSwapped(l)' /\ HistoryOrdered(l)' /\ Gone(l)' = Gone(l)
    BY <1>6, <2>1, LifeKept, Zenon DEF OutputInv, WritersInv, outputVars
  <2>3. WritersInv'
    BY <1>6, <2>1, <2>2, ZenonT(60) DEF OutputInv, WritersInv, OutputTypes, NumbersOwned, LivesFinish, outputVars
  <2>4. Grows /\ last' \in 0..Lives /\ last \in Nat
    BY <1>6, <2>1, <2>2, OutputAssumption DEF OutputInv, WritersInv, OutputTypes, Grows, outputVars
  <2>5. ASSUME NEW q \in Readers PROVE ReaderSound(reader[q])'
    <3>1. PICK rd : rd = reader[q]
      BY Zenon
    <3>2. rd \in ReaderRecords /\ ReaderSound(rd) /\ reader'[q] = rd
      BY <3>1, <1>6, Zenon DEF OutputInv, WritersInv, OutputTypes, outputVars
    <3>3. rd.at \in {"copy", "plan", "live"} => Sent(rd.life)' = Sent(rd.life)
      BY <1>6, Zenon DEF Sent, Behind, outputVars
    <3>4. ReaderSound(rd)'
      BY <3>2, <3>3, <2>4, ReaderKept, Zenon
    <3> QED BY <3>2, <3>4, Zenon
  <2> QED BY <2>3, <2>5, Zenon DEF OutputInv
<1> QED BY <1>1, <1>2, <1>3, <1>4, <1>5, <1>6, Zenon DEF OutputNext

(* The invariant says what a reader can rely on.                           *)
LEMMA InvHonest == OutputInv => StreamHonest
<1> USE OutputAssumption
<1> SUFFICES ASSUME OutputInv, NEW r \in Readers
             PROVE  /\ LET rd == reader[r]
                           from == IF rd.from # Fresh THEN rd.from
                                   ELSE IF rd.got = <<>> THEN 0 ELSE Head(rd.got)
                       IN ~rd.raw /\ rd.got # <<>> =>
                            \A n \in (from + 1)..rd.seen : n \in Elements(rd.got) \cup swapped[rd.life] \/ rd.told
                    /\ LET rd == reader[r]
                       IN rd.at = "ended" =>
                            \E n \in final[rd.life] :
                               \/ n \in Elements(rd.got) \cup swapped[rd.life]
                               \/ rd.told
                               \/ rd.from # Fresh /\ n <= rd.from
                               \/ n \notin Elements(history[rd.life])
  BY Zenon DEF StreamHonest, NoSilentGap, EndsWithTerminal
<1> DEFINE rd == reader[r]
<1>1. rd \in ReaderRecords /\ ReaderSound(rd)
  BY Zenon DEF OutputInv, WritersInv, OutputTypes
<1>2. rd.got \in Seq(Nat \ {0}) /\ rd.seen \in Nat /\ (rd.from # Fresh => rd.from \in Nat)
  BY <1>1, Zenon DEF ReaderRecords
<1>3. ASSUME ~rd.raw, rd.got # <<>>
      PROVE  \A n \in ((IF rd.from # Fresh THEN rd.from ELSE Head(rd.got)) + 1)..rd.seen :
                n \in Elements(rd.got) \cup swapped[rd.life] \/ rd.told
  <2>1. Head(rd.got) \in Nat
    BY <1>2, <1>3
  <2> QED BY <2>1, <1>1, <1>2, <1>3, SMTT(40) DEF ReaderSound, Below, Excused
<1>4. ASSUME rd.at = "ended"
      PROVE  \E n \in final[rd.life] :
                \/ n \in Elements(rd.got) \cup swapped[rd.life]
                \/ rd.told
                \/ rd.from # Fresh /\ n <= rd.from
                \/ n \notin Elements(history[rd.life])
  BY <1>1, <1>4, Zenon DEF ReaderSound, TerminalCovered, Covered, Excused, Gone
<1> QED BY <1>3, <1>4, Zenon

(* A reader of the in-memory output stream never goes past a record        *)
(* without a word and is never ended without the terminal record or a      *)
(* reason not to have it, for any writers, readers, headers and bounds.    *)
THEOREM OutputReadersHonest == OutputSpec => []StreamHonest
<1>1. OutputInit => OutputInv
  BY InitOutput, Zenon
<1>2. OutputInv /\ [OutputNext]_outputVars => OutputInv'
  BY NextOutput, Zenon
<1>3. OutputInv => StreamHonest
  BY InvHonest, Zenon
<1> QED BY <1>1, <1>2, <1>3, PTL DEF OutputSpec

=============================================================================

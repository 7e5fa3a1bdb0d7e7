---------------------------- MODULE OutputStream ----------------------------
(***************************************************************************)
(* The hub's in-memory output stream of one job (MemoryOutputStream): the  *)
(* numbered records, the bounded history, the broadcast to live readers,   *)
(* and resumption from a Last-Event-ID.                                    *)
(*                                                                         *)
(* A writer takes its number, its place in the history and its place in    *)
(* the broadcast in three steps; the device's inbound loop and the timeout *)
(* task are such writers.  A reader subscribes to the broadcast before it  *)
(* copies the history.  When a finished job's retention is over its state  *)
(* leaves the map and the next access starts an empty one (a new life);    *)
(* whoever holds the old one keeps it.                                     *)
(***************************************************************************)
EXTENDS Naturals, Sequences, FiniteSets

CONSTANTS Writers,     \* pushes of one record each
          Finals,      \* those that push Finished
          Readers,     \* subscriptions
          LastIds,     \* Last-Event-ID headers a reader may bring
          Fresh,       \* no such header
          MaxHistory,  \* max_history
          Capacity,    \* of the broadcast channel
          Lives        \* bound: states the job may have, one after the other

ASSUME OutputAssumption ==
    /\ LastIds \subseteq Nat
    /\ Fresh \notin LastIds
    /\ MaxHistory \in Nat \ {0}
    /\ Capacity \in Nat \ {0}
    /\ Lives \in Nat

VARIABLES life,     \* the life in the map, or 0 when there is none
          last,     \* the latest life
          next,     \* per life: next_seq
          history,  \* per life: numbers of the records kept, oldest first
          finished, \* per life: the flag
          final,    \* per life: numbers of terminal records
          writer,   \* per writer: where it is, its life and its number
          reader,   \* per reader
          swapped     \* history: per life, numbers whose order was swapped

outputVars == <<life, last, next, history, finished, final, writer, reader, swapped>>

NoReader == [at |-> "idle", life |-> 0, raw |-> FALSE, from |-> Fresh, seen |-> 0, done |-> FALSE, plan |-> <<>>, queue |-> <<>>,
             lag |-> FALSE, told |-> FALSE, got |-> <<>>]

OutputInit ==
    /\ life = 0 /\ last = 0
    /\ next = [l \in 1..Lives |-> 0]
    /\ history = [l \in 1..Lives |-> <<>>]
    /\ finished = [l \in 1..Lives |-> FALSE]
    /\ final = [l \in 1..Lives |-> {}]
    /\ writer = [w \in Writers |-> [at |-> "idle", life |-> 0, seq |-> 0]]
    /\ reader = [r \in Readers |-> NoReader]
    /\ swapped = [l \in 1..Lives |-> {}]

Elements(s) == {s[i] : i \in DOMAIN s}

----------------------------------------------------------------------------
(* job_state: the life in the map, or a new one.                           *)
JobState(l) ==
    /\ l = IF life = 0 THEN last + 1 ELSE life
    /\ l <= Lives
    /\ life' = l
    /\ last' = IF life = 0 THEN l ELSE last

(* record: the number first, ...                                           *)
Number(w) ==
    /\ writer[w].at = "idle"
    /\ \E l \in 1..Lives :
          /\ JobState(l)
          /\ next' = [next EXCEPT ![l] = @ + 1]
          /\ writer' = [writer EXCEPT ![w] = [at |-> "store", life |-> l, seq |-> next[l] + 1]]
    /\ UNCHANGED <<history, finished, final, reader, swapped>>

Behind(l, at) == {writer[w].seq : w \in {w \in Writers : writer[w].life = l /\ writer[w].at \in at}}

(* Two records change places when the higher number goes ahead of a lower. *)
Swap(l, n, behind) ==
    LET lower == {m \in behind : m < n}
    IN swapped' = [swapped EXCEPT ![l] = IF lower = {} THEN @ ELSE @ \cup lower \cup {n}]

(* The oldest records beyond max_history are drained.                      *)
Trim(h) == IF Len(h) > MaxHistory THEN SubSeq(h, Len(h) - MaxHistory + 1, Len(h)) ELSE h

(* ... then the history, under its lock, ...                               *)
Store(w) ==
    LET n == writer[w].seq
        l == writer[w].life
    IN /\ writer[w].at = "store"
       /\ history' = [history EXCEPT ![l] = Trim(Append(@, n))]
       /\ Swap(l, n, Behind(l, {"store"}))
       /\ final' = [final EXCEPT ![l] = IF w \in Finals THEN @ \cup {n} ELSE @]
       /\ writer' = [writer EXCEPT ![w].at = IF w \in Finals THEN "flag" ELSE "send"]
       /\ UNCHANGED <<life, last, next, finished, reader>>

(* ... the flag of a terminal record, whose retention begins, ...          *)
Flag(w) ==
    /\ writer[w].at = "flag"
    /\ finished' = [finished EXCEPT ![writer[w].life] = TRUE]
    /\ writer' = [writer EXCEPT ![w].at = "send"]
    /\ UNCHANGED <<life, last, next, history, final, reader, swapped>>

Subscribed(r, l) == reader[r].life = l /\ reader[r].at \in {"copy", "plan", "live"}

(* A receiver that falls behind loses its oldest item.                     *)
Push(rd, n) ==
    IF Len(rd.queue) = Capacity
    THEN [rd EXCEPT !.queue = Append(Tail(@), n), !.lag = TRUE]
    ELSE [rd EXCEPT !.queue = Append(@, n)]

(* ... and the broadcast last.                                             *)
Send(w) ==
    LET n == writer[w].seq
        l == writer[w].life
    IN /\ writer[w].at = "send"
       /\ reader' = [r \in Readers |-> IF Subscribed(r, l) THEN Push(reader[r], n) ELSE reader[r]]
       /\ Swap(l, n, Behind(l, {"store", "flag", "send"}))
       /\ writer' = [writer EXCEPT ![w].at = "over"]
       /\ UNCHANGED <<life, last, next, history, finished, final>>

(* Mutant: a finished job's state stays.                                   *)
MutExpire ==
    /\ life # 0
    /\ finished[life]
    /\ UNCHANGED outputVars

(* The retention task of a finished job.                                   *)
Expire ==
    /\ life # 0
    /\ finished[life]
    /\ life' = 0
    /\ UNCHANGED <<last, next, history, finished, final, writer, reader, swapped>>

----------------------------------------------------------------------------
(* The flag and the subscription, ...                                      *)
Attach(r, from, raw) ==
    /\ reader[r].at = "idle"
    /\ \E l \in 1..Lives :
          /\ JobState(l)
          /\ reader' = [reader EXCEPT ![r] =
                [NoReader EXCEPT !.at = "copy", !.life = l, !.raw = raw, !.from = from,
                                 !.done = finished[l], !.seen = IF from = Fresh THEN 0 ELSE from]]
    /\ UNCHANGED <<next, history, finished, final, writer, swapped>>

SubscribeFrom(r, from) == Attach(r, from, FALSE)

(* A terminal socket's reader has no number to resume from and compares    *)
(* none.                                                                   *)
SubscribeTerminal(r) == Attach(r, Fresh, TRUE)

(* A reader that resumes hears of records trimmed before it came back.     *)
NeedsResync(from, h) == from # Fresh /\ h # <<>> /\ Head(h) > from + 1

(* Mutant: a resuming reader is not told.                                  *)
MutCopyHistory(r) ==
    /\ reader[r].at = "copy"
    /\ reader' = [reader EXCEPT ![r].at = "plan", ![r].plan = history[reader[r].life]]
    /\ UNCHANGED <<life, last, next, history, finished, final, writer, swapped>>

(* ... and a copy of the history.                                          *)
CopyHistory(r) ==
    LET h == history[reader[r].life]
    IN /\ reader[r].at = "copy"
       /\ reader' = [reader EXCEPT ![r].at = "plan", ![r].plan = h, ![r].told = NeedsResync(reader[r].from, h)]
       /\ UNCHANGED <<life, last, next, history, finished, final, writer, swapped>>

(* An item is skipped unless its number is above the last one; a terminal  *)
(* record ends the stream.                                                 *)
Deliver(rd, n) ==
    IF ~rd.raw /\ n <= rd.seen THEN rd
    ELSE [rd EXCEPT !.got = Append(@, n), !.seen = n, !.at = IF n \in final[rd.life] THEN "ended" ELSE @]

FromHistory(r) ==
    LET rd == reader[r]
    IN /\ rd.at = "plan"
       /\ reader' = [reader EXCEPT ![r] =
             IF rd.plan = <<>> THEN [rd EXCEPT !.at = IF rd.done THEN "ended" ELSE "live"]
             ELSE Deliver([rd EXCEPT !.plan = Tail(@)], Head(rd.plan))]
       /\ UNCHANGED <<life, last, next, history, finished, final, writer, swapped>>

(* The sender is gone: nobody holds the life.                              *)
Dropped(l) ==
    /\ life # l
    /\ \A w \in Writers : writer[w].life = l => writer[w].at = "over"
    /\ \A r \in Readers : ~(reader[r].life = l /\ reader[r].at = "copy")

Receive(r) ==
    LET rd == reader[r]
    IN /\ rd.at = "live"
       /\ \/ /\ rd.lag
             /\ reader' = [reader EXCEPT ![r].lag = FALSE, ![r].told = TRUE]
          \/ /\ ~rd.lag /\ rd.queue # <<>>
             /\ reader' = [reader EXCEPT ![r] = Deliver([rd EXCEPT !.queue = Tail(@)], Head(rd.queue))]
          \/ /\ ~rd.lag /\ rd.queue = <<>> /\ Dropped(rd.life)
             /\ reader' = [reader EXCEPT ![r].at = "ended"]
       /\ UNCHANGED <<life, last, next, history, finished, final, writer, swapped>>

----------------------------------------------------------------------------
OutputNext ==
    \/ \E w \in Writers : Number(w) \/ Store(w) \/ Flag(w) \/ Send(w)
    \/ Expire
    \/ \E r \in Readers :
          \/ \E from \in LastIds \cup {Fresh} : SubscribeFrom(r, from)
          \/ SubscribeTerminal(r) \/ CopyHistory(r) \/ FromHistory(r) \/ Receive(r)

OutputSpec == OutputInit /\ [][OutputNext]_outputVars

----------------------------------------------------------------------------
(* A reader never goes past a record without a word: below the last number *)
(* it delivered, a record it left out was delivered before its             *)
(* Last-Event-ID, or trimmed before a reader without one came, or changed  *)
(* places with another writer's, or the reader was sent a resync event.    *)
NoSilentGap ==
    \A r \in Readers :
        LET rd == reader[r]
            from == IF rd.from # Fresh THEN rd.from ELSE IF rd.got = <<>> THEN 0 ELSE Head(rd.got)
        IN ~rd.raw /\ rd.got # <<>> =>
             \A n \in (from + 1)..rd.seen : n \in Elements(rd.got) \cup swapped[rd.life] \/ rd.told

(* A stream ends with the terminal record, or because its reader had it    *)
(* already, or was sent a resync event, or could no longer get it: late    *)
(* records pushed it out of the history or it changed places with one.     *)
EndsWithTerminal ==
    \A r \in Readers :
        LET rd == reader[r]
        IN rd.at = "ended" =>
             \E n \in final[rd.life] :
                \/ n \in Elements(rd.got) \cup swapped[rd.life]
                \/ rd.told
                \/ rd.from # Fresh /\ n <= rd.from
                \/ n \notin Elements(history[rd.life])

(* Every stream of a job that finished ends, at the latest when the        *)
(* retention is over.                                                      *)
ReadersEnd ==
    \A r \in Readers : (reader[r].at = "live" /\ final[reader[r].life] # {}) ~> reader[r].at = "ended"

(* What a reader of the in-memory stream can rely on.                      *)
StreamHonest == NoSilentGap /\ EndsWithTerminal

=============================================================================

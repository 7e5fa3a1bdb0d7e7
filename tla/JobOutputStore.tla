--------------------------- MODULE JobOutputStore ---------------------------
(***************************************************************************)
(* The persistent output stream of one job: the Redis counter and stream   *)
(* several hub replicas append to, and the readers that copy the stream    *)
(* and then poll it from the last entry they saw.                          *)
(*                                                                         *)
(* An append is a sequence of commands on its replica's one writer         *)
(* connection, held for all of them; any of them may fail, which ends the  *)
(* append.  Entry ids are minted by Redis in order, across expiries too.   *)
(***************************************************************************)
EXTENDS Naturals, Sequences

CONSTANTS Appends,    \* append calls
          Finishes,   \* those that append Finished
          replica,    \* the hub replica of each
          Pollers,    \* subscriptions
          ResumeIds,  \* Last-Event-ID headers
          NoResume,   \* no such header
          Errors      \* bound: reads of a poller that may fail

ASSUME OutputStoreAssumption ==
    /\ ResumeIds \subseteq Nat
    /\ NoResume \notin ResumeIds
    /\ Errors \in Nat

VARIABLES seqKey,  \* the counter
          log,     \* the stream: id, number and kind of each entry
          lastId,  \* last id minted
          ttl,     \* keys with an expiry set
          append,  \* per append: the command it is at, its number
          poller,  \* per reader
          crossed, \* history: numbers written in another order than taken
          lost     \* history: the stream expired

storeVars == <<seqKey, log, lastId, ttl, append, poller, crossed, lost>>

NoPoller == [at |-> "idle", from |-> NoResume, seen |-> 0, pos |-> 0, plan |-> <<>>, told |-> FALSE, errors |-> 0,
             got |-> {}]

StoreInit ==
    /\ seqKey = 0 /\ log = <<>> /\ lastId = 0 /\ ttl = {}
    /\ append = [a \in Appends |-> [at |-> "idle", seq |-> 0]]
    /\ poller = [p \in Pollers |-> NoPoller]
    /\ crossed = {} /\ lost = FALSE

----------------------------------------------------------------------------
Holding(a) == append[a].at \notin {"idle", "over", "failed"}

(* writer.lock(): one append of a replica at a time.                       *)
Lock(a) ==
    /\ append[a].at = "idle"
    /\ \A b \in Appends : replica[b] = replica[a] => ~Holding(b)
    /\ append' = [append EXCEPT ![a].at = "incr"]
    /\ UNCHANGED <<seqKey, log, lastId, ttl, poller, crossed, lost>>

Incr(a) ==
    /\ append[a].at = "incr"
    /\ seqKey' = seqKey + 1
    /\ append' = [append EXCEPT ![a] = [at |-> "xadd", seq |-> seqKey + 1]]
    /\ UNCHANGED <<log, lastId, ttl, poller, crossed, lost>>

Xadd(a) ==
    LET n == append[a].seq
        lower == {append[b].seq : b \in {b \in Appends : append[b].at = "xadd" /\ append[b].seq < n}}
    IN /\ append[a].at = "xadd"
       /\ lastId' = lastId + 1
       /\ log' = Append(log, [id |-> lastId + 1, seq |-> n, final |-> a \in Finishes])
       /\ crossed' = IF lower = {} THEN crossed ELSE crossed \cup lower \cup {n}
       /\ append' = [append EXCEPT ![a].at = IF a \in Finishes THEN "stream" ELSE "over"]
       /\ UNCHANGED <<seqKey, ttl, poller, lost>>

(* A terminal record starts the expiry of the stream, then of the counter. *)
Pexpire(a) ==
    /\ append[a].at \in {"stream", "counter"}
    /\ ttl' = ttl \cup {append[a].at}
    /\ append' = [append EXCEPT ![a].at = IF @ = "stream" THEN "counter" ELSE "over"]
    /\ UNCHANGED <<seqKey, log, lastId, poller, crossed, lost>>

(* A command fails, executed or not by Redis: the rest is left undone.     *)
CommandFails(a) ==
    /\ Holding(a)
    /\ append' = [append EXCEPT ![a].at = "failed"]
    /\ UNCHANGED <<seqKey, log, lastId, ttl, poller, crossed, lost>>

(* Redis removes a key whose time is over.                                 *)
KeyExpires(k) ==
    /\ k \in ttl
    /\ ttl' = ttl \ {k}
    /\ IF k = "stream" THEN log' = <<>> /\ lost' = TRUE /\ UNCHANGED seqKey
                       ELSE seqKey' = 0 /\ lost' = TRUE /\ UNCHANGED log
    /\ UNCHANGED <<lastId, append, poller, crossed>>

----------------------------------------------------------------------------
(* persistent_history_needs_resync                                         *)
HistoryNeedsResync(from) ==
    /\ from # NoResume
    /\ IF log = <<>> THEN from > 0 ELSE Head(log).seq > from + 1

(* subscribe_from: the whole stream is read before the reader returns, ... *)
ReadHistory(p, from) ==
    /\ poller[p].at = "idle"
    /\ poller' = [poller EXCEPT ![p] = [NoPoller EXCEPT !.at = "history", !.from = from, !.plan = log,
                                            !.seen = IF from = NoResume THEN 0 ELSE from,
                                            !.told = HistoryNeedsResync(from)]]
    /\ UNCHANGED <<seqKey, log, lastId, ttl, append, crossed, lost>>

(* ... an entry moves the position, is delivered if its number is above    *)
(* the last, and ends the stream if it is terminal; ...                    *)
Handle(p, where) ==
    LET e == Head(poller[p].plan)
        at == [poller[p] EXCEPT !.plan = Tail(@), !.pos = e.id]
    IN /\ poller[p].at = where /\ poller[p].plan # <<>>
       /\ poller' = [poller EXCEPT ![p] =
             IF e.seq <= at.seen THEN at
             ELSE [at EXCEPT !.seen = e.seq, !.got = @ \cup {e.seq}, !.at = IF e.final THEN "ended" ELSE @]]
       /\ UNCHANGED <<seqKey, log, lastId, ttl, append, crossed, lost>>

(* Mutant: live reading starts at "$", the stream's current end.           *)
MutHistoryRead(p) ==
    /\ poller[p].at = "history" /\ poller[p].plan = <<>>
    /\ poller' = [poller EXCEPT ![p].at = "live", ![p].pos = lastId]
    /\ UNCHANGED <<seqKey, log, lastId, ttl, append, crossed, lost>>

HistoryRead(p) ==
    /\ poller[p].at = "history" /\ poller[p].plan = <<>>
    /\ poller' = [poller EXCEPT ![p].at = "live"]
    /\ UNCHANGED <<seqKey, log, lastId, ttl, append, crossed, lost>>

(* ... then it polls for what follows its position, or is told of an error.*)
ReadLive(p) ==
    /\ poller[p].at = "live" /\ poller[p].plan = <<>>
    /\ \/ \E i \in DOMAIN log :
             /\ log[i].id > poller[p].pos
             /\ \A j \in 1..(i - 1) : log[j].id <= poller[p].pos
             /\ poller' = [poller EXCEPT ![p].plan = SubSeq(log, i, Len(log))]
       \/ /\ poller[p].errors < Errors
          /\ poller' = [poller EXCEPT ![p].told = TRUE, ![p].errors = @ + 1]
    /\ UNCHANGED <<seqKey, log, lastId, ttl, append, crossed, lost>>

----------------------------------------------------------------------------
StoreNext ==
    \/ \E a \in Appends : Lock(a) \/ Incr(a) \/ Xadd(a) \/ Pexpire(a) \/ CommandFails(a)
    \/ \E k \in {"stream", "counter"} : KeyExpires(k)
    \/ \E p \in Pollers :
          \/ \E from \in ResumeIds \cup {NoResume} : ReadHistory(p, from)
          \/ Handle(p, "history") \/ HistoryRead(p) \/ ReadLive(p) \/ Handle(p, "live")

OutputStoreSpec == StoreInit /\ [][StoreNext]_storeVars

----------------------------------------------------------------------------
Logged == {log[i].seq : i \in DOMAIN log}

(* Until the job's keys expire, numbers name records: no two entries share *)
(* one, whichever replicas append and wherever they fail.                  *)
OneRecordPerNumber ==
    ~lost => \A i, j \in DOMAIN log : log[i].seq = log[j].seq => i = j

(* A reader passes over an entry only if it had it before its              *)
(* Last-Event-ID, if two replicas wrote in another order than they         *)
(* numbered, or if the job's keys expired; a failed read loses nothing.    *)
PollersMissNothing ==
    \A p \in Pollers :
        \A n \in Logged : n <= poller[p].seen =>
            \/ n \in poller[p].got \cup crossed
            \/ poller[p].from # NoResume /\ n <= poller[p].from
            \/ lost

(* A reader that comes back for an expired job is told so.                 *)
ExpiredIsTold ==
    \A p \in Pollers :
        (poller[p].at = "live" /\ poller[p].pos = 0 /\ poller[p].from \in ResumeIds \ {0}) => poller[p].told

(* What a reader of the Redis stream can rely on.                          *)
PollersHonest == OneRecordPerNumber /\ PollersMissNothing /\ ExpiredIsTold

=============================================================================

---------------------------- MODULE LocalControl -----------------------------
(***************************************************************************)
(* The daemon's local control socket: one task per connection that reads   *)
(* frames and one that writes them, the session modes of the callers, the  *)
(* approvals every connection is shown, and the log of refusals (whose     *)
(* entries live for a day, longer than anything here).  A reader handles   *)
(* one frame at a time (`busy`); jobs and approval waiters are tasks that  *)
(* hold a clone of their connection's sender.  The registry and the        *)
(* process itself are those of DaemonJobs.                                 *)
(***************************************************************************)
EXTENDS Naturals, Sequences, FiniteSets

CONSTANTS LocalConns,     \* connections
          CallerOf,       \* connection -> peer uid
          LocalJobs,      \* job requests, each under its own id
          JobConn,        \* job -> connection it is read from
          LocalPages,     \* browser requests
          PageConn,       \* browser request -> connection
          DefaultMode,    \* session mode of a new caller
          ModesSet,       \* modes a client may ask for
          MaxModeSets     \* bound: SetSessionMode frames

VARIABLES lmode,     \* caller -> session mode, "none" before it registers
          lfresh,    \* caller -> its trust has not expired
          sets,      \* SetSessionMode frames so far
          lconn,     \* connection -> off, open, draining, ended
          gone,      \* connections whose client has left
          busy,      \* connection -> what its reader is in the middle of
          sending,    \* connections whose send task runs
          lout,      \* connection -> frames queued for the send task
          heard,     \* request -> final answers its client got (history)
          ljob,      \* job -> where it stands
          reply,    \* job -> content of its oneshot channel
          lpend,     \* ApprovalManager.pending
          logged,    \* jobs with an entry in refusal_log
          why        \* job -> how it was let in or refused (history)

sessionVars == <<lmode, lfresh, sets>>
connVars == <<lconn, gone, busy>>
wireVars == <<sending, lout, heard>>
askVars == <<ljob, reply, lpend, logged, why>>
localVars == <<sessionVars, connVars, wireVars, askVars>>

Uids == {CallerOf[c] : c \in LocalConns}
AtRead == [at |-> "read", of |-> ""]
Asked(j) == [t |-> "ask", of |-> j]
Says(t, j) == [t |-> t, of |-> j]
Final == {"rejected", "finished", "page"}

LocalControlInit ==
    /\ lmode = [u \in Uids |-> "none"] /\ lfresh = [u \in Uids |-> FALSE] /\ sets = 0
    /\ lconn = [c \in LocalConns |-> "off"] /\ gone = {}
    /\ busy = [c \in LocalConns |-> AtRead]
    /\ sending = {} /\ lout = [c \in LocalConns |-> <<>>]
    /\ heard = [j \in LocalJobs \cup LocalPages |-> 0]
    /\ ljob = [j \in LocalJobs \cup LocalPages |-> "new"]
    /\ reply = [j \in LocalJobs |-> "none"] /\ lpend = {}
    /\ logged = {} /\ why = [j \in LocalJobs |-> "none"]

----------------------------------------------------------------------------
(* tx.send: lost once the send task has dropped its receiver.              *)
Queued(c, m) == IF c \in sending THEN [lout EXCEPT ![c] = Append(@, m)] ELSE lout

(* A known caller keeps its mode.                                          *)
RegisterCaller(u) ==
    IF lmode[u] # "none" THEN UNCHANGED <<lmode, lfresh>>
    ELSE /\ lmode' = [lmode EXCEPT ![u] = DefaultMode]
         /\ lfresh' = [lfresh EXCEPT ![u] = DefaultMode = "trust"]

(* The caller is registered and the send task spawned.                     *)
Accept(c) ==
    /\ lconn[c] = "off"
    /\ lconn' = [lconn EXCEPT ![c] = "open"]
    /\ RegisterCaller(CallerOf[c])
    /\ sending' = sending \cup {c}
    /\ UNCHANGED <<sets, gone, busy, lout, heard, askVars>>

ClientLeaves(c) ==
    /\ lconn[c] # "off" /\ c \notin gone
    /\ gone' = gone \cup {c}
    /\ UNCHANGED <<sessionVars, lconn, busy, wireVars, askVars>>

(* The tasks that hold a clone of their connection's sender.               *)
Spawned == {"wait", "timed", "noted", "run"}

(* Mutant: the reader's sender is not dropped before the send task is      *)
(* awaited.                                                                *)
MutClones(c) ==
    {j \in LocalJobs : JobConn[j] = c /\ ljob[j] \in Spawned}
      \cup {b \in LocalPages : PageConn[b] = c /\ ljob[b] = "run"}
      \cup (IF lconn[c] # "off" THEN {"reader"} ELSE {})

(* The reader's sender and those of the tasks it spawned.                  *)
Clones(c) ==
    {j \in LocalJobs : JobConn[j] = c /\ ljob[j] \in Spawned}
      \cup {b \in LocalPages : PageConn[b] = c /\ ljob[b] = "run"}
      \cup (IF lconn[c] = "open" THEN {"reader"} ELSE {})

(* rx.recv(): a write to a client that left ends the task; so does None.   *)
WriteFrame(c) ==
    /\ c \in sending
    /\ \/ /\ lout[c] # <<>> /\ c \notin gone
          /\ LET m == Head(lout[c])
             IN heard' = IF m.t \in Final THEN [heard EXCEPT ![m.of] = @ + 1] ELSE heard
          /\ lout' = [lout EXCEPT ![c] = Tail(@)]
          /\ UNCHANGED sending
       \/ /\ \/ lout[c] # <<>> /\ c \in gone
             \/ lout[c] = <<>> /\ Clones(c) = {}
          /\ sending' = sending \ {c}
          /\ lout' = [lout EXCEPT ![c] = <<>>]
          /\ UNCHANGED heard
    /\ UNCHANGED <<sessionVars, connVars, askVars>>

(* approval_rx.recv(): approvals asked for here or by the hub are written  *)
(* too, and one that a client has left before ends the task.  What was     *)
(* broadcast, and how many a slow client missed (Lagged is only logged),   *)
(* nothing here depends on.                                                *)
Forward(c) ==
    /\ c \in sending /\ c \in gone
    /\ sending' = sending \ {c}
    /\ lout' = [lout EXCEPT ![c] = <<>>]
    /\ UNCHANGED <<sessionVars, connVars, heard, askVars>>

----------------------------------------------------------------------------
Reading(c) == lconn[c] = "open" /\ busy[c] = AtRead

(* EOF, a read error or a frame over 16 MiB; drop(tx).                     *)
ReaderEnds(c) ==
    /\ Reading(c)
    /\ lconn' = [lconn EXCEPT ![c] = "draining"]
    /\ UNCHANGED <<sessionVars, gone, busy, wireVars, askVars>>

(* send_handle.await returns.                                              *)
ConnEnds(c) ==
    /\ lconn[c] = "draining" /\ c \notin sending
    /\ lconn' = [lconn EXCEPT ![c] = "ended"]
    /\ UNCHANGED <<sessionVars, gone, busy, wireVars, askVars>>

(* A JobRequest is read: no provider for its tool, a managed runtime asked *)
(* for a terminal, or an unreadable host refuse it before its session is   *)
(* looked at.                                                              *)
ReadJob(j) ==
    LET c == JobConn[j] IN
    /\ Reading(c) /\ ljob[j] = "new"
    /\ \/ /\ ljob' = [ljob EXCEPT ![j] = "over"] /\ why' = [why EXCEPT ![j] = "incapable"]
          /\ lout' = Queued(c, Says("rejected", j)) /\ UNCHANGED busy
       \/ /\ ljob' = [ljob EXCEPT ![j] = "check"] /\ UNCHANGED <<why, lout>>
          /\ busy' = [busy EXCEPT ![c] = [at |-> "job", of |-> j]]
    /\ UNCHANGED <<sessionVars, lconn, gone, sending, heard, reply, lpend, logged>>

(* SessionManager::check.                                                  *)
Trusted(u) == lmode[u] = "trust" /\ lfresh[u]
SessionCheck(j) ==
    LET c == JobConn[j] u == CallerOf[c] IN
    /\ ljob[j] = "check"
    /\ busy' = IF lmode[u] = "strict" THEN busy ELSE [busy EXCEPT ![c] = AtRead]
    /\ CASE lmode[u] = "strict" ->
              /\ ljob' = [ljob EXCEPT ![j] = "submit"] /\ UNCHANGED <<why, lout, lmode>>
         [] lmode[u] = "auto" \/ Trusted(u) ->
              /\ ljob' = [ljob EXCEPT ![j] = "run"] /\ why' = [why EXCEPT ![j] = lmode[u]]
              /\ UNCHANGED <<lout, lmode>>
         [] OTHER ->
              /\ ljob' = [ljob EXCEPT ![j] = "over"] /\ why' = [why EXCEPT ![j] = "inactive"]
              /\ lout' = Queued(c, Says("rejected", j))
              /\ lmode' = [lmode EXCEPT ![u] = "inactive"]
    /\ UNCHANGED <<lfresh, sets, lconn, gone, sending, heard, reply,
                   lpend, logged>>

(* ApprovalManager::submit; the asking client is told twice, once directly *)
(* and once by the broadcast.                                              *)
Submit(j) ==
    LET c == JobConn[j] IN
    /\ ljob[j] = "submit"
    /\ lpend' = lpend \cup {j}
    /\ lout' = Queued(c, Asked(j))
    /\ ljob' = [ljob EXCEPT ![j] = "wait"]
    /\ busy' = [busy EXCEPT ![c] = AtRead]
    /\ UNCHANGED <<sessionVars, lconn, gone, sending, heard, reply, logged, why>>

----------------------------------------------------------------------------
(* apply_approval_response, from any connection: the entry goes, and the   *)
(* answer is lost if the waiter has given up.  A denial with a reason is   *)
(* logged in a second step.                                                *)
ResolveLocal(c, j, verdict) ==
    /\ Reading(c) /\ j \in lpend
    /\ lpend' = lpend \ {j}
    /\ reply' = IF ljob[j] = "wait" THEN [reply EXCEPT ![j] = verdict] ELSE reply
    /\ busy' = IF verdict = "reasoned" THEN [busy EXCEPT ![c] = [at |-> "record", of |-> j]] ELSE busy
    /\ UNCHANGED <<sessionVars, lconn, gone, wireVars, ljob, logged, why>>

RecordRefusal(c) ==
    /\ busy[c].at = "record"
    /\ logged' = logged \cup {busy[c].of}
    /\ busy' = [busy EXCEPT ![c] = AtRead]
    /\ UNCHANGED <<sessionVars, lconn, gone, wireVars, ljob, reply, lpend, why>>

(* The waiting task: granted, denied (which logs the refusal once more) or *)
(* out of time.                                                            *)
Granted(j) ==
    /\ ljob[j] = "wait" /\ reply[j] = "approved"
    /\ ljob' = [ljob EXCEPT ![j] = "run"] /\ why' = [why EXCEPT ![j] = "approved"]
    /\ UNCHANGED <<sessionVars, connVars, wireVars, reply, lpend, logged>>

Denied(j) ==
    /\ ljob[j] = "wait" /\ reply[j] \in {"reasoned", "denied"}
    /\ ljob' = [ljob EXCEPT ![j] = "noted"] /\ why' = [why EXCEPT ![j] = reply[j]]
    /\ logged' = IF reply[j] = "reasoned" THEN logged \cup {j} ELSE logged
    /\ UNCHANGED <<sessionVars, connVars, wireVars, reply, lpend>>

ApprovalTimer(j) ==
    /\ ljob[j] = "wait" /\ reply[j] = "none"
    /\ ljob' = [ljob EXCEPT ![j] = "timed"] /\ why' = [why EXCEPT ![j] = "timed out"]
    /\ UNCHANGED <<sessionVars, connVars, wireVars, reply, lpend, logged>>

(* Mutant: the entry of a request that timed out is not removed.           *)
MutExpireLocal(j) ==
    /\ ljob[j] \in {"noted", "timed"}
    /\ ljob' = [ljob EXCEPT ![j] = "over"]
    /\ lout' = Queued(JobConn[j], Says("rejected", j))
    /\ UNCHANGED <<sessionVars, connVars, sending, heard, reply, lpend, logged, why>>

(* approval_mgr.expire, then JobRejected.                                  *)
ExpireLocal(j) ==
    /\ ljob[j] \in {"noted", "timed"}
    /\ ljob' = [ljob EXCEPT ![j] = "over"]
    /\ lpend' = lpend \ {j}
    /\ lout' = Queued(JobConn[j], Says("rejected", j))
    /\ UNCHANGED <<sessionVars, connVars, sending, heard, reply, logged, why>>

(* run_job_with_provider returns, whichever executor it took.              *)
JobEnds(j) ==
    /\ ljob[j] = "run"
    /\ ljob' = [ljob EXCEPT ![j] = "over"]
    /\ lout' = Queued(JobConn[j], Says("finished", j))
    /\ UNCHANGED <<sessionVars, connVars, sending, heard, reply, lpend, logged, why>>

(* A BrowserRequest: refused for want of the capability or by the domain   *)
(* check, else run in a task.  The caller's session is not looked at.      *)
ReadPage(b) ==
    LET c == PageConn[b] IN
    /\ Reading(c) /\ ljob[b] = "new"
    /\ \/ /\ ljob' = [ljob EXCEPT ![b] = "over"] /\ lout' = Queued(c, Says("page", b))
       \/ ljob' = [ljob EXCEPT ![b] = "run"] /\ UNCHANGED lout
    /\ UNCHANGED <<sessionVars, connVars, sending, heard, reply, lpend, logged, why>>

PageEnds(b) ==
    /\ ljob[b] = "run"
    /\ ljob' = [ljob EXCEPT ![b] = "over"]
    /\ lout' = Queued(PageConn[b], Says("page", b))
    /\ UNCHANGED <<sessionVars, connVars, sending, heard, reply, lpend, logged, why>>

----------------------------------------------------------------------------
(* SetSessionMode for any caller, from a connection or from the hub; what  *)
(* it is answered with, and session queries, change nothing.               *)
SetMode(u, m) ==
    /\ sets < MaxModeSets /\ sets' = sets + 1
    /\ lmode' = [lmode EXCEPT ![u] = m]
    /\ lfresh' = [lfresh EXCEPT ![u] = m = "trust"]
    /\ UNCHANGED <<connVars, wireVars, askVars>>

TrustLapses(u) ==
    /\ lfresh[u]
    /\ lfresh' = [lfresh EXCEPT ![u] = FALSE]
    /\ UNCHANGED <<lmode, sets, connVars, wireVars, askVars>>

LocalTask(j) == Granted(j) \/ Denied(j) \/ ApprovalTimer(j) \/ ExpireLocal(j) \/ JobEnds(j)
LocalReader(c) ==
    \/ RecordRefusal(c)
    \/ \E j \in LocalJobs : JobConn[j] = c /\ (SessionCheck(j) \/ Submit(j))

LocalControlNext ==
    \/ \E c \in LocalConns :
          \/ Accept(c) \/ ClientLeaves(c) \/ WriteFrame(c) \/ Forward(c) \/ ReaderEnds(c)
          \/ ConnEnds(c) \/ LocalReader(c)
          \/ \E j \in LocalJobs, v \in {"approved", "denied", "reasoned"} : ResolveLocal(c, j, v)
    \/ \E j \in LocalJobs : ReadJob(j) \/ LocalTask(j)
    \/ \E b \in LocalPages : ReadPage(b) \/ PageEnds(b)
    \/ \E u \in Uids : TrustLapses(u) \/ \E m \in ModesSet : SetMode(u, m)

----------------------------------------------------------------------------
Home(j) == IF j \in LocalJobs THEN JobConn[j] ELSE PageConn[j]
Coming(j) == SelectSeq(lout[Home(j)], LAMBDA m : m.t \in Final /\ m.of = j)

(* A request that is over has been answered once on its connection, unless *)
(* the client left; until then nothing is said of it.  Holds across        *)
(* denials, timers and senders that outlive the reader.                    *)
AnsweredOnce ==
    \A j \in LocalJobs \cup LocalPages :
        LET said == heard[j] + Len(Coming(j))
        IN  /\ said <= 1
            /\ said = 1 => ljob[j] = "over"
            /\ (ljob[j] = "over" /\ Home(j) \notin gone) => said = 1

(* A pending approval has a task behind it that will answer or expire it: *)
(* nobody is left looking at a request that cannot be answered.            *)
EntriesAwaited == \A j \in lpend : ljob[j] \in {"wait", "timed"}

(* What runs was let in by a mode that allows it or by a user's word, and  *)
(* a request that timed out never does, whatever is answered later.        *)
RunsByLeave ==
    \A j \in LocalJobs :
        /\ ljob[j] = "run" => why[j] \in {"trust", "auto", "approved"}
        /\ why[j] = "approved" => reply[j] = "approved"
        /\ ljob[j] = "wait" => j \in lpend \/ reply[j] # "none"

(* A reasoned denial that its client has heard of is in the log that the   *)
(* next request for the tool is shown with; nothing granted is.            *)
DenialsLogged ==
    \A j \in LocalJobs :
        /\ why[j] = "reasoned" /\ ljob[j] = "over" => j \in logged
        /\ j \in logged => why[j] # "approved"

(* The local socket's promises, and that a connection whose reader ended   *)
(* is let go once the tasks that may still write to it are done.           *)
LocalSound ==
    /\ [](AnsweredOnce /\ EntriesAwaited /\ RunsByLeave /\ DenialsLogged)
    /\ \A c \in LocalConns : lconn[c] = "draining" ~> lconn[c] = "ended"
=============================================================================

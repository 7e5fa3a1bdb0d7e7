------------------------------ MODULE OpenClaw ------------------------------
(***************************************************************************)
(* The daemon as a node of an OpenClaw gateway: the reconnecting client    *)
(* with its handshake, and the invocations, which the reading loop awaits  *)
(* in place: while a command runs, or a user is asked, no frame is read.   *)
(* Replies go through a queue and a send task that live as long as the     *)
(* connection.  A ping queues a pong and a tick does nothing; neither is   *)
(* kept.                                                                   *)
(***************************************************************************)
EXTENDS Integers, Sequences, FiniteSets

CONSTANTS Invocations,  \* what the gateway may ask: records, see the MC module
          ConfiguredId, \* OpenClawConfig.node_id, or 0
          BasePath,     \* the daemon's PATH, a sequence of directories
          NoOverride,   \* no PATH among the invocation's variables
          OutputCap,    \* OUTPUT_CAP
          EventTail,    \* OUTPUT_EVENT_TAIL
          MaxBackoff,   \* 30 s
          MaxConns,     \* bound: connections
          MaxReads      \* bound: invocations read

VARIABLES
    gwConn,     \* number of the connection, 0 before the first
    gwSocket,   \* the socket works
    clawPc,     \* what the loop is doing
    helloSent, helloOk, pairAsked,   \* connect_sent, connected, pairing_requested
    backoff,    \* seconds before the next attempt
    nodeId,     \* the node id in the pairing file, 0 if it has none
    work,       \* the invocation being handled, with its number and connection
    reads,      \* invocations read so far
    entry,      \* the approval manager has this run's entry
    verdict,    \* what came through the waiter's channel
    child,      \* the last child: its PATH, its output and how it ended
    outq,       \* messages queued for the send task
    sender,     \* the send task runs
    wire,       \* messages written to the socket, with the connection they went to
    approvals,  \* version of the exec approvals file, 0 if there is none
    edits       \* history: the host wrote that file since handle_set read it

clawVars == <<gwConn, gwSocket, clawPc, helloSent, helloOk, pairAsked, backoff, nodeId, work,
              reads, entry, verdict, child, outq, sender, wire, approvals, edits>>
linkVars == <<gwConn, gwSocket, helloSent, helloOk, pairAsked, backoff, nodeId, sender, wire>>
runVars == <<entry, verdict, child>>

NoWork == [n |-> 0, conn |-> 0, ask |-> [cmd |-> "none"]]
NoChild == [path |-> BasePath, out |-> 0, cut |-> FALSE, told |-> FALSE, ran |-> 0]

ClawInit ==
    /\ gwConn = 0 /\ gwSocket = FALSE /\ clawPc = "down"
    /\ helloSent = FALSE /\ helloOk = FALSE /\ pairAsked = FALSE
    /\ backoff = 1 /\ nodeId = 0 /\ work = NoWork /\ reads = 0
    /\ entry = FALSE /\ verdict = "none" /\ child = NoChild
    /\ outq = <<>> /\ sender = FALSE /\ wire = <<>> /\ approvals = 0 /\ edits = FALSE

----------------------------------------------------------------------------
(* run: the pause after a connection that ended well is one second, after  *)
(* a failed one it doubles.                                                *)
Pause(ok) == LET b == IF ok THEN 1 ELSE backoff
             IN  IF 2 * b > MaxBackoff THEN MaxBackoff ELSE 2 * b

(* connect, with the pairing file read, completed and saved.               *)
Dial ==
    /\ clawPc = "down" /\ gwConn < MaxConns
    /\ gwConn' = gwConn + 1 /\ gwSocket' = TRUE /\ clawPc' = "reading"
    /\ nodeId' = IF nodeId # 0 THEN nodeId
                 ELSE IF ConfiguredId # 0 THEN ConfiguredId ELSE gwConn + 1
    /\ helloSent' = FALSE /\ helloOk' = FALSE /\ pairAsked' = FALSE
    /\ sender' = TRUE /\ outq' = <<>>
    /\ UNCHANGED <<backoff, work, reads, runVars, wire, approvals, edits>>

(* The gateway does not answer, or a file cannot be read or written.       *)
DialFails ==
    /\ clawPc = "down" /\ gwConn < MaxConns
    /\ gwConn' = gwConn + 1 /\ backoff' = Pause(FALSE)
    /\ UNCHANGED <<gwSocket, clawPc, helloSent, helloOk, pairAsked, nodeId, work, reads, runVars,
                   outq, sender, wire, approvals, edits>>

(* The loop ended: the send task is aborted with what it has not written.  *)
HangUp ==
    /\ clawPc' = "down" /\ gwSocket' = FALSE /\ sender' = FALSE /\ outq' = <<>>
    /\ backoff' = Pause(TRUE)
    /\ UNCHANGED <<gwConn, helloSent, helloOk, pairAsked, nodeId, work, reads, runVars, wire,
                   approvals, edits>>

(* The stream ends or fails, a close frame, or a pairing approved: the     *)
(* last is read only from a socket that works.                             *)
ConnectionEnds == clawPc = "reading" /\ HangUp

Message(kind) == [n |-> work.n, conn |-> work.conn, kind |-> kind]
Queue(msgs) == outq' = IF sender THEN outq \o msgs ELSE outq

(* send_connect, on a challenge with a nonce or 750 ms into the connection.*)
SendConnect ==
    /\ clawPc = "reading" /\ ~helloSent
    /\ helloSent' = TRUE
    /\ Queue(<<[n |-> 0, conn |-> gwConn, kind |-> "connect"]>>)
    /\ UNCHANGED <<gwConn, gwSocket, clawPc, helloOk, pairAsked, backoff, nodeId, work, reads,
                   runVars, sender, wire, approvals, edits>>

(* A response: a HelloOk, or an error, NOT_PAIRED among them.              *)
Response(ok) ==
    /\ clawPc = "reading" /\ gwSocket
    /\ [n |-> 0, conn |-> gwConn, kind |-> "connect"] \in {wire[i].msg : i \in DOMAIN wire}
    /\ IF ok THEN helloOk' = TRUE /\ pairAsked' = FALSE
             ELSE pairAsked' \in {pairAsked, TRUE} /\ UNCHANGED helloOk
    /\ UNCHANGED <<gwConn, gwSocket, clawPc, helloSent, backoff, nodeId, work, reads, runVars,
                   outq, sender, wire, approvals, edits>>

(* The send task writes, or stops at a socket that is broken.              *)
SendTask ==
    /\ sender /\ outq # <<>>
    /\ IF gwSocket
       THEN /\ wire' = Append(wire, [at |-> gwConn, msg |-> Head(outq)])
            /\ outq' = Tail(outq) /\ UNCHANGED sender
       ELSE sender' = FALSE /\ outq' = <<>> /\ UNCHANGED wire
    /\ UNCHANGED <<gwConn, gwSocket, clawPc, helloSent, helloOk, pairAsked, backoff, nodeId, work,
                   reads, runVars, approvals, edits>>

(* The network.                                                            *)
LinkBreaks ==
    /\ gwSocket /\ gwSocket' = FALSE
    /\ UNCHANGED <<gwConn, clawPc, helloSent, helloOk, pairAsked, backoff, nodeId, work, reads,
                   runVars, outq, sender, wire, approvals, edits>>

----------------------------------------------------------------------------
(* A reply: the event of a system.run, then the result.                    *)
Reply(kinds) ==
    /\ Queue([i \in DOMAIN kinds |-> Message(kinds[i])])
    /\ clawPc' = "reading" /\ work' = NoWork

(* node.invoke.request, read once connected.                               *)
Invoke ==
    /\ clawPc = "reading" /\ gwSocket /\ helloOk /\ reads < MaxReads
    /\ \E a \in Invocations : work' = [n |-> reads + 1, conn |-> gwConn, ask |-> a]
    /\ reads' = reads + 1 /\ clawPc' = "handling"
    /\ verdict' = "none" /\ edits' = FALSE
    /\ UNCHANGED <<linkVars, entry, child, outq, approvals>>

(* handle_invoke: unknown commands, parameters that do not decode or are   *)
(* empty, system.which and execApprovals.get are answered at once.         *)
AnswerAtOnce ==
    /\ clawPc = "handling"
    /\ work.ask.cmd \notin {"run", "set"} \/ ~work.ask.valid
    /\ Reply(<<"result">>)
    /\ UNCHANGED <<linkVars, runVars, reads, approvals, edits>>

(* handle_system_run: the session decides; where it asks for an approval,  *)
(* the gateway's own decision counts, and only without one is the user     *)
(* asked.                                                                  *)
SystemRun(decision) ==
    /\ clawPc = "handling" /\ work.ask.cmd = "run" /\ work.ask.valid
    /\ LET d == IF decision = "approval" THEN work.ask.approval ELSE decision
       IN  CASE d = "deny" -> Reply(<<"denied", "result">>) /\ UNCHANGED entry
             [] d = "missing" -> clawPc' = "waiting" /\ entry' = TRUE /\ UNCHANGED <<work, outq>>
             [] d = "allow" -> clawPc' = "spawning" /\ UNCHANGED <<work, outq, entry>>
    /\ verdict' = IF clawPc' = "waiting" THEN "asked" ELSE "none"
    /\ UNCHANGED <<linkVars, reads, child, approvals, edits>>

(* An answer through any of the daemon's doors: the first one wins.        *)
UserDecides(yes) ==
    /\ entry /\ entry' = FALSE
    /\ verdict' = IF yes THEN "yes" ELSE "no"
    /\ UNCHANGED <<linkVars, clawPc, work, reads, child, outq, approvals, edits>>

(* await_local_approval: the answer, or the timer.                         *)
Answered ==
    /\ clawPc = "waiting" /\ verdict # "asked"
    /\ IF verdict = "yes" THEN clawPc' = "spawning" ELSE clawPc' = "expiring"
    /\ UNCHANGED <<linkVars, work, reads, runVars, outq, approvals, edits>>

WaitTimesOut ==
    /\ clawPc = "waiting" /\ verdict = "asked"
    /\ clawPc' = "expiring"
    /\ UNCHANGED <<linkVars, work, reads, runVars, outq, approvals, edits>>

(* Mutant: the entry of a run that was not approved stays.                 *)
MutExpireDenied ==
    /\ clawPc = "expiring"
    /\ Reply(<<"denied", "result">>)
    /\ UNCHANGED <<linkVars, reads, runVars, approvals, edits>>

(* expire, then denied_system_run.                                         *)
ExpireDenied ==
    /\ clawPc = "expiring"
    /\ entry' = FALSE
    /\ Reply(<<"denied", "result">>)
    /\ UNCHANGED <<linkVars, reads, verdict, child, approvals, edits>>

----------------------------------------------------------------------------
(* path_override_is_prepend_only                                           *)
PrependOnly(over) ==
    /\ over # <<>>
    /\ LET k == Len(over) - Len(BasePath)
       IN  k >= 0 /\ SubSeq(over, k + 1, Len(over)) = BasePath

(* sanitize_env, the PATH of it.                                           *)
ChildPath(over) == IF over # NoOverride /\ PrependOnly(over) THEN over ELSE BasePath

(* The reader of a pipe: a line is kept while the output is below the cap. *)
Collected(lines) ==
    LET upTo[i \in 0..Len(lines)] ==
          IF i = 0 THEN 0
          ELSE IF upTo[i - 1] < OutputCap THEN upTo[i - 1] + lines[i] ELSE upTo[i - 1]
    IN  upTo[Len(lines)]
Total(lines) ==
    LET upTo[i \in 0..Len(lines)] == IF i = 0 THEN 0 ELSE upTo[i - 1] + lines[i]
    IN  upTo[Len(lines)]

(* run_command: a child that cannot be spawned is a result all the same.   *)
Spawn(ok) ==
    /\ clawPc = "spawning"
    /\ child' = [NoChild EXCEPT !.path = ChildPath(work.ask.path), !.ran = work.n]
    /\ IF ok THEN clawPc' = "running" /\ UNCHANGED <<work, outq>>
             ELSE Reply(<<"finished", "result">>)
    /\ UNCHANGED <<linkVars, reads, entry, verdict, approvals, edits>>

(* The child exits, or its time is up and it is killed.                    *)
ChildGone ==
    /\ clawPc = "running"
    /\ clawPc' = "draining"
    /\ UNCHANGED <<linkVars, work, reads, runVars, outq, approvals, edits>>

(* Both pipes are read to their ends, however long someone keeps them      *)
(* open; one mark says that either was cut.  truncate_output keeps the     *)
(* last bytes of the event's text: where they begin inside a character,    *)
(* slicing panics and the client's task is gone.                           *)
Drained ==
    /\ clawPc = "draining"
    /\ LET o == Collected(work.ask.out)
           e == Collected(work.ask.err)
       IN  /\ child' = [child EXCEPT
                 !.out = o + e,
                 !.cut = Total(work.ask.out) > o \/ Total(work.ask.err) > e,
                 !.told = o >= OutputCap \/ e >= OutputCap]
           /\ \/ Reply(<<"finished", "result">>)
              \/ /\ work.ask.wide /\ o + e > EventTail
                 /\ clawPc' = "dead" /\ UNCHANGED <<work, outq>>
    /\ UNCHANGED <<linkVars, reads, entry, verdict, approvals, edits>>

----------------------------------------------------------------------------
(* handle_exec_approvals_set: a file that exists is replaced only under    *)
(* the hash it has; reading or writing it may fail.                        *)
CheckBase ==
    /\ clawPc = "handling" /\ work.ask.cmd = "set" /\ work.ask.valid
    /\ \/ Reply(<<"result">>)
       \/ /\ approvals = 0 \/ work.ask.base = approvals
          /\ clawPc' = "saving" /\ UNCHANGED <<work, outq>>
    /\ UNCHANGED <<linkVars, reads, runVars, approvals, edits>>

SaveApprovals(ok) ==
    /\ clawPc = "saving"
    /\ approvals' = IF ok THEN work.ask.new ELSE approvals
    /\ Reply(<<"result">>)
    /\ UNCHANGED <<linkVars, reads, runVars, edits>>

(* The user edits the file.                                                *)
HostEdits ==
    /\ clawPc \in {"reading", "saving"} /\ approvals = 1 /\ approvals' = 2
    /\ edits' = TRUE
    /\ UNCHANGED <<linkVars, clawPc, work, reads, runVars, outq>>

ClawNext ==
    \/ Dial \/ DialFails \/ ConnectionEnds \/ SendConnect \/ SendTask \/ LinkBreaks
    \/ \E ok \in BOOLEAN : Response(ok) \/ UserDecides(ok) \/ Spawn(ok) \/ SaveApprovals(ok)
    \/ Invoke \/ AnswerAtOnce
    \/ \E d \in {"allow", "deny", "approval"} : SystemRun(d)
    \/ Answered \/ WaitTimesOut \/ ExpireDenied \/ ChildGone \/ Drained
    \/ CheckBase \/ HostEdits

ClawSpec == ClawInit /\ [][ClawNext]_clawVars

----------------------------------------------------------------------------
(* Every message goes out on the connection its invocation came from, in   *)
(* the order they were read, once, a run's event right before its result:  *)
(* a reconnect in the middle of a run loses the reply, never misplaces it. *)
RepliesInPlace ==
    /\ \A i \in DOMAIN wire : wire[i].at = wire[i].msg.conn
    /\ \A i, j \in DOMAIN wire :
          i < j /\ wire[i].at = wire[j].at =>
            \/ wire[i].msg.n < wire[j].msg.n
            \/ wire[i].msg.n = wire[j].msg.n /\ j = i + 1 /\ wire[j].msg.kind = "result"

(* While frames are read nobody waits for a user: no entry of an earlier   *)
(* run is left to be answered (await_local_approval expires it).           *)
NoForgottenEntry == clawPc \in {"reading", "down", "handling"} => ~entry

(* A child runs only with an approval that came in time, if one was asked. *)
RunsApproved == clawPc \in {"running", "draining"} => verdict \in {"none", "yes"} /\ ~entry

(* Output that was dropped is marked as cut, and a child's PATH always     *)
(* ends with the daemon's own.                                             *)
ChildHonest ==
    /\ child.cut => child.told
    /\ \E k \in 0..Len(child.path) : SubSeq(child.path, k + 1, Len(child.path)) = BasePath

(* A node keeps its id over reconnects, and the approvals file is replaced *)
(* only over the version the gateway has seen, but for an edit of the host *)
(* between the check and the write.                                        *)
NodeStep ==
    /\ nodeId # 0 => nodeId' = nodeId
    /\ (clawPc = "saving" /\ clawPc' # "saving" /\ approvals' # approvals /\ approvals # 0) =>
          edits \/ work.ask.base = approvals

(* What the gateway can rely on.                                           *)
NodeKeepsWord ==
    /\ [](RepliesInPlace /\ NoForgottenEntry /\ RunsApproved /\ ChildHonest)
    /\ [][NodeStep]_clawVars
=============================================================================

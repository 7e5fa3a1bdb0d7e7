------------------------------ MODULE MCDaemon -------------------------------
(* The daemon's jobs and its local socket, on small instances.  They share *)
(* no state here: a behaviour runs one of them, its part.                  *)
EXTENDS DaemonJobs, LocalControl

(* Two connections of one user: a job read from one, a page from the other.*)
TheCallers == [c \in LocalConns |-> "u"]
TheJobConns == [j \in LocalJobs |-> "c1"]
ThePageConns == [b \in LocalPages |-> "c2"]

VARIABLE part

daemonVars == <<part, vars, localVars>>

DaemonInit == part \in {"jobs", "local"} /\ Init /\ LocalControlInit

DaemonNext ==
    \/ part = "jobs" /\ Next /\ UNCHANGED <<part, localVars>>
    \/ part = "local" /\ LocalControlNext /\ UNCHANGED <<part, vars>>

(* Senders, readers in the middle of a frame, waiters, jobs and pages go on *)
(* (an approval ends by its timer); clients need not leave or answer, and   *)
(* nothing more need be broadcast.                                         *)
LocalFairness ==
    /\ \A c \in LocalConns :
        /\ WF_localVars(part = "local" /\ WriteFrame(c))
        /\ WF_localVars(part = "local" /\ (ConnEnds(c) \/ LocalReader(c)))
    /\ \A j \in LocalJobs : WF_localVars(part = "local" /\ LocalTask(j))
    /\ \A b \in LocalPages : WF_localVars(part = "local" /\ PageEnds(b))

(* As in FairSpec.                                                         *)
JobsFairness ==
    /\ \A l \in Loops : WF_vars(part = "jobs" /\ Handle(l))
    /\ \A r \in Runs :
        SF_vars(part = "jobs" /\ Task(r)) /\ WF_vars(part = "jobs" /\ Waiter(r))

DaemonSpec == DaemonInit /\ [][DaemonNext]_daemonVars /\ LocalFairness /\ JobsFairness
=============================================================================

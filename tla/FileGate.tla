----------------------------- MODULE FileGate -----------------------------
(* How the daemon admits file and browser requests of the hub              *)
(* (ahand_client.rs handle_file_request, handle_browser_request): the      *)
(* capability, the policy's pre-check, the caller's session mode and, for  *)
(* files, the user's approval, awaited by a task that also watches the     *)
(* connection.  The reading loop of a connection serves one message at a   *)
(* time and runs admitted operations itself; approved ones run in their    *)
(* waiter.  A request id may be delivered again.                           *)
EXTENDS Naturals, FiniteSets

CONSTANTS
    FileCalls,      \* deliveries of file requests
    requestOf,      \* delivery -> its request_id
    BrowserCalls,   \* deliveries of browser requests
    MaxConns,       \* bound on connections
    NoFileCall

VARIABLES
    conn,           \* the number of the connection; later ones after a close
    open,           \* whether it is open
    reading,        \* what its loop is serving
    gate,           \* delivery -> its stage
    conOf,          \* delivery -> the connection it came on
    held,           \* request_id -> delivery whose approval is pending
    ruling,         \* delivery -> "none", "approved", "denied", "closed" (its channel)
    gateReply       \* delivery -> what the hub was told

gateVars == <<conn, open, reading, gate, conOf, held, ruling, gateReply>>

RequestIds == {requestOf[f] : f \in FileCalls}
AllCalls == FileCalls \cup BrowserCalls

GateInit ==
    /\ conn = 1 /\ open = TRUE
    /\ reading = NoFileCall
    /\ gate = [f \in AllCalls |-> "new"]
    /\ conOf = [f \in AllCalls |-> 0]
    /\ held = [i \in RequestIds |-> NoFileCall]
    /\ ruling = [f \in FileCalls |-> "none"]
    /\ gateReply = [f \in AllCalls |-> "none"]

Arrive(f) ==
    /\ open /\ reading = NoFileCall /\ gate[f] = "new"
    /\ reading' = f
    /\ gate' = [gate EXCEPT ![f] = "gate"]
    /\ conOf' = [conOf EXCEPT ![f] = conn]
    /\ UNCHANGED <<conn, open, held, ruling, gateReply>>

Refused(f) ==
    /\ reading = f /\ gate[f] = "gate"
    /\ gate' = [gate EXCEPT ![f] = "done"]
    /\ gateReply' = [gateReply EXCEPT ![f] = "PolicyDenied"]
    /\ reading' = NoFileCall
    /\ UNCHANGED <<conn, open, conOf, held, ruling>>

(* No capability, a path the policy denies, or an inactive session.        *)
GateRefuses(f) == f \in FileCalls /\ Refused(f)

(* No capability, an inactive session, or a domain that is not allowed.    *)
BrowserRefuses(f) == f \in BrowserCalls /\ Refused(f)

(* The session allows it and the policy does not escalate: the loop runs   *)
(* it.  A browser request runs in strict mode too.                         *)
GateAdmits(f) ==
    /\ reading = f /\ gate[f] = "gate"
    /\ gate' = [gate EXCEPT ![f] = "inline"]
    /\ UNCHANGED <<conn, open, reading, conOf, held, ruling, gateReply>>

(* file_mgr.handle, or browser_mgr.execute, in the loop; then the reply.   *)
InlineDone(f) ==
    /\ reading = f /\ gate[f] = "inline"
    /\ gate' = [gate EXCEPT ![f] = "done"]
    /\ gateReply' = [gateReply EXCEPT ![f] = "result"]
    /\ reading' = NoFileCall
    /\ UNCHANGED <<conn, open, conOf, held, ruling>>

(* Strict mode, or a dangerous path: submit replaces a pending entry of    *)
(* the id, whose waiter sees its channel closed.                           *)
AskUser(f) ==
    /\ f \in FileCalls
    /\ reading = f /\ gate[f] = "gate"
    /\ gate' = [gate EXCEPT ![f] = "waiting"]
    /\ ruling' = IF held[requestOf[f]] = NoFileCall THEN ruling
                 ELSE [ruling EXCEPT ![held[requestOf[f]]] = "closed"]
    /\ held' = [held EXCEPT ![requestOf[f]] = f]
    /\ reading' = NoFileCall
    /\ UNCHANGED <<conn, open, conOf, gateReply>>

(* The user answers; the answer may come from any connection or from IPC.  *)
UserAnswers(i, a) ==
    /\ held[i] # NoFileCall
    /\ ruling' = [ruling EXCEPT ![held[i]] = a]
    /\ held' = [held EXCEPT ![i] = NoFileCall]
    /\ UNCHANGED <<conn, open, reading, gate, conOf, gateReply>>

Waiting(f) == f \in FileCalls /\ gate[f] = "waiting"

Approved(f) ==
    /\ Waiting(f) /\ ruling[f] = "approved"
    /\ gate' = [gate EXCEPT ![f] = "run"]
    /\ UNCHANGED <<conn, open, reading, conOf, held, ruling, gateReply>>

(* Mutant: the waiter has no timer.                                        *)
MutNotApproved(f) ==
    /\ Waiting(f) /\ ruling[f] = "denied"
    /\ gate' = [gate EXCEPT ![f] = "expire"]
    /\ UNCHANGED <<conn, open, reading, conOf, held, ruling, gateReply>>

(* Denied, timed out (the timer only wins while there is no answer), or    *)
(* the channel closed: the entry goes, then the reply.                     *)
NotApproved(f) ==
    /\ Waiting(f) /\ ruling[f] # "approved"
    /\ gate' = [gate EXCEPT ![f] = "expire"]
    /\ UNCHANGED <<conn, open, reading, conOf, held, ruling, gateReply>>

(* close_rx changed: the waiter leaves without a reply.                    *)
ConnectionClosed(f) ==
    /\ Waiting(f) /\ (conOf[f] # conn \/ ~open)
    /\ gate' = [gate EXCEPT ![f] = "leave"]
    /\ UNCHANGED <<conn, open, reading, conOf, held, ruling, gateReply>>

WaiterLeaves(f) ==
    /\ f \in FileCalls /\ gate[f] \in {"expire", "leave"}
    /\ gate' = [gate EXCEPT ![f] = "done"]
    /\ gateReply' = [gateReply EXCEPT ![f] = IF gate[f] = "expire" THEN "PolicyDenied" ELSE "gone"]
    /\ UNCHANGED <<conn, open, reading, conOf>>

(* expire takes whatever is pending under the id, whose waiter then sees   *)
(* its channel closed.                                                     *)
ExpireEntry(f) ==
    /\ WaiterLeaves(f)
    /\ held' = [held EXCEPT ![requestOf[f]] = NoFileCall]
    /\ ruling' = LET h == held[requestOf[f]] IN
                 IF h \in {NoFileCall, f} THEN ruling ELSE [ruling EXCEPT ![h] = "closed"]

(* The approved operation runs and is answered.                            *)
RunApproved(f) ==
    /\ gate[f] = "run"
    /\ gate' = [gate EXCEPT ![f] = "done"]
    /\ gateReply' = [gateReply EXCEPT ![f] = "result"]
    /\ UNCHANGED <<conn, open, reading, conOf, held, ruling>>

(* The connection ends, its loop with it; the daemon connects again.       *)
CloseConn ==
    /\ open /\ open' = FALSE
    /\ gate' = [f \in AllCalls |-> IF reading = f THEN "done" ELSE gate[f]]
    /\ gateReply' = [f \in AllCalls |-> IF reading = f THEN "gone" ELSE gateReply[f]]
    /\ reading' = NoFileCall
    /\ UNCHANGED <<conn, conOf, held, ruling>>

Reconnect ==
    /\ ~open /\ conn < MaxConns
    /\ open' = TRUE /\ conn' = conn + 1
    /\ UNCHANGED <<reading, gate, conOf, held, ruling, gateReply>>

GateStep(f) ==
    GateRefuses(f) \/ BrowserRefuses(f) \/ GateAdmits(f) \/ InlineDone(f) \/ AskUser(f)
        \/ Approved(f) \/ NotApproved(f) \/ ConnectionClosed(f) \/ ExpireEntry(f) \/ RunApproved(f)

GateNext ==
    \/ \E f \in AllCalls : Arrive(f) \/ GateStep(f)
    \/ \E i \in RequestIds, a \in {"approved", "denied"} : UserAnswers(i, a)
    \/ CloseConn \/ Reconnect

----------------------------------------------------------------------------
Unanswered == {f \in AllCalls : gate[f] # "new" /\ gateReply[f] = "none"}

(* Every request that arrived is answered, unless its connection is gone.  *)
FileCallsAnswered ==
    (\E f \in AllCalls : gate[f] = "gate") ~> Unanswered = {}

============================================================================

-------------------------- MODULE PendingRequests --------------------------
(***************************************************************************)
(* Request/response calls from HTTP handlers to a device: file operations  *)
(* (the bounded table PendingFileRequests, whose request id the dashboard  *)
(* client may choose), browser commands and app-tool calls (plain maps     *)
(* under fresh uuids).  A call registers a oneshot, sends the request,     *)
(* waits with a timeout; a guard dropped on every way out removes the      *)
(* slot.  The device's response takes the slot from the frame handler.     *)
(*                                                                         *)
(* register, resolve and cancel are synchronous but run on any thread:     *)
(* each atomic access (counter, map) is a step.  The device may answer a   *)
(* request any number of times (frames are replayed after a reconnect).    *)
(***************************************************************************)
EXTENDS Naturals, FiniteSets

CONSTANTS Files,     \* file calls
          Plain,     \* browser and app-tool calls
          Keys,      \* request ids (with their device)
          key,       \* per call: its request id
          Capacity,  \* PendingFileRequests.capacity
          None

Calls == Files \cup Plain

(* Browser and app-tool ids are minted per call.                           *)
ASSUME PendingAssumption ==
    /\ Files \cap Plain = {}
    /\ IsFiniteSet(Calls)
    /\ IsFiniteSet(Keys)
    /\ key \in [Calls -> Keys]
    /\ \A c \in Plain, d \in Calls : key[c] = key[d] => c = d
    /\ Capacity \in Nat
    /\ None \notin Calls

VARIABLES pending,   \* per key: the call whose sender is in the map, or None
          inFlight,  \* PendingFileRequests.in_flight
          pc,        \* per call: where its handler is
          slot,      \* per call: its oneshot
          taken,     \* per call: what is left to do by the one who took its sender
          asked,     \* calls whose request reached the device
          result     \* per call: what the handler returns

vars == <<pending, inFlight, pc, slot, taken, asked, result>>

Points == {"new", "reserved", "full", "dup", "send", "wait", "guard", "release", "done"}
Results == {"none", "ok", "timeout", "closed", "offline", "capacity", "duplicate", "gone"}

(* The shape of the table and of the handlers.                             *)
TypeOK ==
    /\ pending \in [Keys -> Calls \cup {None}]
    /\ inFlight \in Nat
    /\ pc \in [Calls -> Points]
    /\ slot \in [Calls -> {"open", "answer", "closed"}]
    /\ taken \in [Calls -> {"no", "count", "answer"}]
    /\ asked \in SUBSET Calls
    /\ result \in [Calls -> Results]

Init ==
    /\ pending = [k \in Keys |-> None]
    /\ inFlight = 0
    /\ pc = [c \in Calls |-> "new"]
    /\ slot = [c \in Calls |-> "open"]
    /\ taken = [c \in Calls |-> "no"]
    /\ asked = {}
    /\ result = [c \in Calls |-> "none"]

Goto(c, p) == pc' = [pc EXCEPT ![c] = p]
Return(c, r) == result' = [result EXCEPT ![c] = r]

----------------------------------------------------------------------------
(* PendingFileRequests::register: fetch_add and the test of its result ... *)
Reserve(c) ==
    /\ pc[c] = "new"
    /\ inFlight' = inFlight + 1
    /\ Goto(c, IF inFlight + 1 > Capacity THEN "full" ELSE "reserved")
    /\ UNCHANGED <<pending, slot, taken, asked, result>>

(* Mutant: insert in place of entry.                                       *)
MutTakeSlot(c) ==
    LET old == pending[key[c]] IN
    /\ pc[c] = "reserved"
    /\ pending' = [pending EXCEPT ![key[c]] = c]
    /\ slot' = IF old = None THEN slot ELSE [slot EXCEPT ![old] = "closed"]
    /\ Goto(c, "send")
    /\ UNCHANGED <<inFlight, taken, asked, result>>

(* ... then the map entry, occupied or vacant ...                          *)
TakeSlot(c) ==
    /\ pc[c] = "reserved"
    /\ IF pending[key[c]] # None
       THEN Goto(c, "dup") /\ UNCHANGED pending
       ELSE Goto(c, "send") /\ pending' = [pending EXCEPT ![key[c]] = c]
    /\ UNCHANGED <<inFlight, slot, taken, asked, result>>

(* ... and the reservation handed back when either refused.                *)
HandBack(c) ==
    /\ pc[c] \in {"full", "dup"}
    /\ inFlight' = inFlight - 1
    /\ Goto(c, "done")
    /\ Return(c, IF pc[c] = "full" THEN "capacity" ELSE "duplicate")
    /\ UNCHANGED <<pending, slot, taken, asked>>

(* browser_service::execute, app_tool_service::invoke: refused when the    *)
(* device is offline (or unknown, or not capable), else inserted.          *)
Insert(c) ==
    /\ pc[c] = "new"
    /\ \/ Goto(c, "done") /\ Return(c, "offline") /\ UNCHANGED pending
       \/ Goto(c, "send") /\ pending' = [pending EXCEPT ![key[c]] = c] /\ UNCHANGED result
    /\ UNCHANGED <<inFlight, slot, taken, asked>>

(* send_envelope; it may fail before or after the request is on its way.   *)
SendRequest(c) ==
    /\ pc[c] = "send"
    /\ \/ asked' = asked \cup {c} /\ Goto(c, "wait") /\ UNCHANGED result
       \/ /\ asked' \in {asked, asked \cup {c}}
          /\ Goto(c, "guard")
          /\ Return(c, "offline")
    /\ UNCHANGED <<pending, inFlight, slot, taken>>

(* timeout(.., rx): the receiver is polled before the deadline.            *)
Receive(c) ==
    /\ pc[c] = "wait"
    /\ slot[c] # "open"
    /\ Goto(c, "guard")
    /\ Return(c, IF slot[c] = "answer" THEN "ok" ELSE "closed")
    /\ UNCHANGED <<pending, inFlight, slot, taken, asked>>

Timeout(c) ==
    /\ pc[c] = "wait"
    /\ slot[c] = "open"
    /\ Goto(c, "guard")
    /\ Return(c, "timeout")
    /\ UNCHANGED <<pending, inFlight, slot, taken, asked>>

(* The HTTP client goes away and the handler's future is dropped.          *)
Abandon(c) ==
    /\ pc[c] \in {"send", "wait"}
    /\ Goto(c, "guard")
    /\ Return(c, "gone")
    /\ asked' \in IF pc[c] = "send" THEN {asked, asked \cup {c}} ELSE {asked}
    /\ UNCHANGED <<pending, inFlight, slot, taken>>

(* The guard's drop: cancel removes whatever sender the key has, ...       *)
DropGuard(c) ==
    LET k == key[c] IN
    /\ pc[c] = "guard"
    /\ pending' = [pending EXCEPT ![k] = None]
    /\ slot' = IF pending[k] = None THEN slot ELSE [slot EXCEPT ![pending[k]] = "closed"]
    /\ Goto(c, IF c \in Files /\ pending[k] # None THEN "release" ELSE "done")
    /\ UNCHANGED <<inFlight, taken, asked, result>>

(* ... and then lowers the counter.                                        *)
ReleaseCount(c) ==
    /\ pc[c] = "release"
    /\ inFlight' = inFlight - 1
    /\ Goto(c, "done")
    /\ UNCHANGED <<pending, slot, taken, asked, result>>

----------------------------------------------------------------------------
(* A response to c's request: the frame handler takes the sender its key   *)
(* has now (none: a warning), ...                                          *)
Respond(c) ==
    LET d == pending[key[c]] IN
    /\ c \in asked
    /\ d # None
    /\ pending' = [pending EXCEPT ![key[c]] = None]
    /\ taken' = [taken EXCEPT ![d] = IF d \in Files THEN "count" ELSE "answer"]
    /\ UNCHANGED <<inFlight, pc, slot, asked, result>>

(* ... lowers the counter for a file response, ...                         *)
ResolveCount(c) ==
    /\ taken[c] = "count"
    /\ inFlight' = inFlight - 1
    /\ taken' = [taken EXCEPT ![c] = "answer"]
    /\ UNCHANGED <<pending, pc, slot, asked, result>>

(* ... and answers.                                                        *)
ResolveSend(c) ==
    /\ taken[c] = "answer"
    /\ slot' = [slot EXCEPT ![c] = "answer"]
    /\ taken' = [taken EXCEPT ![c] = "no"]
    /\ UNCHANGED <<pending, inFlight, pc, asked, result>>

----------------------------------------------------------------------------
Handler(c) ==
    \/ TakeSlot(c) \/ HandBack(c) \/ SendRequest(c) \/ Receive(c) \/ Timeout(c)
    \/ DropGuard(c) \/ ReleaseCount(c)

Resolve(c) == ResolveCount(c) \/ ResolveSend(c)

Next ==
    \/ \E c \in Files : Reserve(c)
    \/ \E c \in Plain : Insert(c)
    \/ \E c \in Calls : Handler(c) \/ Abandon(c) \/ Respond(c) \/ Resolve(c)

Spec == Init /\ [][Next]_vars

----------------------------------------------------------------------------
Held == {k \in Keys : pending[k] \in Files}
Counted == {c \in Calls : pc[c] \in {"reserved", "full", "dup", "release"}}
Resolving == {c \in Calls : taken[c] = "count"}

(* The counter never drifts from the table, whatever the interleaving of   *)
(* register, resolve and cancel: it counts the slots, the reservations and *)
(* the removals that have yet to lower it (so it never wraps below zero).  *)
CountsSlots ==
    inFlight = Cardinality(Held) + Cardinality(Counted) + Cardinality(Resolving)

(* "This makes the cap race-free": concurrent registers never hold more    *)
(* than the capacity between them.                                         *)
CapHolds ==
    Cardinality(Held) + Cardinality({c \in Calls : pc[c] = "reserved"}) <= Capacity

(* No leak: a sender in the map belongs to a handler that has yet to drop  *)
(* its guard, on every way out of it.                                      *)
SlotsOwned ==
    \A k \in Keys : pending[k] # None =>
        key[pending[k]] = k /\ pc[pending[k]] \in {"send", "wait", "guard"}

(* A waiter loses its channel without an answer only if another call with  *)
(* its request id was answered: entry never clobbers a waiter, and a guard *)
(* removes another call's slot only after resolve had emptied its own.     *)
NeverClobbered ==
    \A c \in Calls : result[c] = "closed" =>
        \E d \in Calls \ {c} :
            key[d] = key[c] /\ (slot[d] = "answer" \/ taken[d] # "no")

(* What the table of pending requests promises: an exact counter, a cap    *)
(* that holds, no leaked slot and no waiter clobbered.                     *)
TablesSound == CountsSlots /\ CapHolds /\ SlotsOwned /\ NeverClobbered

=============================================================================

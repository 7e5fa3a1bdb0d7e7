----------------------------- MODULE EventFeed -----------------------------
(***************************************************************************)
(* Dashboard events across the hub's replicas.  An emission is broadcast   *)
(* to the dashboards of its own process and then published to Redis; every *)
(* replica's relay receives what is published, its own replica's events    *)
(* included, and broadcasts the others'.  Emissions run concurrently, a    *)
(* broadcast receiver that falls more than the channel's capacity behind   *)
(* loses the oldest events, and a relay whose subscription breaks loses    *)
(* what is published until it has a new one.                               *)
(***************************************************************************)
EXTENDS Naturals, Sequences

CONSTANTS Hubs,
          FeedEvents, EventHome,    \* [FeedEvents -> Hubs]: the replica that emits
          Dashboards, DashHub,  \* [Dashboards -> Hubs]: the replica a socket is on
          FeedCapacity,         \* broadcast::channel(256)
          MaxBreaks             \* bound: relay subscriptions lost

VARIABLES emission,   \* per event: "no", "local" (broadcast), "done" (published)
          broadcast,  \* per hub: everything its channel was given
          relayUp,    \* per hub: the relay is subscribed
          relayQueue, \* per hub: published events its relay has not read
          dashPos,    \* per dashboard: events its receiver is past
          dashSaw,    \* per dashboard: positions of the events sent to it, 0: resync
          dashOpen,
          relayBreaks

feedVars == <<emission, broadcast, relayUp, relayQueue, dashPos, dashSaw, dashOpen,
              relayBreaks>>

EventFeedInit ==
    /\ emission = [e \in FeedEvents |-> "no"]
    /\ broadcast = [h \in Hubs |-> <<>>]
    /\ relayUp = [h \in Hubs |-> TRUE]
    /\ relayQueue = [h \in Hubs |-> <<>>]
    /\ dashPos = [d \in Dashboards |-> 0]
    /\ dashSaw = [d \in Dashboards |-> <<>>]
    /\ dashOpen = [d \in Dashboards |-> FALSE]
    /\ relayBreaks = 0

Dash == <<dashPos, dashSaw, dashOpen>>
Relay == <<relayUp, relayQueue, relayBreaks>>
Feed(d) == broadcast[DashHub[d]]

----------------------------------------------------------------------------
(* EventBus::publish, first half: tx.send; nobody listening is no error.   *)
EmitLocal(e) ==
    /\ emission[e] = "no"
    /\ emission' = [emission EXCEPT ![e] = "local"]
    /\ broadcast' = [broadcast EXCEPT ![EventHome[e]] = Append(@, e)]
    /\ UNCHANGED Dash /\ UNCHANGED Relay

(* Second half: every subscribed relay gets the envelope, or the publish   *)
(* fails, which is logged and reported as success.                         *)
PublishFanout(e) ==
    /\ emission[e] = "local"
    /\ emission' = [emission EXCEPT ![e] = "done"]
    /\ relayQueue' = [h \in Hubs |-> IF relayUp[h] THEN Append(relayQueue[h], e)
                                     ELSE relayQueue[h]]
    /\ UNCHANGED <<broadcast, relayUp, relayBreaks>> /\ UNCHANGED Dash

PublishFails(e) ==
    /\ emission[e] = "local"
    /\ relayBreaks < MaxBreaks
    /\ emission' = [emission EXCEPT ![e] = "done"]
    /\ relayBreaks' = relayBreaks + 1
    /\ UNCHANGED <<broadcast, relayUp, relayQueue>> /\ UNCHANGED Dash

(* Mutant: the relay does not compare the origin.                          *)
MutRelayReads(h) ==
    /\ relayQueue[h] # <<>>
    /\ relayQueue' = [relayQueue EXCEPT ![h] = Tail(@)]
    /\ broadcast' = [broadcast EXCEPT ![h] = Append(@, Head(relayQueue[h]))]
    /\ UNCHANGED <<emission, relayUp, relayBreaks>> /\ UNCHANGED Dash

(* The relay's loop: an event of its own replica was broadcast already.    *)
RelayReads(h) ==
    /\ relayQueue[h] # <<>>
    /\ relayQueue' = [relayQueue EXCEPT ![h] = Tail(@)]
    /\ broadcast' = IF EventHome[Head(relayQueue[h])] = h THEN broadcast
                    ELSE [broadcast EXCEPT ![h] = Append(@, Head(relayQueue[h]))]
    /\ UNCHANGED <<emission, relayUp, relayBreaks>> /\ UNCHANGED Dash

(* The subscription ends; the relay subscribes again, retrying on errors.  *)
RelayLost(h) ==
    /\ relayUp[h]
    /\ relayBreaks < MaxBreaks
    /\ relayUp' = [relayUp EXCEPT ![h] = FALSE]
    /\ relayQueue' = [relayQueue EXCEPT ![h] = <<>>]
    /\ relayBreaks' = relayBreaks + 1
    /\ UNCHANGED <<emission, broadcast>> /\ UNCHANGED Dash

RelaySubscribes(h) ==
    /\ ~relayUp[h]
    /\ relayUp' = [relayUp EXCEPT ![h] = TRUE]
    /\ UNCHANGED <<emission, broadcast, relayQueue, relayBreaks>> /\ UNCHANGED Dash

----------------------------------------------------------------------------
(* run_dashboard_socket subscribes once the socket is authenticated.       *)
DashboardOpens(d) ==
    /\ ~dashOpen[d]
    /\ dashSaw[d] = <<>>
    /\ dashOpen' = [dashOpen EXCEPT ![d] = TRUE]
    /\ dashPos' = [dashPos EXCEPT ![d] = Len(Feed(d))]
    /\ UNCHANGED <<emission, broadcast, dashSaw>> /\ UNCHANGED Relay

(* events.recv(): the next event, or Lagged when the channel has dropped   *)
(* it, which moves the receiver to the oldest one kept and is told to the  *)
(* browser as system.resync.                                               *)
DashboardRecv(d) ==
    /\ dashOpen[d]
    /\ dashPos[d] < Len(Feed(d))
    /\ LET oldest == Len(Feed(d)) - FeedCapacity IN
       IF dashPos[d] < oldest
       THEN /\ dashPos' = [dashPos EXCEPT ![d] = oldest]
            /\ dashSaw' = [dashSaw EXCEPT ![d] = Append(@, 0)]
       ELSE /\ dashPos' = [dashPos EXCEPT ![d] = @ + 1]
            /\ dashSaw' = [dashSaw EXCEPT ![d] = Append(@, dashPos[d] + 1)]
    /\ UNCHANGED <<emission, broadcast, dashOpen>> /\ UNCHANGED Relay

(* Close, a socket error or a failed send ends the loop.                   *)
DashboardCloses(d) ==
    /\ dashOpen[d]
    /\ dashOpen' = [dashOpen EXCEPT ![d] = FALSE]
    /\ UNCHANGED <<emission, broadcast, dashPos, dashSaw>> /\ UNCHANGED Relay

EventFeedNext ==
    \/ \E e \in FeedEvents : EmitLocal(e) \/ PublishFanout(e) \/ PublishFails(e)
    \/ \E h \in Hubs : RelayReads(h) \/ RelayLost(h) \/ RelaySubscribes(h)
    \/ \E d \in Dashboards : DashboardOpens(d) \/ DashboardRecv(d) \/ DashboardCloses(d)

EventFeedSpec == EventFeedInit /\ [][EventFeedNext]_feedVars

----------------------------------------------------------------------------
(* No replica broadcasts an event twice: its own come back from Redis and  *)
(* are told apart by the origin.                                           *)
NoEcho ==
    \A h \in Hubs : \A i, j \in DOMAIN broadcast[h] :
        broadcast[h][i] = broadcast[h][j] => i = j

(* A dashboard that is shown an event was shown the one before it on its   *)
(* replica, or told to reload: falling behind is never silent.             *)
GapsAreTold ==
    \A d \in Dashboards : \A i \in 1..(Len(dashSaw[d]) - 1) :
        (dashSaw[d][i] # 0 /\ dashSaw[d][i+1] # 0) => dashSaw[d][i+1] = dashSaw[d][i] + 1

(* While Redis was never interrupted, an event every relay has read is on  *)
(* every replica's channel: replicas show their dashboards the same set.   *)
ReplicasAgree ==
    (relayBreaks = 0 /\ \A h \in Hubs : relayQueue[h] = <<>>) =>
        \A e \in FeedEvents : emission[e] = "done" =>
            \A h \in Hubs : \E i \in DOMAIN broadcast[h] : broadcast[h][i] = e

(* What a dashboard may rely on.                                           *)
FeedFaithful == [][(NoEcho /\ GapsAreTold /\ ReplicasAgree)']_feedVars
=============================================================================

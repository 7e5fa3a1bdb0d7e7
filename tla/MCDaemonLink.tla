---------------------------- MODULE MCDaemonLink ----------------------------
(* DaemonLink on a small instance: one job beside the heartbeat.           *)
EXTENDS DaemonLink
=============================================================================

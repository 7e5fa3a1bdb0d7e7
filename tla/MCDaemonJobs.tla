---------------------------- MODULE MCDaemonJobs ----------------------------
(* DaemonJobs on small instances.                                          *)
EXTENDS DaemonJobs, TLC

JobsSymmetry == Permutations(Runs) \cup Permutations(Ids) \cup Permutations(Loops)
=============================================================================

---------------------------- MODULE MCJobRuntime ----------------------------
(* Small instances of JobRuntime for model checking.                       *)
EXTENDS JobRuntime

CONSTANTS j1, r1, r2
=============================================================================

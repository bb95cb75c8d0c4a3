---------------------------- MODULE MCTaskRunner ----------------------------
(* TaskRunner for TLC.  One ID that is launched again and again, next to tasks
   without one, is what registration and late cancellations need. *)
EXTENDS TaskRunner
=============================================================================

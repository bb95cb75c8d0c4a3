--------------------------- MODULE MCTaskRecovery ---------------------------
(* TaskRecovery for TLC: two tasks that share an operation. *)
EXTENDS TaskRecovery, TLC

CONSTANTS t1, t2, sync

ShareOne == (t1 :> sync) @@ (t2 :> sync)
=============================================================================

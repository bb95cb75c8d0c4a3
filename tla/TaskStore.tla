------------------------------ MODULE TaskStore ------------------------------
(***************************************************************************)
(* backend/internal/taskstore: the task table, the recovery checkpoints,   *)
(* the reservations of exclusive operations and the tombstones of deleted  *)
(* tasks, as the transactions of the store change them.  Each transaction  *)
(* is one action; who calls it and when is open, so what holds here holds  *)
(* for every order of workers, handlers, dispatcher and startup.           *)
(***************************************************************************)
CONSTANTS
    Tasks,        (* task IDs                                              *)
    Operations,   (* keys returned by activeOperationKey                   *)
    OperationOf,  (* the key of each task's operation                      *)
    NoOperation,  (* activeOperationKey returned ""                        *)
    NoTask        (* an operation nobody has reserved                      *)

ASSUME StoreAssumption ==
    /\ NoOperation \notin Operations
    /\ NoTask \notin Tasks
    /\ OperationOf \in [Tasks -> Operations \cup {NoOperation}]

Active   == {"queued", "running", "waiting_input"}
Terminal == {"succeeded", "partial", "failed", "cancelled"}

VARIABLES
    status,     (* tasks.status; "deleted": in deleted_tasks, not in tasks *)
    checkpoint, (* the tasks that have a task_recovery row                 *)
    reserved    (* active_task_operations                                  *)

storeVars == <<status, checkpoint, reserved>>

StoreInit ==
    /\ status = [t \in Tasks |-> "absent"]
    /\ checkpoint = {}
    /\ reserved = [o \in Operations |-> NoTask]

IsActive(t) == status[t] \in Active
SetStatus(t, s) == status' = [status EXCEPT ![t] = s]

(* The operators whose comment begins with "Bug" are not part of the model:
   each is a mistake that one of the properties below would find.

   Bug: the reservations of ended tasks are kept. *)
KeepReservations(S) == UNCHANGED reserved

(* DELETE FROM active_task_operations WHERE task_id IN S. *)
Unreserve(S) == reserved' = [o \in Operations |-> IF reserved[o] \in S THEN NoTask ELSE reserved[o]]

(* The insert that reserves t's operation, or finds it reserved for t. *)
CanReserve(t) == OperationOf[t] # NoOperation => reserved[OperationOf[t]] \in {NoTask, t}

Reserve(t) == reserved' = IF OperationOf[t] = NoOperation THEN reserved
                          ELSE [reserved EXCEPT ![OperationOf[t]] = t]

(* The transaction that ends a set of tasks drops what they held. *)
Drop(S) == checkpoint' = checkpoint \ S /\ Unreserve(S)

(* Bug: a late save overwrites a verdict. *)
WritableUnlessDeleted(t, s) == status[t] # "deleted"

(* The upsert takes effect: neither ErrTaskDeleted nor ErrTaskTerminal.  A
   verdict may be written again, never changed. *)
Writable(t, s) ==
    /\ status[t] # "deleted"
    /\ status[t] \in Terminal => s = status[t]

(* Save commits; else (also with ErrOperationActive) nothing is written.  An
   active save with recovery parameters writes them, one without keeps them.
   The trailing compaction of old inspections rewrites results only, which no
   variable here holds. *)
Saves(t, s) == Writable(t, s) /\ (s \in Active => CanReserve(t))
Save(t, s, recovery) ==
    /\ Saves(t, s)
    /\ SetStatus(t, s)
    /\ IF s \in Active
       THEN /\ Reserve(t)
            /\ checkpoint' = IF recovery THEN checkpoint \cup {t} ELSE checkpoint
       ELSE Drop({t})

(* RecoverInterrupted: active tasks without a checkpoint failed.  One
   transaction for all of them on SQLite, one for each on a server. *)
Unrecoverable == {t \in Tasks : IsActive(t) /\ t \notin checkpoint}
RecoverInterrupted(S) ==
    /\ S \subseteq Unrecoverable
    /\ status' = [t \in Tasks |-> IF t \in S THEN "failed" ELSE status[t]]
    /\ Unreserve(S)
    /\ UNCHANGED checkpoint

(* prepareRecovery: back to queued, the operation reserved again.  Finding it
   reserved by another task aborts the startup. *)
Recoverable(t) == status[t] \in {"queued", "running"} /\ t \in checkpoint
PrepareRecovery(t) ==
    /\ Recoverable(t)
    /\ CanReserve(t)
    /\ SetStatus(t, "queued")
    /\ Reserve(t)
    /\ UNCHANGED checkpoint

(* RecoveryTask finds the task dispatchable. *)
Dispatchable(t) == status[t] = "queued" /\ t \in checkpoint

(* CancelTask; CancelRecovery cancels a subset of what it cancels. *)
CancelTask(t) ==
    /\ IsActive(t)
    /\ SetStatus(t, "cancelled")
    /\ Drop({t})

(* A batch of ClearLogs: ended tasks become tombstones. *)
ClearLogs(S) ==
    /\ \A t \in S : status[t] \in Terminal
    /\ status' = [t \in Tasks |-> IF t \in S THEN "deleted" ELSE status[t]]
    /\ Drop(S)

(* DeleteTerminalBySkill: the selected records, if all have ended.  It counts
   on ended tasks holding neither checkpoint nor reservation. *)
DeleteTerminal(S) ==
    /\ \A t \in S : status[t] \in Terminal
    /\ status' = [t \in Tasks |-> IF t \in S THEN "deleted" ELSE status[t]]
    /\ UNCHANGED <<checkpoint, reserved>>

StoreNext ==
    \/ \E t \in Tasks, s \in Active \cup Terminal, recovery \in BOOLEAN : Save(t, s, recovery)
    \/ \E S \in SUBSET Tasks : RecoverInterrupted(S) \/ ClearLogs(S) \/ DeleteTerminal(S)
    \/ \E t \in Tasks : PrepareRecovery(t) \/ CancelTask(t)

StoreSpec == StoreInit /\ [][StoreNext]_storeVars
-----------------------------------------------------------------------------
StoreTypeOK ==
    /\ status \in [Tasks -> {"absent", "deleted"} \cup Active \cup Terminal]
    /\ checkpoint \subseteq Tasks
    /\ reserved \in [Operations -> Tasks \cup {NoTask}]

(* An exclusive operation is reserved for exactly the active task that has it:
   no operation stays blocked behind an ended task, no active task has lost
   its reservation, so that startup never finds it taken by another. *)
ReservationsExact ==
    \A o \in Operations, t \in Tasks :
        reserved[o] = t <=> IsActive(t) /\ OperationOf[t] = o

(* Recovery parameters outlive no task: what is cancelled, finished or deleted
   has nothing left to be restarted from. *)
CheckpointsActive == \A t \in checkpoint : IsActive(t)

(* The store implements the lifecycle: no late save revives or changes a task
   that ended, and no save brings a deleted one back. *)
LifeOf(t) == IF IsActive(t) THEN "active" ELSE status[t]
Lifecycle == INSTANCE TaskLifecycle WITH
    Verdicts <- Terminal,
    Rivals <- [t \in Tasks |->
                 {r \in Tasks \ {t} : OperationOf[t] # NoOperation /\ OperationOf[r] = OperationOf[t]}],
    life <- [t \in Tasks |-> LifeOf(t)]
ImplementsLifecycle == Lifecycle!LifeSpec
=============================================================================

---------------------------- MODULE TaskRecovery ----------------------------
(***************************************************************************)
(* The life of background tasks across restarts: handlers that accept and  *)
(* cancel them, the workers that run them, the startup that sorts out what *)
(* a previous process left and the dispatcher that resumes it, all racing  *)
(* on the task store.                                                      *)
(*                                                                         *)
(* The worker is management's executeMaintenanceContext, the shape every   *)
(* resumable domain has: queued, running, one verdict.  The runner is seen *)
(* from outside (TaskRunner has its inside): it launches, is full or is    *)
(* stopped.  One process at a time has the store: the instance guard that  *)
(* keeps others out is not modelled.                                       *)
(***************************************************************************)
EXTENDS TaskStore, Integers

CONSTANTS
    Resumable,   (* tasks submitted WithRecovery                           *)
    StoreFails,  (* whether store calls may fail, commit uncertain         *)
    MaxDowns     (* bound on the exits and crashes of the process          *)

ASSUME RecoveryAssumption ==
    /\ Resumable \subseteq Tasks
    /\ StoreFails \in BOOLEAN
    /\ MaxDowns \in Nat

VARIABLES
    up,         (* where run() of cmd/server is                            *)
    worker,     (* where the goroutine that owns a task is                 *)
    ctx,        (* the worker's context: live, or why it is done           *)
    final,      (* the status the worker will persist                      *)
    canceller,  (* a DELETE handler of the task                            *)
    pending,    (* taskrecovery.Run: tasks left to dispatch                *)
    dispatcher, (* the task it has read and is about to offer              *)
    downs       (* exits and crashes so far                                *)

process == <<up, downs>>
work    == <<worker, ctx, final>>
resume  == <<pending, dispatcher>>
vars    == <<storeVars, process, work, canceller, resume>>

Serves     == up \in {"serving", "stopping"}
(* Whose context still matters; the verdict of the others is made. *)
Registered == {t \in Tasks : worker[t] \in {"resumed", "starting", "working"}}

Init ==
    /\ StoreInit
    /\ up = "down" /\ downs = 0
    /\ worker = [t \in Tasks |-> "none"]
    /\ ctx = [t \in Tasks |-> "live"]
    /\ final = [t \in Tasks |-> "queued"]
    /\ canceller = [t \in Tasks |-> "idle"]
    /\ pending = {} /\ dispatcher = NoTask

(* store.Save as its caller sees it: committed, refused, or failed with the
   commit uncertain.  Where the caller retries this is the last attempt. *)
Attempt(t, s, ok) ==
    \/ (ok \/ StoreFails) /\ Save(t, s, t \in Resumable)
    \/ ~ok /\ (StoreFails \/ ~Saves(t, s)) /\ UNCHANGED storeVars

Goes(t, place) == worker' = [worker EXCEPT ![t] = place]
Persists(t, s) == Goes(t, "finishing") /\ final' = [final EXCEPT ![t] = s]

(* The operators whose comment begins with "Bug" are not part of the model:
   each is a mistake that one of the properties below would find.

   Bug: an interrupted task counts as cancelled. *)
VerdictOfStop(t, outcome) == IF ctx[t] \in {"interrupted", "cancelled"} THEN "cancelled" ELSE outcome

(* MarkCancelled: what an ended context makes of the outcome. *)
Verdict(t, outcome) ==
    CASE ctx[t] = "interrupted" -> IF t \in Resumable THEN "queued" ELSE "failed"
      [] ctx[t] = "cancelled"   -> "cancelled"
      [] ctx[t] = "expired"     -> "failed"
      [] OTHER                  -> outcome
-----------------------------------------------------------------------------
(* A handler: the task is saved, then launched. *)
Submit(t) ==
    /\ Serves
    /\ status[t] = "absent" /\ worker[t] = "none"
    /\ \E ok \in BOOLEAN : Attempt(t, "queued", ok) /\ Goes(t, IF ok THEN "accepted" ELSE "none")
    /\ UNCHANGED <<process, ctx, final, canceller, resume>>

Launch(t) ==
    /\ up = "serving" /\ worker[t] = "accepted"
    /\ Goes(t, "starting")
    /\ ctx' = [ctx EXCEPT ![t] = "live"]
    /\ UNCHANGED <<storeVars, process, final, canceller, resume>>

(* PersistLaunchFailure after ErrCapacity, or after ErrStopped. *)
LaunchFails(t) ==
    /\ worker[t] = "accepted"
    /\ \/ up = "serving" /\ Persists(t, "cancelled")
       \/ up = "stopping" /\ Persists(t, IF t \in Resumable THEN "queued" ELSE "cancelled")
    /\ UNCHANGED <<storeVars, process, ctx, canceller, resume>>

(* Bug: the answer of Save is not looked at. *)
SaveRunningUnchecked(t) ==
    /\ worker[t] = "starting"
    /\ \E ok \in BOOLEAN : Attempt(t, "running", ok)
    /\ Goes(t, "working")
    /\ UNCHANGED <<process, ctx, final, canceller, resume>>

(* Save under the task's own context, which fails once that has ended, also
   while the call is on its way. *)
SaveRunning(t) ==
    /\ worker[t] = "starting"
    /\ \/ /\ ctx[t] = "live" /\ Attempt(t, "running", TRUE)
          /\ Goes(t, "working")
          /\ UNCHANGED final
       \/ /\ Attempt(t, "running", FALSE) \/ (ctx[t] # "live" /\ UNCHANGED storeVars)
          /\ Persists(t, Verdict(t, "failed"))
    /\ UNCHANGED <<process, ctx, canceller, resume>>

(* The task's own timeout. *)
Expire(t) ==
    /\ worker[t] \in {"starting", "working"} /\ ctx[t] = "live"
    /\ ctx' = [ctx EXCEPT ![t] = "expired"]
    /\ UNCHANGED <<storeVars, process, worker, final, canceller, resume>>

Work(t) ==
    /\ worker[t] = "working"
    /\ \E outcome \in {"succeeded", "failed"} : Persists(t, Verdict(t, outcome))
    /\ UNCHANGED <<storeVars, process, ctx, canceller, resume>>

(* PersistFinal: an error is logged, nothing more. *)
Finish(t) ==
    /\ worker[t] = "finishing"
    /\ \E ok \in BOOLEAN : Attempt(t, final[t], ok)
    /\ Goes(t, "none")
    /\ UNCHANGED <<process, ctx, final, canceller, resume>>
-----------------------------------------------------------------------------
(* The DELETE handler reads the task, stores the cancellation, then looks for
   a worker to cancel, also when the store had nothing left to cancel. *)
CancelRead(t) ==
    /\ Serves /\ canceller[t] = "idle" /\ IsActive(t)
    /\ canceller' = [canceller EXCEPT ![t] = "read"]
    /\ UNCHANGED <<storeVars, process, work, resume>>

CancelStore(t) ==
    /\ canceller[t] = "read"
    /\ \E ok \in BOOLEAN :
        /\ \/ (ok \/ StoreFails) /\ CancelTask(t)
           \/ (ok => ~IsActive(t)) /\ (ok \/ StoreFails) /\ UNCHANGED storeVars
        /\ canceller' = [canceller EXCEPT ![t] = IF ok THEN "stored" ELSE "idle"]
    /\ UNCHANGED <<process, work, resume>>

(* Bug: only a task that waits for its slot is cancelled. *)
CancelRunnerWaiting(t) ==
    /\ canceller[t] = "stored"
    /\ canceller' = [canceller EXCEPT ![t] = "idle"]
    /\ ctx' = IF worker[t] = "resumed" THEN [ctx EXCEPT ![t] = "cancelled"] ELSE ctx
    /\ UNCHANGED <<storeVars, process, worker, final, resume>>

CancelRunner(t) ==
    /\ canceller[t] = "stored"
    /\ canceller' = [canceller EXCEPT ![t] = "idle"]
    /\ ctx' = IF t \in Registered /\ ctx[t] = "live" THEN [ctx EXCEPT ![t] = "cancelled"] ELSE ctx
    /\ UNCHANGED <<storeVars, process, worker, final, resume>>

(* Log maintenance, or the workbench, deletes an ended task, even one whose
   worker still works. *)
Clear(t) ==
    /\ up = "serving" /\ (ClearLogs({t}) \/ DeleteTerminal({t}))
    /\ UNCHANGED <<process, work, canceller, resume>>
-----------------------------------------------------------------------------
(* Startup: fail what cannot be resumed, queue what can, then serve. *)
Boot ==
    /\ up = "down" /\ up' = "failing"
    /\ UNCHANGED <<storeVars, downs, work, canceller, resume>>

FailInterrupted ==
    /\ up = "failing"
    /\ \E S \in (SUBSET Unrecoverable) \ {{}} : RecoverInterrupted(S)
    /\ UNCHANGED <<process, work, canceller, resume>>

Failed ==
    /\ up = "failing" /\ Unrecoverable = {}
    /\ up' = "preparing"
    /\ UNCHANGED <<storeVars, downs, work, canceller, resume>>

Prepare(t) ==
    /\ up = "preparing" /\ t \notin pending
    /\ PrepareRecovery(t)
    /\ pending' = pending \cup {t}
    /\ UNCHANGED <<process, work, canceller, dispatcher>>

Serve ==
    /\ up = "preparing"
    /\ \A t \in Tasks : Recoverable(t) => t \in pending
    /\ up' = "serving"
    /\ UNCHANGED <<storeVars, downs, work, canceller, resume>>
-----------------------------------------------------------------------------
(* taskrecovery.Run.  A task that is not dispatchable any more is dropped, an
   unreadable one is tried again. *)
DispatchRead(t) ==
    /\ up = "serving" /\ dispatcher = NoTask /\ t \in pending
    /\ IF Dispatchable(t) THEN dispatcher' = t /\ UNCHANGED pending
                          ELSE pending' = pending \ {t} /\ UNCHANGED dispatcher
    /\ UNCHANGED <<storeVars, process, work, canceller>>

(* Bug: a full runner is taken for the end of the task's recovery. *)
OfferBusyDropped(t) == dispatcher = t /\ dispatcher' = NoTask /\ pending' = pending \ {t}

(* ErrCapacity and ErrBusy: the task stays on the list. *)
OfferBusy(t) == dispatcher = t /\ dispatcher' = NoTask /\ UNCHANGED pending

(* Another offer comes after the others and a second's wait. *)
OfferedLater(t) ==
    /\ up = "serving"
    /\ OfferBusy(t)
    /\ UNCHANGED <<storeVars, process, work, canceller>>

(* The handler enqueues the task under its old ID. *)
OfferTaken(t) ==
    /\ up = "serving" /\ dispatcher = t
    /\ Goes(t, "resumed")
    /\ ctx' = [ctx EXCEPT ![t] = "live"]
    /\ dispatcher' = NoTask /\ pending' = pending \ {t}
    /\ UNCHANGED <<storeVars, process, final, canceller>>

(* failRecovery: no handler, corrupt data, or the handler refuses. *)
OfferRefused(t) ==
    /\ up = "serving" /\ dispatcher = t
    /\ \E ok \in BOOLEAN : Attempt(t, "failed", ok)
    /\ dispatcher' = NoTask /\ pending' = pending \ {t}
    /\ UNCHANGED <<process, work, canceller>>

DispatchStops ==
    /\ up = "stopping" /\ pending # {}
    /\ pending' = {} /\ dispatcher' = NoTask
    /\ UNCHANGED <<storeVars, process, work, canceller>>

(* The resumed worker has its slot, or lost its context waiting for it, and
   reads its task again.  What it cannot read stays for the next startup. *)
Reread(t) ==
    /\ worker[t] = "resumed"
    /\ \/ (StoreFails \/ ~Dispatchable(t)) /\ Goes(t, "none") /\ UNCHANGED final
       \/ Dispatchable(t) /\ ctx[t] # "live" /\ Persists(t, Verdict(t, "queued"))
       \/ Dispatchable(t) /\ ctx[t] = "live" /\ Goes(t, "starting") /\ UNCHANGED final
    /\ UNCHANGED <<storeVars, process, ctx, canceller, resume>>
-----------------------------------------------------------------------------
(* A signal: every context that is live ends with cause ErrInterrupted.  The
   bound leaves an exit for every stop. *)
Stop ==
    /\ up = "serving" /\ downs < MaxDowns
    /\ up' = "stopping"
    /\ ctx' = [t \in Tasks |-> IF ctx[t] = "live" /\ t \in Registered THEN "interrupted" ELSE ctx[t]]
    /\ UNCHANGED <<storeVars, downs, worker, final, canceller, resume>>

(* The process exits or crashes: all but the store is gone. *)
Down ==
    /\ up # "down" /\ downs < MaxDowns
    /\ up' = "down" /\ downs' = downs + 1
    /\ worker' = [t \in Tasks |-> "none"]
    /\ ctx' = [t \in Tasks |-> "live"]
    /\ final' = [t \in Tasks |-> "queued"]
    /\ canceller' = [t \in Tasks |-> "idle"]
    /\ pending' = {} /\ dispatcher' = NoTask
    /\ UNCHANGED storeVars

WorkerStep(t) == Launch(t) \/ LaunchFails(t) \/ Reread(t) \/ SaveRunning(t) \/ Finish(t)
CancelStep(t) == CancelRead(t) \/ CancelStore(t) \/ CancelRunner(t)
OfferStep(t)  == OfferTaken(t) \/ OfferRefused(t) \/ OfferedLater(t)
Startup       == Boot \/ FailInterrupted \/ Failed \/ (\E t \in Tasks : Prepare(t)) \/ Serve

Next ==
    \/ \E t \in Tasks :
        \/ Submit(t) \/ WorkerStep(t) \/ Expire(t) \/ Work(t)
        \/ CancelStep(t) \/ Clear(t)
        \/ DispatchRead(t) \/ OfferStep(t)
    \/ Startup \/ DispatchStops \/ Stop \/ Down

Spec == Init /\ [][Next]_vars

(* A process that stops exits in the end (its shutdown is bounded by 30 s) and
   is started again.  Workers, handlers and dispatcher are scheduled.  A task
   may work for as long as it likes, until its context ends.  An offered task
   is taken or refused in the end: the runner is not full for ever. *)
FairSpec ==
    /\ Spec
    /\ WF_vars(Startup) /\ WF_vars(up = "stopping" /\ Down)
    /\ \A t \in Tasks :
        /\ WF_vars(WorkerStep(t))
        /\ WF_vars(ctx[t] # "live" /\ Work(t))
        /\ WF_vars(CancelStore(t)) /\ WF_vars(CancelRunner(t))
        /\ SF_vars(DispatchRead(t)) /\ SF_vars(OfferTaken(t) \/ OfferRefused(t))
-----------------------------------------------------------------------------
RecoveryTypeOK ==
    /\ StoreTypeOK
    /\ up \in {"down", "failing", "preparing", "serving", "stopping"}
    /\ worker \in [Tasks -> {"none", "accepted", "resumed", "starting", "working", "finishing"}]
    /\ ctx \in [Tasks -> {"live", "cancelled", "interrupted", "expired"}]
    /\ final \in [Tasks -> {"queued"} \cup Terminal]
    /\ canceller \in [Tasks -> {"idle", "read", "stored"}]
    /\ pending \subseteq Tasks
    /\ dispatcher \in pending \cup {NoTask}
    /\ downs \in 0..MaxDowns

(* While the process serves and the store works, every task that is shown as
   queued or running has somebody who will end it: a worker or the dispatcher.
   None is stuck, with its operation reserved, until the next restart. *)
OwnedWhileActive ==
    up = "serving" => \A t \in Tasks : IsActive(t) => worker[t] # "none" \/ t \in pending

(* A cancellation that is stored wins: a task that ended is not started, not
   even when its cancellation found no worker because it was being launched. *)
EndedNeverStarts ==
    [][\A t \in Tasks : worker[t] # "working" /\ worker'[t] = "working" => IsActive(t)]_vars

(* Interruption is not an end: neither startup nor a worker that shutdown cut
   short ends a resumable task; only its cancellation, stored meanwhile, does. *)
InterruptionSpares ==
    [][\A t \in Resumable : IsActive(t) /\ ~IsActive(t)' =>
        /\ up \notin {"failing", "preparing"}
        /\ \/ worker[t] # "finishing" \/ ctx[t] # "interrupted"
           \/ canceller[t] = "read" /\ status'[t] = "cancelled"]_vars

(* Every task that was accepted is started, or ends without: also when the
   process goes down in between, the runner is full or the queue is cancelled. *)
AcceptedStarts == \A t \in Tasks : IsActive(t) ~> ~IsActive(t) \/ worker[t] = "working"

(* A worker whose task was cancelled in the store stops. *)
CancelReaches == \A t \in Tasks : status[t] = "cancelled" ~> worker[t] = "none"
=============================================================================

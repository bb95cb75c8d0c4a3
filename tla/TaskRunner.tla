----------------------------- MODULE TaskRunner -----------------------------
(***************************************************************************)
(* backend/internal/taskrunner/runner.go: a Group that bounds how many     *)
(* background tasks run, lets a finite number wait for a slot, cancels a   *)
(* task by its ID and drains at shutdown.                                  *)
(*                                                                         *)
(* A worker is one goroutine that start() launches.  There is no end to    *)
(* the launches: when a goroutine has returned and nobody holds its cancel *)
(* function any more, its name is used for a later one.  The group's mutex *)
(* makes each critical section one action.  The steps taken outside it are *)
(* actions of their own: a waiting worker that wakes up, the call of a     *)
(* cancel function looked up earlier, the end of the task body, the select *)
(* in Shutdown.                                                            *)
(***************************************************************************)
EXTENDS Integers, FiniteSets

CONSTANTS
    Workers,   (* names of goroutines: as many may be there at once        *)
    TaskIds,   (* the IDs GoTask is called with                            *)
    NoId,      (* the ID of a worker launched by Go                        *)
    NoWorker,  (* an ID with no registered worker                          *)
    Limits,    (* the concurrency limits that are configured               *)
    Queues,    (* the queue capacities that are configured                 *)
    Callers    (* callers of Shutdown                                      *)

ASSUME RunnerAssumption ==
    /\ IsFiniteSet(Workers)
    /\ NoId \notin TaskIds
    /\ NoWorker \notin Workers
    /\ Limits \subseteq Nat \ {0}
    /\ Queues \subseteq Nat

VARIABLES
    limit, queue,              (* Group.limit (0: unbounded), Group.queue  *)
    running, waiting, active,  (* the counters of the same names           *)
    tasks,       (* Group.tasks: the worker whose cancel function an ID has *)
    stopped,     (* Group.stopped                                          *)
    interrupted, (* Group.ctx is done, with cause ErrInterrupted           *)
    doneCloses,  (* how often close(g.done) was executed                   *)
    phase,       (* where each worker is                                   *)
    id,          (* the ID each worker was launched with                   *)
    cause,       (* why a worker's context is done                         *)
    parked,      (* workers blocked on the current g.changed channel       *)
    pending,     (* cancel functions CancelTask looked up and has to call  *)
    asked,       (* history: workers CancelTask found in their present life *)
    shut         (* progress of each call of Shutdown                      *)

sizes  == <<limit, queue>>
counts == <<running, waiting, active>>
group  == <<stopped, interrupted, doneCloses>>
cancel == <<pending, asked>>
vars   == <<sizes, counts, tasks, group, phase, id, cause, parked, cancel, shut>>

Phases == {"absent", "queued", "slotted", "unslotted"}
Causes == {"none", "cancelled", "interrupted"}
In(p)  == {w \in Workers : phase[w] = p}
Live   == In("queued") \cup In("slotted") \cup In("unslotted")
-----------------------------------------------------------------------------
(* New gives limit 0 and queue 0; NewQueued the configured sizes. *)
Init ==
    /\ \/ limit = 0 /\ queue = 0
       \/ limit \in Limits /\ queue \in Queues
    /\ running = 0 /\ waiting = 0 /\ active = 0
    /\ tasks = [i \in TaskIds |-> NoWorker]
    /\ stopped = FALSE /\ interrupted = FALSE /\ doneCloses = 0
    /\ phase = [w \in Workers |-> "absent"]
    /\ id = [w \in Workers |-> NoId]
    /\ cause = [w \in Workers |-> "none"]
    /\ parked = {}
    /\ pending = {} /\ asked = {}
    /\ shut = [c \in Callers |-> "none"]

(* The operators whose comment begins with "Bug" are not part of the model:
   each is a mistake that one of the properties below would find.

   Bug: off by one at the limit. *)
HasSlotOneMore == limit = 0 \/ running <= limit

HasSlot == limit = 0 \/ running < limit

(* Bug: nobody is woken. *)
NotifyNobody == UNCHANGED parked

(* notifyLocked: close(changed) wakes whoever blocks on the old channel. *)
Notify == parked' = {}

(* Bug: done is closed whatever the condition. *)
CloseDoneAlways(drained) == doneCloses' = doneCloses + 1

(* close(done) under its condition, with the counters the step leaves. *)
CloseDoneIf(drained) == doneCloses' = IF drained THEN doneCloses + 1 ELSE doneCloses

(* The refusals of start() that come first: ErrStopped and ErrDuplicateTask. *)
Admits(i) ==
    /\ ~stopped /\ ~interrupted
    /\ i # NoId => tasks[i] = NoWorker

Launch(w, i, p) ==
    /\ phase[w] = "absent" /\ w \notin pending
    /\ Admits(i)
    /\ phase' = [phase EXCEPT ![w] = p]
    /\ id' = [id EXCEPT ![w] = i]
    /\ tasks' = IF i = NoId THEN tasks ELSE [tasks EXCEPT ![i] = w]
    /\ active' = active + 1
    /\ cause' = [cause EXCEPT ![w] = "none"]
    /\ asked' = asked \ {w}
    /\ UNCHANGED <<sizes, group, parked, pending, shut>>

(* start() finds a free slot.  It does not look at the waiting workers. *)
StartRunning(w, i) ==
    /\ HasSlot
    /\ Launch(w, i, "slotted")
    /\ running' = running + 1
    /\ UNCHANGED waiting

(* start() finds none and the queue has room (else ErrCapacity). *)
StartQueued(w, i) ==
    /\ ~HasSlot
    /\ waiting < queue
    /\ Launch(w, i, "queued")
    /\ waiting' = waiting + 1
    /\ UNCHANGED running

(* Bug: a parked worker does not watch its context. *)
AwakeByNotify(w) == phase[w] = "queued" /\ w \notin parked

(* A worker that is not blocked in wait(), or whose context ended. *)
Awake(w) == phase[w] = "queued" /\ (w \notin parked \/ cause[w] # "none")

LeaveQueue(w, p) ==
    /\ phase' = [phase EXCEPT ![w] = p]
    /\ waiting' = waiting - 1
    /\ parked' = parked \ {w}
    /\ UNCHANGED <<sizes, active, tasks, group, id, cause, cancel, shut>>

(* Bug: finish() will give back a slot that was never taken. *)
GiveUpSlotted(w) ==
    /\ Awake(w)
    /\ cause[w] # "none"
    /\ LeaveQueue(w, "slotted")
    /\ UNCHANGED running

(* wait() sees its context done: the body runs all the same, with no slot. *)
GiveUp(w) ==
    /\ Awake(w)
    /\ cause[w] # "none"
    /\ LeaveQueue(w, "unslotted")
    /\ UNCHANGED running

(* wait() finds a slot. *)
TakeSlot(w) ==
    /\ Awake(w)
    /\ cause[w] = "none"
    /\ HasSlot
    /\ LeaveQueue(w, "slotted")
    /\ running' = running + 1

(* wait() keeps the current channel and blocks on it. *)
Park(w) ==
    /\ Awake(w)
    /\ cause[w] = "none"
    /\ ~HasSlot
    /\ parked' = parked \cup {w}
    /\ UNCHANGED <<sizes, counts, tasks, group, phase, id, cause, cancel, shut>>

Wait(w) == GiveUp(w) \/ TakeSlot(w) \/ Park(w)

(* The body returns: the deferred cancel() and finish(). *)
Finish(w) ==
    /\ phase[w] \in {"slotted", "unslotted"}
    /\ phase' = [phase EXCEPT ![w] = "absent"]
    /\ tasks' = IF id[w] = NoId THEN tasks ELSE [tasks EXCEPT ![id[w]] = NoWorker]
    /\ active' = active - 1
    /\ running' = IF phase[w] = "slotted" THEN running - 1 ELSE running
    /\ Notify
    /\ CloseDoneIf(stopped /\ active' = 0)
    /\ UNCHANGED <<sizes, waiting, stopped, interrupted, id, cause, cancel, shut>>

(* Configure: a new limit and queue, running and waiting workers untouched. *)
Configure(l, q) ==
    /\ <<l, q>> # sizes
    /\ limit' = l /\ queue' = q
    /\ Notify
    /\ UNCHANGED <<counts, tasks, group, phase, id, cause, cancel, shut>>

(* CancelTask looks the cancel function up under the mutex ... *)
CancelLookup(i) ==
    /\ tasks[i] # NoWorker
    /\ pending' = pending \cup {tasks[i]}
    /\ asked' = asked \cup {tasks[i]}
    /\ UNCHANGED <<sizes, counts, tasks, group, phase, id, cause, parked, shut>>

(* Bug: the cancel function is looked up again when it is called. *)
CancelCallById(w) ==
    /\ w \in pending
    /\ pending' = pending \ {w}
    /\ cause' = [v \in Workers |->
          IF v \in Live /\ id[v] = id[w] /\ cause[v] = "none" THEN "cancelled" ELSE cause[v]]
    /\ UNCHANGED <<sizes, counts, tasks, group, phase, id, parked, asked, shut>>

(* ... and calls it after the unlock: it ends the context of that launch. *)
CancelCall(w) ==
    /\ w \in pending
    /\ pending' = pending \ {w}
    /\ cause' = IF cause[w] = "none" /\ w \in Live
                THEN [cause EXCEPT ![w] = "cancelled"] ELSE cause
    /\ UNCHANGED <<sizes, counts, tasks, group, phase, id, parked, asked, shut>>

(* Bug: the workers' contexts are not derived from the group's. *)
EndGroupContextOnly == interrupted' = TRUE /\ UNCHANGED cause

(* The group's context ends: every live context derived from it does too,
   unless it had ended before. *)
EndGroupContext ==
    /\ interrupted' = TRUE
    /\ cause' = [w \in Workers |->
                   IF w \in Live /\ cause[w] = "none" THEN "interrupted" ELSE cause[w]]

(* cancelServices: the parent context ends before anyone calls Cancel. *)
ParentInterrupt ==
    /\ ~interrupted
    /\ EndGroupContext
    /\ UNCHANGED <<sizes, counts, tasks, stopped, doneCloses, phase, id, parked,
                   cancel, shut>>

(* Cancel: idempotent, and done is closed here when nothing is active. *)
Stop ==
    /\ IF stopped
       THEN UNCHANGED <<group, cause>>
       ELSE /\ stopped' = TRUE
            /\ EndGroupContext
            /\ CloseDoneIf(active = 0)
    /\ UNCHANGED <<sizes, counts, tasks, phase, id, parked, cancel>>

Cancel == ~stopped /\ Stop /\ UNCHANGED shut

(* Shutdown calls Cancel and waits; a call that timed out may be repeated. *)
Shutdown(c) ==
    /\ shut[c] \in {"none", "timedout"}
    /\ Stop
    /\ shut' = [shut EXCEPT ![c] = "waiting"]

(* The select of Shutdown: done is preferred to an expired context. *)
ShutdownReturn(c) ==
    /\ shut[c] = "waiting"
    /\ shut' = [shut EXCEPT ![c] = IF doneCloses > 0 THEN "drained" ELSE "timedout"]
    /\ UNCHANGED <<sizes, counts, tasks, group, phase, id, cause, parked, cancel>>

Next ==
    \/ \E w \in Workers, i \in TaskIds \cup {NoId} : StartRunning(w, i) \/ StartQueued(w, i)
    \/ \E w \in Workers : Wait(w) \/ Finish(w) \/ CancelCall(w)
    \/ \E l \in Limits, q \in Queues : Configure(l, q)
    \/ \E i \in TaskIds : CancelLookup(i)
    \/ ParentInterrupt
    \/ Cancel
    \/ \E c \in Callers : Shutdown(c) \/ ShutdownReturn(c)

Spec == Init /\ [][Next]_vars

(* The Go scheduler runs a goroutine that is not blocked; nothing is assumed
   of the callers, nor of bodies whose context is still live. *)
CooperativeFairness ==
    \A w \in Workers : WF_vars(Wait(w)) /\ WF_vars(cause[w] # "none" /\ Finish(w))

(* In addition, every task body returns in the end. *)
BodiesReturn == \A w \in Workers : WF_vars(Finish(w))

CooperativeSpec == Spec /\ CooperativeFairness
-----------------------------------------------------------------------------
TypeOK ==
    /\ limit \in Nat /\ queue \in Nat
    /\ running \in Int /\ waiting \in Int /\ active \in Int
    /\ tasks \in [TaskIds -> Workers \cup {NoWorker}]
    /\ stopped \in BOOLEAN /\ interrupted \in BOOLEAN /\ doneCloses \in Nat
    /\ phase \in [Workers -> Phases]
    /\ id \in [Workers -> TaskIds \cup {NoId}]
    /\ cause \in [Workers -> Causes]
    /\ parked \subseteq In("queued")
    /\ pending \subseteq asked /\ asked \subseteq Workers
    /\ shut \in [Callers -> {"none", "waiting", "timedout", "drained"}]

(* The three counters are exactly the goroutines they stand for: a worker that
   gave up waiting returns no slot it never took, and none is leaked. *)
CountersMatch ==
    /\ running = Cardinality(In("slotted"))
    /\ waiting = Cardinality(In("queued"))
    /\ active = Cardinality(Live)

(* Group.tasks names the one live worker of an ID, so a task never runs twice
   at once and a cancellation by ID reaches the launch that is running. *)
RegisteredIsLive ==
    \A i \in TaskIds, w \in Workers :
        tasks[i] = w <=> (w \in Live /\ id[w] = i)

(* The group's books are right: the counters and the registry. *)
BooksExact == CountersMatch /\ RegisteredIsLive

(* No worker sleeps on g.changed while a slot is free: every step that frees a
   slot or raises the limit wakes those that blocked before it. *)
NoLostWakeup == \A w \in parked : cause[w] = "none" => ~HasSlot

(* g.done is closed when the stopped group has no worker left, and only once
   (a second close panics), whichever of Cancel and finish comes last. *)
DoneOnceDrained == doneCloses = IF stopped /\ Live = {} THEN 1 ELSE 0

(* A Shutdown that returned nil leaves no task running or waiting, for good. *)
DrainedIsQuiet == \A c \in Callers : shut[c] = "drained" => stopped /\ Live = {}

(* A worker's context ends as a user cancellation only if CancelTask found that
   very launch: a cancel function called late never hits a later launch. *)
CancelledWereAsked == \A w \in Workers : cause[w] = "cancelled" => w \in asked

(* A waiting task that is cancelled or interrupted gets to its body without a
   slot, even if no running task ever returns. *)
CancelledLeaveQueue ==
    \A w \in Workers :
        (phase[w] = "queued" /\ cause[w] # "none") ~> phase[w] = "unslotted"

(* A stopped group drains once its bodies honour their context. *)
StoppedDrains == stopped ~> doneCloses = 1

(* No task is launched any more.  start() gives a newcomer the slot that a waiting
   worker was just woken for, and that worker blocks again: if tasks keep coming,
   an accepted one may wait for ever. *)
LaunchesEnd ==
    <>[][\A w \in Workers : phase[w] = "absent" => phase'[w] = "absent"]_vars

(* An accepted task that newcomers have overtaken is not forgotten: once no more
   of them are launched, every task in the queue is executed as long as the bodies
   before it return, whatever Configure does meanwhile. *)
AcceptedRuns == BodiesReturn /\ LaunchesEnd =>
    \A w \in Workers : phase[w] = "queued" ~> phase[w] \in {"slotted", "unslotted"}

(* The group implements the slot pool; the context of the group is its door. *)
Pool == INSTANCE SlotPool WITH holders <- In("slotted"), open <- ~interrupted
ImplementsPool == Pool!PoolSpec
=============================================================================

-------------------------- MODULE InspectionSchedule --------------------------
(***************************************************************************)
(* The inspection scheduler (internal/inspection/scheduler.go) over its    *)
(* lease and heartbeat history (internal/business/inspection.go).          *)
(*                                                                         *)
(* Automatic runs are started by a loop, manual ones by workers; both go   *)
(* through runDue.  Settings are edited by handlers that store first and   *)
(* tell the scheduler later.  A heartbeat is a row of the history, keyed   *)
(* by the run's start; a run is identified by it, and so is its task.      *)
(* Time is abstract: a lease may run out, a due time may come and a timer  *)
(* may fire at any moment.                                                 *)
(***************************************************************************)
EXTENDS Integers, Sequences, SequencesExt

CONSTANTS
    Runs,          \* names of runs; one is used again once nothing mentions it
    NoRun,         \* no run
    Intervals,     \* the intervals a configuration may ask for
    Editors,       \* concurrent requests that edit the configuration
    HistoryLimit,  \* heartbeats kept (50 in the code)
    MaxEvents,     \* how many requests, manual runs, failures, stops and crashes
    Databases      \* the databases it may run on: "sqlite", "server"

ASSUME InspectionAssumption ==
    /\ NoRun \notin Runs
    /\ Intervals \subseteq Nat \ {0}
    /\ HistoryLimit \in Nat \ {0}
    /\ MaxEvents \in Nat
    /\ Databases \subseteq {"sqlite", "server"}

VARIABLES
    database,   \* the database it runs on
    config,     \* the stored configuration
    history,    \* the stored heartbeats, newest first
    lease,      \* the stored inspection lease
    snapshot,   \* what a recorder or a reconciler has read (server databases)
    failed,     \* a transaction has failed
    events,     \* how many requests, manual runs, failures, stops and crashes
    process,    \* [up, stopping, owner]: the process and its owner ID
    run,        \* the run under way in the process, or Idle
    nextRun,    \* nextRunAt
    loop,       \* what the loop does
    signal,     \* the channel reconfigure
    lastTask,   \* lastTaskID
    editor,     \* what each request that edits the configuration has done
    overlapped, \* the last edit was stored while an earlier one was on its way
    deleting,   \* a task whose cancellation is stored, not yet passed on
    clearing    \* ClearHistory has made its checks

storeVars  == <<config, history, lease, database>>
memoryVars == <<run, nextRun, loop, signal, lastTask>>
apiVars    == <<editor, overlapped, deleting, clearing>>
outside    == <<failed, events>>
vars == <<storeVars, snapshot, outside, process, memoryVars, apiVars>>

Configs   == [enabled : BOOLEAN, interval : Intervals]
Statuses  == {"running", "interrupted", "succeeded", "failed", "cancelled"}
Heartbeat == [run : Runs, status : Statuses]
Owners    == 0..MaxEvents

Unread   == [enabled |-> FALSE, interval |-> 0]
NoLease  == [owner |-> -1, run |-> NoRun, live |-> FALSE]
NotDue   == [interval |-> 0, due |-> FALSE]       \* nextRunAt is nil
NoRead   == NoRun                                 \* no transaction under way
Idle     == [id |-> NoRun, forced |-> FALSE, phase |-> "idle", ctx |-> "live",
             reported |-> FALSE, verdict |-> "running",
             settings |-> Unread, usable |-> TRUE,
             edited |-> FALSE]
NoEdit   == [stored |-> FALSE, config |-> Unread]
LoopOff  == [pc |-> "off", config |-> Unread]

Phases == {"idle", "claimed", "leased", "aborting", "executing",
           "versioned", "recording", "releasing"}

Pcs    == {"off", "reading", "arming", "asleep", "timer", "checking", "claiming", "running"}
Names  == Runs \union {NoRun}
Leases == [owner : Owners, run : Runs, live : BOOLEAN]
RunStates == [id : Names, forced : BOOLEAN, phase : Phases, ctx : {"live", "cancelled", "failed"},
              reported : BOOLEAN, verdict : Statuses, settings : Configs \union {Unread},
              usable : BOOLEAN, edited : BOOLEAN]
Histories == {h \in Seq(Heartbeat) : Len(h) <= HistoryLimit}

\* The variables have their types: the history keeps its limit, and whoever is
\* about to use a configuration has read one.
TypeOK ==
    /\ database \in Databases /\ config \in Configs
    /\ history \in Histories
    /\ lease \in Leases \union {NoLease}
    /\ snapshot \in [{"recorder", "reconciler"} -> Histories \union {NoRead}]
    /\ failed \in BOOLEAN /\ events \in 0..MaxEvents
    /\ process \in [up : BOOLEAN, stopping : BOOLEAN, owner : Owners] /\ process.owner <= events
    /\ run \in RunStates
    /\ IF run.phase = "idle" THEN run = Idle ELSE run.id \in Runs /\ run.settings \in Configs
    /\ nextRun \in [interval : Intervals, due : BOOLEAN] \union {NotDue}
    /\ loop \in [pc : Pcs, config : Configs \union {Unread}]
    /\ loop.pc \in {"arming", "claiming"} => loop.config \in Configs
    /\ editor \in [Editors -> [stored : BOOLEAN, config : Configs \union {Unread}]]
    /\ \A e \in Editors : editor[e].stored => editor[e].config \in Configs
    /\ signal \in BOOLEAN /\ clearing \in BOOLEAN /\ overlapped \in BOOLEAN
    /\ lastTask \in Names /\ deleting \in Names

-----------------------------------------------------------------------------
(* The store *)

\* SQLite's transactions are serial; on PostgreSQL and MySQL those on the history
\* read first and write later, and lock no row that they share.
Serialised == database = "sqlite"

StatusOf(h, r) == {h[i].status : i \in {j \in DOMAIN h : h[j].run = r}}

\* Something from outside happens, a request say; MaxEvents bounds how often.
Event == events < MaxEvents /\ events' = events + 1 /\ UNCHANGED failed

\* A transaction fails and leaves the store as it was.
Fails == events < MaxEvents /\ events' = events + 1 /\ failed' = TRUE /\ UNCHANGED storeVars
Works == UNCHANGED outside

\* The operators whose comment begins with "Bug" are not part of the model: each
\* is a mistake that one of the properties below would find.

\* The records of a history that are not of run r, in their order.
Others(h, r) ==
    LET kept[n \in 0..Len(h)] ==
          IF n = 0 THEN <<>>
          ELSE IF h[n].run = r THEN kept[n - 1] ELSE Append(kept[n - 1], h[n])
    IN  kept[Len(h)]

\* The rewritten history of RecordInspectionHeartbeat: the record first, the
\* others behind it, up to the limit.
Put(h, r, s) ==
    LET all == <<[run |-> r, status |-> s]>> \o Others(h, r)
    IN  SubSeq(all, 1, IF Len(all) < HistoryLimit THEN Len(all) ELSE HistoryLimit)

\* What a transaction of actor a rewrites: the history of now where transactions
\* are serial, what it has read before where they are not.
ReadBy(a)  == IF Serialised THEN history ELSE snapshot[a]
HasRead(a) == Serialised \/ snapshot[a] # NoRead
EndRead(a) == snapshot' = [snapshot EXCEPT ![a] = NoRead]

\* The transactions on the lease wait for the reconciler, which has locked it.
LeaseFree == snapshot["reconciler"] = NoRead

\* The first read of RecordInspectionHeartbeat, a step of its own there.
RecordRead ==
    /\ ~Serialised
    /\ run.phase \in {"leased", "executing", "recording"} /\ (run.phase = "executing" => ~run.reported)
    /\ snapshot["recorder"] = NoRead
    /\ snapshot' = [snapshot EXCEPT !["recorder"] = history]
    /\ UNCHANGED <<storeVars, outside, process, memoryVars, apiVars>>

Recorded(s) ==
    /\ HasRead("recorder")
    /\ history' = Put(ReadBy("recorder"), run.id, s)
    /\ UNCHANGED <<config, lease, database>>

\* Bug: whatever has no lease was interrupted.
InterruptedUnlessActive(b) == b.run # (IF lease.live THEN lease.run ELSE NoRun)

\* A running heartbeat without the lease has been interrupted.
ActiveRun == IF lease.live THEN lease.run ELSE NoRun
Interrupted(b) == b.status = "running" /\ b.run # ActiveRun
Reconciled(h) == [i \in DOMAIN h |->
    IF Interrupted(h[i]) THEN [h[i] EXCEPT !.status = "interrupted"] ELSE h[i]]
ReconcileNeeded ==
    \/ lease # NoLease /\ ~lease.live
    \/ \E i \in DOMAIN history : Interrupted(history[i])

ReconcileRead ==
    /\ ~Serialised /\ process.up /\ ReconcileNeeded
    /\ snapshot["reconciler"] = NoRead
    /\ snapshot' = [snapshot EXCEPT !["reconciler"] = history]
    /\ UNCHANGED <<storeVars, outside, process, memoryVars, apiVars>>

\* Status: it drops a lease that ran out and fails what has none, and leaves
\* the history unwritten when nothing of what it has read was interrupted.
ReconcileWrite ==
    /\ process.up /\ HasRead("reconciler") /\ (Serialised => ReconcileNeeded)
    /\ LET h == ReadBy("reconciler")
       IN  history' = IF Reconciled(h) = h THEN history ELSE Reconciled(h)
    /\ lease' = IF lease.live THEN lease ELSE NoLease
    /\ EndRead("reconciler")
    /\ UNCHANGED <<database, config, outside, process, memoryVars, apiVars>>

\* A lease that nobody renews for its whole term: a dead process's, or that of a
\* renewal which stalls.
Expire ==
    /\ lease.live
    /\ IF lease.owner = process.owner THEN Event ELSE UNCHANGED outside
    /\ lease' = [lease EXCEPT !.live = FALSE]
    /\ UNCHANGED <<database, config, history, snapshot, process, memoryVars, apiVars>>

-----------------------------------------------------------------------------
(* The schedule *)

ScheduledAfter(c) == IF c.enabled THEN [interval |-> c.interval, due |-> FALSE] ELSE NotDue

\* The time of the next run comes; only the timer sees it.
TimeComes ==
    /\ loop.pc = "timer" /\ nextRun # NotDue /\ ~nextRun.due
    /\ nextRun' = [nextRun EXCEPT !.due = TRUE]
    /\ UNCHANGED <<storeVars, snapshot, outside, process, run, loop, signal, lastTask, apiVars>>

GoTo(pc) == loop' = [pc |-> pc, config |-> Unread]

\* loop: it reads the configuration, and a second later again if it cannot.
LoopRead ==
    /\ loop.pc = "reading" /\ ~process.stopping
    /\ loop' = [pc |-> "arming", config |-> config]
    /\ UNCHANGED <<storeVars, snapshot, outside, process, run, nextRun, signal, lastTask, apiVars>>

\* It arms the timer, or sleeps until the configuration is edited.
LoopArm ==
    /\ loop.pc = "arming"
    /\ IF loop.config.enabled
       THEN /\ nextRun' = IF nextRun = NotDue THEN ScheduledAfter(loop.config) ELSE nextRun
            /\ GoTo(IF nextRun.due THEN "checking" ELSE "timer")
       ELSE nextRun' = NotDue /\ GoTo("asleep")
    /\ UNCHANGED <<storeVars, snapshot, outside, process, run, signal, lastTask, apiVars>>

LoopSignalled ==
    /\ loop.pc \in {"asleep", "timer"} /\ signal
    /\ signal' = FALSE /\ GoTo("reading")
    /\ UNCHANGED <<storeVars, snapshot, outside, process, run, nextRun, lastTask, apiVars>>

\* The timer of an earlier nextRunAt would find nothing due and be armed anew.
TimerFires ==
    /\ loop.pc = "timer" /\ (nextRun = NotDue \/ nextRun.due) /\ GoTo("checking")
    /\ UNCHANGED <<storeVars, snapshot, outside, process, run, nextRun, signal, lastTask, apiVars>>

\* runDue, from the loop: it reads the configuration once more.
LoopCheck ==
    /\ loop.pc = "checking" /\ ~process.stopping
    /\ loop' = [pc |-> "claiming", config |-> config]
    /\ UNCHANGED <<storeVars, snapshot, outside, process, run, nextRun, signal, lastTask, apiVars>>

LoopCannotRead ==
    /\ loop.pc \in {"reading", "checking"} /\ Fails /\ GoTo("reading")
    /\ UNCHANGED <<snapshot, process, run, nextRun, signal, lastTask, apiVars>>

\* The loop's context is cancelled.
LoopStops ==
    /\ process.stopping /\ loop.pc \in {"reading", "asleep", "timer", "checking"}
    /\ GoTo("off")
    /\ UNCHANGED <<storeVars, snapshot, outside, process, run, nextRun, signal, lastTask, apiVars>>

-----------------------------------------------------------------------------
(* runDue *)

Unused == Runs \ ({run.id, lease.run, lastTask, deleting}
                  \union {history[i].run : i \in DOMAIN history}
                  \union UNION {{snapshot[a][i].run : i \in DOMAIN snapshot[a]} :
                                a \in {b \in DOMAIN snapshot : snapshot[b] # NoRead}})

Refused(c, forced) ==
    \/ ~forced /\ ~c.enabled
    \/ run # Idle
    \/ ~forced /\ nextRun # NotDue /\ ~nextRun.due

NewRun(c, forced) ==
    [Idle EXCEPT !.id = CHOOSE r \in Unused : TRUE, !.forced = forced, !.phase = "claimed",
                 !.settings = c, !.ctx = IF process.stopping THEN "failed" ELSE "live"]

\* The loop's call takes the scheduler, or finds that it must not.
LoopClaims ==
    /\ loop.pc = "claiming"
    /\ IF Refused(loop.config, FALSE)
       THEN /\ nextRun' = IF loop.config.enabled THEN nextRun ELSE NotDue
            /\ GoTo("reading") /\ UNCHANGED run
       ELSE /\ Unused # {} /\ run' = NewRun(loop.config, FALSE)
            /\ GoTo("running") /\ UNCHANGED nextRun
    /\ UNCHANGED <<storeVars, snapshot, outside, process, signal, lastTask, apiVars>>

\* The loop's call returns.
LoopReturns ==
    /\ loop.pc = "running" /\ (run = Idle \/ run.forced)
    /\ GoTo("reading")
    /\ UNCHANGED <<storeVars, snapshot, outside, process, run, nextRun, signal, lastTask, apiVars>>

\* A manual run: a worker calls runDue with force.  It reads the configuration
\* just before it takes the scheduler.
WorkerClaims ==
    /\ process.up /\ ~process.stopping
    /\ ~Refused(config, TRUE) /\ Unused # {} /\ Event
    /\ run' = NewRun(config, TRUE)
    /\ UNCHANGED <<storeVars, snapshot, process, nextRun, loop, signal, lastTask, apiVars>>

\* AcquireInspectionLease, unless another owner's lease is active; the scheduler
\* forgets the last run.
Acquirable == ~lease.live \/ lease.owner = process.owner
Acquire ==
    /\ run.phase = "claimed" /\ run.ctx = "live" /\ LeaseFree /\ Acquirable
    /\ lease' = [owner |-> process.owner, run |-> run.id, live |-> TRUE]
    /\ run' = [run EXCEPT !.phase = "leased"]
    /\ nextRun' = NotDue /\ lastTask' = NoRun
    /\ UNCHANGED <<database, config, history, snapshot, outside, process, loop, signal, apiVars>>

\* The lease is another's: the next attempt is an interval of the settings
\* read at the start away.
AcquireRefused ==
    /\ run.phase = "claimed" /\ run.ctx = "live" /\ LeaseFree /\ ~Acquirable
    /\ nextRun' = ScheduledAfter(run.settings) /\ run' = Idle
    /\ UNCHANGED <<storeVars, snapshot, outside, process, loop, signal, lastTask, apiVars>>

AcquireFails ==
    /\ run.phase = "claimed" /\ run' = Idle
    /\ \/ Fails
       \/ run.ctx # "live" /\ UNCHANGED <<storeVars, outside>>
    /\ UNCHANGED <<snapshot, process, nextRun, loop, signal, lastTask, apiVars>>

\* The running heartbeat, recorded under the run's context.
RecordStart ==
    /\ run.phase = "leased"
    /\ \/ run.ctx = "live" /\ Recorded("running") /\ Works /\ run' = [run EXCEPT !.phase = "executing"]
       \/ Fails /\ run' = [run EXCEPT !.phase = "aborting"]
       \/ run.ctx # "live" /\ UNCHANGED <<storeVars, outside>> /\ run' = [run EXCEPT !.phase = "aborting"]
    /\ EndRead("recorder")
    /\ UNCHANGED <<process, nextRun, loop, signal, lastTask, apiVars>>

\* The executor reports its task; the heartbeat is recorded with it, in a
\* context of its own.
Report ==
    /\ run.phase = "executing" /\ ~run.reported
    /\ run' = [run EXCEPT !.reported = TRUE]
    /\ \/ Recorded("running") /\ Works /\ lastTask' = run.id
       \/ Fails /\ UNCHANGED lastTask
    /\ EndRead("recorder")
    /\ UNCHANGED <<process, nextRun, loop, signal, apiVars>>

\* renewLease renews a lease that is the owner's (by the tick's time it may
\* have been live still), and stops the run otherwise.
Renew ==
    /\ run.phase = "executing" /\ run.ctx = "live" /\ LeaseFree
    /\ \/ lease.owner = process.owner /\ ~lease.live
          /\ lease' = [lease EXCEPT !.live = TRUE] /\ UNCHANGED <<run, database, config, history, outside>>
       \/ ~(lease.owner = process.owner /\ lease.live)
          /\ run' = [run EXCEPT !.ctx = "failed"] /\ UNCHANGED <<storeVars, outside>>
       \/ Fails /\ run' = [run EXCEPT !.ctx = "failed"]
    /\ UNCHANGED <<snapshot, process, nextRun, loop, signal, lastTask, apiVars>>

\* A manual operation preempts an automatic run, which counts as cancelled; a
\* manual run is cancelled with its task or reaches its time limit.  The first
\* cause stays.
ContextEnds ==
    /\ run.phase \in {"claimed", "leased", "executing"} /\ run.ctx = "live" /\ Event
    /\ \E c \in {"cancelled", "failed"} :
        /\ ~run.forced => c = "cancelled" /\ run.phase = "executing"
        /\ run' = [run EXCEPT !.ctx = c]
    /\ UNCHANGED <<storeVars, snapshot, process, nextRun, loop, signal, lastTask, apiVars>>

\* The executor returns, its context is ended and with it the renewal; the
\* verdict ("succeeded" is any that the executor gives itself).  Then
\* scheduleVersion is read: from here on edited says whether there has been an
\* edit since, and usable whether there was none before.
Execute ==
    /\ run.phase = "executing" /\ snapshot["recorder"] = NoRead
    /\ run' = [run EXCEPT !.phase = "versioned", !.ctx = "cancelled",
                   !.usable = ~run.edited, !.edited = FALSE, !.verdict =
                   CASE run.ctx = "failed" -> "failed"
                     [] run.ctx = "live"   -> "succeeded"
                     [] OTHER              -> "cancelled"]
    /\ UNCHANGED <<storeVars, snapshot, outside, process, nextRun, loop, signal, lastTask, apiVars>>

\* latestScheduleConfig: it falls back on the configuration of the start.
ReadSchedule ==
    /\ run.phase = "versioned"
    /\ \/ run' = [run EXCEPT !.phase = "recording", !.settings = config, !.usable = TRUE]
          /\ UNCHANGED <<storeVars, outside>>
       \/ Fails /\ run' = [run EXCEPT !.phase = "recording"]
    /\ UNCHANGED <<snapshot, process, nextRun, loop, signal, lastTask, apiVars>>

\* Bug: the final heartbeat is recorded in the run's context.
RecordFinalInRunContext ==
    /\ run.phase = "recording" /\ run' = [run EXCEPT !.phase = "releasing"]
    /\ IF run.verdict = "succeeded" THEN Recorded(run.verdict) ELSE UNCHANGED storeVars
    /\ Works /\ EndRead("recorder")
    /\ UNCHANGED <<process, nextRun, loop, signal, lastTask, apiVars>>

\* The final heartbeat, in a context of its own.
RecordFinal ==
    /\ run.phase = "recording" /\ run' = [run EXCEPT !.phase = "releasing"]
    /\ \/ Recorded(run.verdict) /\ Works
       \/ Fails
    /\ EndRead("recorder")
    /\ UNCHANGED <<process, nextRun, loop, signal, lastTask, apiVars>>

\* ReleaseInspectionLease deletes the owner's lease.
Released ==
    /\ LeaseFree
    /\ \/ lease' = (IF lease.owner = process.owner THEN NoLease ELSE lease)
          /\ UNCHANGED <<database, config, history, outside>>
       \/ Fails

\* The start has failed.
Abort ==
    /\ run.phase = "aborting" /\ Released /\ run' = Idle
    /\ UNCHANGED <<snapshot, process, nextRun, loop, signal, lastTask, apiVars>>

\* Bug: the configuration's version is not compared.
PublishesUnversioned == run.usable

\* The run has ended.  The schedule is published unless it has been edited since
\* its version was read, or could not be read and had been edited before.
Publishes == ~run.edited /\ run.usable
Publish ==
    /\ run.phase = "releasing" /\ Released /\ run' = Idle
    /\ lastTask' = IF run.reported THEN run.id ELSE NoRun
    /\ nextRun' = IF Publishes THEN ScheduledAfter(run.settings) ELSE nextRun
    /\ UNCHANGED <<snapshot, process, loop, signal, apiVars>>

-----------------------------------------------------------------------------
(* Requests *)

Serving == process.up /\ ~process.stopping

\* UpdateConfig stores a configuration: one a request holds, or that of Cancel
\* and Resume, which have read the stored one and switched it ...
EditStores(e) ==
    /\ Serving /\ editor[e] = NoEdit /\ Event
    /\ config' \in Configs
    /\ editor' = [editor EXCEPT ![e] = [stored |-> TRUE, config |-> config']]
    /\ overlapped' = \E f \in Editors : editor[f].stored
    /\ UNCHANGED <<database, history, lease, snapshot, process, memoryVars, deleting, clearing>>

\* Cancelling a context that has ended keeps its cause.
Stopped(r, cause) == [r EXCEPT !.ctx = IF r.ctx = "live" THEN cause ELSE r.ctx]

\* An edit that disables inspections stops the run under way.
Told(c) == LET told == [run EXCEPT !.edited = TRUE]
           IN  IF run = Idle THEN Idle ELSE IF c.enabled THEN told ELSE Stopped(told, "cancelled")

\* Bug: the channel has no buffer.
EditTellsUnbuffered(e) ==
    /\ editor[e].stored
    /\ nextRun' = ScheduledAfter(editor[e].config)
    /\ run' = Told(editor[e].config)
    /\ IF loop.pc \in {"asleep", "timer"} THEN GoTo("reading") ELSE UNCHANGED loop
    /\ editor' = [editor EXCEPT ![e] = NoEdit]
    /\ UNCHANGED <<storeVars, snapshot, outside, process, signal, lastTask, overlapped, deleting, clearing>>

\* ... and then tells the scheduler.
EditTells(e) ==
    /\ editor[e].stored
    /\ nextRun' = ScheduledAfter(editor[e].config)
    /\ run' = Told(editor[e].config)
    /\ signal' = TRUE
    /\ editor' = [editor EXCEPT ![e] = NoEdit]
    /\ UNCHANGED <<storeVars, snapshot, outside, process, loop, lastTask, overlapped, deleting, clearing>>

\* A request cancels the task of an automatic run: it stores the cancellation,
\* as the task has not ended ...
DeleteStores ==
    /\ Serving /\ deleting = NoRun /\ Event
    /\ run.reported /\ ~run.forced /\ run.phase = "executing"
    /\ deleting' = run.id
    /\ UNCHANGED <<storeVars, snapshot, process, memoryVars, editor, overlapped, clearing>>

\* ... and passes it to the scheduler (CancelTask).
DeletePasses ==
    /\ deleting # NoRun /\ deleting' = NoRun
    /\ run' = IF run # Idle /\ lastTask = deleting
              THEN Stopped(run, "cancelled") ELSE run
    /\ UNCHANGED <<storeVars, snapshot, outside, process, nextRun, loop, signal, lastTask,
                   editor, overlapped, clearing>>

\* ClearHistory: its deletion comes some time after its checks; then the
\* scheduler forgets the last run.
ClearChecks ==
    /\ Serving /\ ~clearing /\ run = Idle /\ ~lease.live /\ Event
    /\ clearing' = TRUE
    /\ UNCHANGED <<storeVars, snapshot, process, memoryVars, editor, overlapped, deleting>>

ClearDeletes ==
    /\ clearing /\ clearing' = FALSE
    /\ \/ history' = <<>> /\ lastTask' = NoRun /\ UNCHANGED <<database, config, lease, outside>>
       \/ Fails /\ UNCHANGED lastTask
    /\ UNCHANGED <<snapshot, process, run, nextRun, loop, signal, editor, overlapped, deleting>>

-----------------------------------------------------------------------------
(* The process *)

\* StopContext interrupts the run under way and the loop.
Stop ==
    /\ process.up /\ ~process.stopping /\ Event
    /\ process' = [process EXCEPT !.stopping = TRUE]
    /\ run' = IF run = Idle THEN Idle ELSE Stopped(run, "failed")
    /\ UNCHANGED <<storeVars, snapshot, nextRun, loop, signal, lastTask, apiVars>>

\* The process ends, in order once it has stopped, or at any moment.
Down ==
    /\ process.up /\ Event
    /\ process' = [up |-> FALSE, stopping |-> FALSE, owner |-> process.owner + 1]
    /\ snapshot' = [a \in DOMAIN snapshot |-> NoRead]
    /\ run' = Idle /\ nextRun' = NotDue /\ loop' = LoopOff /\ signal' = FALSE
    /\ lastTask' = NoRun /\ editor' = [e \in Editors |-> NoEdit]
    /\ overlapped' = FALSE /\ deleting' = NoRun /\ clearing' = FALSE
    /\ UNCHANGED storeVars

\* Start, before requests are served: reconcile and arm.
Start ==
    /\ ~process.up
    /\ process' = [process EXCEPT !.up = TRUE]
    /\ history' = Reconciled(history)
    /\ lease' = IF lease.live THEN lease ELSE NoLease
    /\ nextRun' = ScheduledAfter(config) /\ GoTo("reading")
    /\ UNCHANGED <<database, config, snapshot, outside, run, signal, lastTask, apiVars>>

Init ==
    /\ database \in Databases /\ config \in Configs
    /\ history = <<>> /\ lease = NoLease /\ failed = FALSE /\ events = 0
    /\ snapshot = [a \in {"recorder", "reconciler"} |-> NoRead]
    /\ process = [up |-> FALSE, stopping |-> FALSE, owner |-> 0]
    /\ run = Idle /\ nextRun = NotDue /\ loop = LoopOff /\ signal = FALSE
    /\ lastTask = NoRun /\ editor = [e \in Editors |-> NoEdit]
    /\ overlapped = FALSE /\ deleting = NoRun /\ clearing = FALSE

LoopSteps == LoopRead \/ LoopArm \/ LoopSignalled \/ TimerFires \/ LoopCheck \/ LoopClaims
                      \/ LoopReturns \/ LoopStops
RunSteps  == Acquire \/ AcquireRefused \/ AcquireFails \/ RecordStart \/ Execute \/ ReadSchedule
                     \/ RecordFinal \/ Abort \/ Publish

Next ==
    \/ LoopSteps \/ LoopCannotRead \/ RunSteps
    \/ WorkerClaims \/ Report \/ Renew \/ ContextEnds
    \/ RecordRead \/ ReconcileRead \/ ReconcileWrite \/ Expire \/ TimeComes
    \/ \E e \in Editors : EditStores(e) \/ EditTells(e)
    \/ DeleteStores \/ DeletePasses \/ ClearChecks \/ ClearDeletes
    \/ Stop \/ Down \/ Start

Spec == Init /\ [][Next]_vars

\* The loop, a run, a request and a transaction proceed as long as the process is
\* up; time passes, so that a due time comes and what a dead owner holds runs out.
Fairness ==
    /\ WF_vars(LoopSteps) /\ WF_vars(RunSteps) /\ WF_vars(RecordRead)
    /\ WF_vars(~Serialised /\ Report) /\ WF_vars(~Serialised /\ ReconcileWrite)
    /\ WF_vars(TimeComes) /\ WF_vars(lease.owner # process.owner /\ Expire)
    /\ \A e \in Editors : WF_vars(EditTells(e))

FairSpec == Spec /\ Fairness

-----------------------------------------------------------------------------
(* Properties *)

\* On one process without failed transactions a heartbeat that says running is
\* that of the run under way: whatever stopped a run, its end was recorded
\* (scheduler.go:691, in a context that the run's cancellation does not end).
NoOrphans ==
    Serialised /\ ~failed /\ process.up /\ process.owner = 0 =>
        \A i \in DOMAIN history : history[i].status = "running" => history[i].run = run.id

\* When a run has ended the next one is due by the stored configuration, and
\* none while inspections are disabled, however edits, the loop and the run have
\* interleaved (scheduler.go:687-708).  An edit the scheduler has not been told
\* of, or the loop not woken for, is still to come; a configuration that could
\* not be read leaves an older schedule.  When an edit has been stored while
\* another was on its way, the one told last counts until the next run ends, and
\* it need not be the one stored last (scheduler.go:387-396): inspections are
\* enabled even then, but the interval may be the older one.
ScheduleFresh == [][
    /\ Publish /\ ~failed /\ ~signal /\ loop.pc \in {"asleep", "timer", "running"}
    /\ \A e \in Editors : ~editor[e].stored
    /\ nextRun' # NotDue
    => config.enabled /\ (overlapped \/ nextRun'.interval = config.interval)]_vars

\* A run's own verdict stays what it was for as long as its heartbeat is kept: no
\* reconciler and no later record takes it back (business/inspection.go:221-402).
\* On a database server two writers may read the same history and one then loses
\* its row: there only the serialised writers of SQLite keep the promise.
VerdictKept == [][Serialised => \A i \in DOMAIN history :
    history[i].status \in {"succeeded", "failed", "cancelled"} =>
        StatusOf(history', history[i].run) \subseteq {history[i].status}]_vars

\* Cancelling a task stops that task's run and no other (recovery.go:123).
CancelStopsMatching == [][DeletePasses /\ run' # run => run.id = deleting]_vars

\* With inspections enabled, a process that serves and no more edits or manual
\* runs, automatic runs keep coming: no wake-up is lost between the loop, the
\* handlers and the ends of runs, and a dead process's lease delays them only.
InspectionsResume ==
    <>[](config.enabled /\ Serving /\ ~run.forced
         /\ \A e \in Editors : editor[e] = NoEdit)
        => []<>(run.phase = "executing")
=============================================================================

# Formal models of sub2api-console

TLA+ models of the parts of the console's Go backend (`src/backend`) where
goroutines, HTTP handlers, database transactions, remote calls and restarts
meet: the runner of background tasks, the lease that guards remote writes and
its nesting, the store of tasks and their recovery, the inspection scheduler,
the routing writes to accounts, and the making and deleting of keys and
accounts. TLC checks each model on small instances; TLAPS proves what matters
most for every value of the constants.

Every definition is translated from the source. `PROJECT.json` says which lines
each one stands for, lists the runs, the hazards they answer, the findings and
the theorems.

## 1. The system

The console administers AI gateways: it reads accounts, upstreams, balances and
prices of remote products, plans changes and applies them. One process
(`cmd/server`) holds the databases (an instance guard keeps a second one out),
serves the HTTP API, and runs schedulers and background tasks. SQLite,
PostgreSQL and MySQL are supported.

### Components

| Component | State | Operations | Interacts with |
|---|---|---|---|
| Task runner (`internal/taskrunner`) | counters, limit and queue, cancel functions by ID, `changed` and `done` channels | `Go`, `GoTask`, `CancelTask`, `Configure`, `Cancel`, `Shutdown` | every domain that launches tasks; task settings; shutdown |
| Mutation guard (`internal/mutationguard`, `business/mutation_lease.go`) | lease rows with owner and expiry; per call a deadline, a renewal in flight, a guarded context; the resources held by enclosing calls; in-process locks with reference counts; registry of automatic inspections | `Acquire`, renewal loop, watchdog, preemption, `release` | every remote write; upstream identities |
| Task store (`internal/taskstore`) | tasks, recovery checkpoints, reservations of exclusive operations, tombstones | `Save`, `RecoverInterrupted`, `PendingRecovery`, `RecoveryTask`, `CancelTask`, `ClearLogs`, `DeleteTerminalBySkill` | workers, API, startup, log maintenance, workbench |
| Task recovery (`internal/taskrecovery`, `taskstore/persistence.go`) | list of tasks left to resume | `Run`, `Enqueue`, `SaveFinal`, `PersistLaunchFailure`, `MarkCancelled` | store, runner, resumable domains |
| Inspection (`internal/inspection`, `business/inspection.go`) | stored: settings, inspection lease, heartbeat history; in memory: running, due time, last task, a channel of edits | scheduler loop, manual runs, reconciliation, `Update`, `CancelTask`, `ClearHistory`, start and stop | guard, store, runner, API |
| Routing (`internal/routing`) | evidence, targets of a round | `Calculate` | routing writes |
| Routing writes (`internal/routingwrite`, `business/routing_write.go`) | remote settings of accounts; the local copy; baselines (who owns an account, its values before, the values set); per round a capacity guard and a batch coordinator | `Apply`: prepare each account, bulk or single writes, read back, record; hand control back | guard, administration client, routing, policy, synchronisation |
| Onboarding (`internal/onboarding`, `business/onboarding.go`) | pending rows; keys at the upstream, accounts at Sub2API, with markers; accounts and bindings | `Onboard` with resumption, cleanup of unbound keys | guard, upstream and administration clients |
| Account deletion (`internal/accountdelete`, `business/cleanup.go`) | the same | `Delete`: key, account, local rows | guard, clients, onboarding |
| Account synchronisation (`internal/management`, `business/management_sync.go`) | the snapshot of accounts | `Sync`, pruning | guard, clients, onboarding, deletion |
| Account automation (`internal/accountautomation`) | schedules, task groups | start, stop, follow-up | runner, store |
| Task settings (`internal/tasksettings`) | versioned limits | `Update` by compare-and-swap, then `Configure` | runner |
| Upstream identities (`business/upstream_identity.go`) | which hosts are one upstream | reconciliation | guard |
| Account operations, workbench, upstream synchronisation and exclusion, authentication recovery, notification | rows of the business store; remote state | multi-step remote changes | guard, runner, store |
| Configuration, database connections and transfer, pricing, probing, model checks, clients, browser login, frontend | settings; connections; computations | single transactions, remote I/O, pure functions | all |

The interactions that matter: a domain saves a task and launches it on a runner
group; the worker saves `running`, does its work under mutation leases and saves
one verdict. A `DELETE` handler first stores the cancellation, then looks for a
worker. At shutdown all contexts end with cause `ErrInterrupted`; at startup the
store fails what cannot be resumed and queues what can, and a dispatcher offers
it to its domain. The inspection loop runs synchronisation, probing and routing
under its lease; a routing round calculates targets, takes the leases of the
accounts and writes; onboarding, deletion and synchronisation share the tables
of accounts and bindings and keep apart by leases on catalogues and accounts.
All of this happens in separate steps that interleave.

### What is hard

* **Concurrency**: lost wakeups in the runner; a cancel function called after
  the lock is gone; a watchdog and a renewal that both decide about one lease; a
  verdict saved late; accounts of one upstream given capacity in parallel; an
  edit of the schedule against the run that ends.
* **Failure**: a call that takes effect and answers with an error, of the
  database or of a remote product; a bulk update that half succeeds; a release
  that fails; the process that dies between two steps; creations that are not
  idempotent.
* **Ordering**: preempt before or after registration; cancellation before or
  after launch; shutdown before or after the verdict; a list read before, and
  applied after, somebody else's commit.
* **Time**: leases stamped before the call that takes them; answers after the
  deadline; a shutdown that times out and is repeated.

### What makes each component correct

* Runner: never more tasks than the limit allowed when each was admitted; no
  waiter forgotten; a task runs once at a time per ID; shutdown is exact.
* Guard: two operations that may write at the same time have leased different
  resources, and touch different hosts and identities, as those are *now*; a holder never believes longer than the
  database does; nothing is revived after release; manual work is not kept
  waiting by automatic inspections; releases end; nested calls never wait in a
  circle and lock nothing twice.
* Store: a task ends once and keeps its verdict; deleted is for good; at most one
  active task per exclusive operation, and no operation blocked by an ended one.
* Recovery: what was accepted is started or ended; what was cancelled is never
  started; what was merely interrupted is not ended; nothing is orphaned.
* Inspection: no heartbeat says running for ever; a run that ends never puts an
  older schedule in the place of a newer one; verdicts stay; an enabled schedule
  goes on; a cancellation stops the run it names and no other.
* Routing writes: the accounts of an upstream never get more than its limit; what
  is recorded took effect; the console knows its own writes and gives back
  exactly what it took; no account of a batch waits for ever for the others.
* Onboarding, deletion, synchronisation: nothing is created twice and nothing
  created is forgotten; no used key is cleaned up; an account outlives its key;
  only what no longer exists is pruned.

## 2. The modules

| Module | Models | Abstract specification |
|---|---|---|
| `TaskRunner` | `taskrunner/runner.go` | `SlotPool` |
| `MutationLease` | `mutationguard/guard.go` over `business/mutation_lease.go` | `LeaseLock` |
| `NestedLocks` | `mutationguard/guard.go`: calls within calls, in-process locks | |
| `TaskStore` | `taskstore` transactions | `TaskLifecycle` |
| `TaskRecovery` (extends `TaskStore`) | handlers, workers, dispatcher, startup, shutdown | `TaskStore`'s own specification, and `TaskLifecycle` |
| `InspectionSchedule` | `inspection/scheduler.go` over `business/inspection.go` | |
| `RoutingWrite` | `routingwrite/*.go` over `business/routing_write.go` | `AccountCustody` |
| `Onboarding` | `onboarding`, `accountdelete`, `management.Sync` over `business` | `CreatedPairs` |
| `…Proofs` | theorems about the module of that name | |
| `MC…` | constants for TLC | |

In each module the operators whose comment begins with *Bug* are not part of
the model. Each is the form a mapped definition would have after a plausible
mistake (a dropped guard, a missing reset, a swapped order), and one of the
properties fails when it takes the place of the original.

### TaskRunner

One goroutine launched by `start` is a worker; the mutex makes every critical
section one action. What happens outside the mutex is separate: `Park` keeps the
current `changed` channel and blocks (a worker is in `parked` while the channel
it blocks on is the current one, and `Notify` empties `parked`); `CancelLookup`
finds the cancel function and `CancelCall` calls it later; `Shutdown` and
`ShutdownReturn` are the two halves of `Group.Shutdown`, whose context may expire
at any time. `GiveUp` is the branch of `wait` that runs the body without a slot.
`ParentInterrupt` is `cancelServices`, which ends the group's context before
`Cancel` is called. `start` refuses (`ErrStopped`, `ErrDuplicateTask`,
`ErrCapacity`) where no launch action is enabled. There is no end to the launches: the
name of a worker that has returned, and whose cancel function nobody holds any more,
is used for a later one. `Snapshot`, `Feed` and the
helpers `Go`/`GoTask` keep no state of their own.

`SlotPool` promises a bounded pool: holders come in one at a time below the
limit of that moment, the limit changes without evicting anyone, and once the
door is shut for newcomers it stays shut.

### MutationLease

A call is one execution of `Acquire` with its own owner ID. Transactions are
atomic: on SQLite they are serialised, on servers `beginResourceTx` locks the
identities in order. Reading the clock, calling the database and using the answer
are different actions; the clock may advance between any two, so no goroutine,
timer or database is prompt. `Stamp` reads `attemptedAt` (after preempting);
`TxAcquire`, `TxBlocked`, `TxFails` are the three answers of
`AcquireMutationLease`; `CheckMargin` is the test of the time that remains;
`Confirm` resolves once more and starts the loop. `RenewBegin`, `RenewTx`,
`RenewPublish`, `RenewFinish` are one renewal, `WatchExpiry` the watchdog, whose
access to an answer that is published but not yet applied is modelled as in
`applyRenewalLocked`. `ReleaseBegin` and `ReleaseTx` are the two halves of
`release`. What requests resolve to changes in two ways. `Reidentify` is what upstream
reconciliation and configuration do to hosts and identities; they hold a lease on
what they change, before and after. `Attach` is what onboarding, synchronisations
and deletions do to the accounts of a host: a request for the upstream catalogue is
leased together with them, but no lease on a host or the catalogue is needed to
insert or remove one, so that it may happen while such a request is in force.

Left out: `leaseDeadline.expired` (set together with the cancellation), and what
`NestedLocks` models. The loop's ticker may fire at any time, which includes
every 20 seconds.

`LeaseLock` promises: calls in force hold disjoint sets of resources, come into
force with all of them or none, end once and never come back.

### NestedLocks

A call is made in the context of no call or of one that holds its resources, and
several goroutines may make calls in one context (`heldResourceState` and its
parents; `above` of a call are the calls around it). It resolves its request; if
the chain already covers what it asks for, or overlaps with it in part, or if the
call would have to lock something that does not lie above all the chain holds, it
stops there (covered or refused, it takes nothing); otherwise it takes its locks in
order, resolves again and gives all back if the answer has changed meanwhile. `backed` says whether the repository keeps leases, taken in one step,
or the process its own locks: a table of entries with a reference count and a
channel with one token, where looking up, waiting, taking, putting back and
deleting are separate steps. Requests may resolve differently at any time
(`MaxDrifts` times in the runs). Clocks, failures and preemption are
`MutationLease`'s.

### TaskStore

Each transaction of the store is one action on three variables: status,
checkpoints, reservations. `Save` writes the row (unless the task is deleted or
has another verdict), reserves the operation for an active status or fails, and
for a verdict drops checkpoint and reservation. `RecoverInterrupted(S)` fails any
set of active tasks without checkpoint: all of them in one transaction on SQLite,
one at a time on servers. `ClearLogs(S)` likewise stands for a batch on SQLite and
for the candidates that were still ended when a server locked them.
`DeleteTerminal` is the SQLite form, which deletes only the task row; the server
form also deletes checkpoint and reservation, which ended tasks do not have.
`Compact…`, `UpdateTerminalResult` and projections rewrite results and are left
out; `RecoverStaleInterrupted` has no caller outside tests.

### TaskRecovery

The worker is `management.executeMaintenanceContext`, which has the shape of all
resumable domains. `Attempt` is a call of `Save` as seen by its caller: committed,
refused, or failed with the commit uncertain. A submitter saves and then launches
(`Submit`, `Launch`, `LaunchFails`); `SaveRunning`, `Work`, `Finish` are the
worker; `Verdict` is `MarkCancelled`; `CancelRead`, `CancelStore`, `CancelRunner`
the `DELETE` handler; `Boot` to `Serve` the startup; `DispatchRead` and the
`Offer…` actions `taskrecovery.Run`; `OfferTaken` and `Reread` `Enqueue`; `Stop`
and `Down` shutdown, exit and crash. The runner is seen from outside, as far as
`TaskRunner` justifies: it launches, is full or is stopped.

Left out: tasks that wait for input (authentication recovery and notification
targets end their worker and wait without one) and the captcha branch of
`cancelTask`; a checkpoint that changes or is corrupt while its worker waits
(`Enqueue` then ends the task as `OfferRefused` does); a duplicate ID when
resuming and a conflict of reservations at startup, which the model shows cannot
arise.

### InspectionSchedule

The loop waits for its timer, an edit or the end; an automatic run and a manual
one both go through `runDue`, which sets `running` first, takes the stored lease,
records a heartbeat, runs, records the end and publishes the next due time from
the settings it has read. Edits store first and tell the loop by a channel later
(`EditStores`, `EditTells`); the `DELETE` of a task stores the cancellation and
then passes it on. Reconciliation rewrites heartbeats whose runs nobody has any
more; `ClearHistory` checks and then clears. On SQLite a transaction is one
action; on servers the recorder and the reconciler read, and later write, a
history that the other may have changed in between (`snapshot`). A crash leaves
lease and heartbeats behind. Time is abstract: a lease may run out, and a due
time may come, at any moment. In place of the version of the schedule, the model
holds whether a change has been made that the reader does not know of yet.
Several requests may edit at once (`Editors`); `overlapped` remembers whether the
last edit was stored while an earlier one had not been passed on.

Left out: the preview of the queue, and the due times of single stages within a
run. Two pairs of steps are one action each, as no property tells them apart: the
reading of the settings and the claim of a run (`scheduler.go:567-571`), and the
transaction that takes the lease and the assignments in memory after it
(`scheduler.go:589-606`).

### RoutingWrite

`Sync`, `Calculate` and `Apply` begin a round; what `Calculate` may ask for is any
target the code can compute for an account (adopt, change, stop, resume, wait for
capacity, hand back, abandon). `prepareAccount` is `ReadAccount` and one of its
outcomes: `AbandonControl`, `Wait`, `Refuse`, `Matches`, `Enqueue`; the capacity
guard reads the list once (`LoadRemoteCapacity`), reserves for whoever grows and
gives away only what is paused and stays so. The batch coordinator writes when
the last account has arrived (`Execute`): in bulk what is alike (`BulkWrite`),
else the fields, their confirmation and the traffic switch one by one
(`PutFields`, `ConfirmConcurrency`, `SwitchTraffic`), then reads back what was
unclear, partial or is to be verified. `Finish` records the outcome, settings and
baseline in one transaction. Any call may fail with or without effect; the task
may be cancelled, the policy withdrawn, the process die, and a person change an
account, one field at a time.

`AccountCustody` knows no rounds: it promises that the console writes only to
accounts it has taken, takes none that a person has claimed unless it manages all,
remembers the settings of an account when it takes it and only then, and keeps them
until the account is handed back. What is remembered is the account's setting at that
moment, unless a person has changed it, maybe since it was read.

Left out: priority and load factor; the ownership version of older rows; the global budget, a second one of the same
kind; cleanup targets; reductions outside the allocation; `RestoreConcurrency`,
`RestoreControl` and manual priority; stops for cost or health, whose capacity is
given away as that of an account which waits for capacity; requests that land
after the round.

### Onboarding

Four actors: the onboarding at work (`attempt`), the cleanup of unbound keys, the
deletion of an account, the synchronisation. `Begin` takes the lease and the
pending row, new or old; `Announce` saves the flag before a creation is sent,
`Send` sends it; it may be answered, refused or neither; whatever happens the
request may land later or never (`CreationLands`). `Find` looks for the marker.
`SaveFound` saves the ID in the place of the flag, `Commit` writes account and
binding and deletes the row; if it commits without an answer the failure path
saves the row again (`CommitUnanswered`, `SaveFailing`). The cleanup and the
deletion look up again what they rely on before each step, the deletion also
after it. `Sync` discovers, locks, reads, checks, commits. Every actor may give up
anywhere, which stands for errors, lost leases and, when all do, a crash: they
keep nothing but what is stored. An actor writes locally only while its lease
lasts; that the code ensures by the guarded context, which is `MutationLease`'s
matter.

`lost` is a history variable: accounts that a synchronisation pruned although
they existed (see Findings). `NothingForgotten` and `CleanupSpares` do not speak of
them, since what is then forgotten follows from that one step.

`CreatedPairs` knows no rows, flags, markers or answers: it promises that an
operation makes a key, once, and then an account that uses it, once; that nothing
is made again after it was deleted, or changes hands; and that a binding joins an
account with the key it uses, both of one operation.

Left out: group updates of accounts that exist, probe keys, the capacity check,
frozen parameters, the deletion of an upstream (which deletes its pending rows),
batches of deletions.

## 3. The runs

Bounds are constants of the configurations; nothing else is bounded. Deadlock
checking is off where the system really stops: calls that have all ended, a
store with nothing left to do, a process at its bound of restarts.

| Run | Instance | Shows |
|---|---|---|
| `runner` | 3 workers, one ID and none, limits {1,2}, queues {0,1,2}, 1 caller of `Shutdown`; 153 thousand states | exact counters and registry, no lost wakeup, `done` closed once and exactly, cancellations hit the launch they were meant for, the group implements `SlotPool`; cancelled waiters leave the queue, a stopped group drains, accepted workers run once launches cease; no deadlock |
| `lease` | a manual and an automatic call, 2 hosts that merge and split, an account attached to both, TTL 2, margin 1, clock to 2, failing database; 1.1 million | the deadline is fenced by the rows, mutual exclusion by what was leased and by hosts and identities as requests resolve now, no theft, no resurrection, the guard implements `LeaseLock` |
| `lease_fair` | a manual and 2 automatic calls, clock to 1 | preemption alone lets manual work through; releases end |
| `nested` | 3 calls, 2 requests, 2 resources, 3 resolutions, 2 entries, 1 drift, with and without leases; 3.5 million | no circle of waiting, exclusion, entries exactly as long as needed, nothing locked twice; no deadlock |
| `recovery` | 2 tasks of one operation, 1 resumable, failing store, 3 exits; 111 thousand | exact reservations, `TaskLifecycle`, ended tasks never start, interruption ends nothing |
| `recovery_fair` | 2 tasks, 1 resumable, working store, 2 exits | accepted tasks start or end; cancellations reach their worker; active tasks are always in somebody's hands |
| `inspection` | 4 names of runs, 1 editor, history of 1, 3 events, both kinds of database; 830 thousand | no orphaned heartbeat, fresh schedules, kept verdicts, inspections resume |
| `inspection_cancel` | the same on SQLite | a cancellation may stop the next run (violated) |
| `writes` | 2 accounts, alike at first, concurrencies {1,2}, limit 2, 2 rounds, 1 disturbance; 930 thousand | rounds end, capacity kept, records confirmed, own writes recognised, originals restored; rounds implement `AccountCustody` |
| `writes_released` | 1 account, 3 rounds, 1 disturbance | the console may take its own write for a person's (violated) |
| `keys` | 2 intents, operations, keys and accounts; 1.6 million | `CreatedPairs`: nothing created twice or bound to another's; nothing forgotten, used keys spared, keys deleted before accounts |
| `keys_pruned` | one of each | a synchronisation may prune a new account (violated) |

Why these bounds are enough. Three workers with limits 1 and 2 are the least for
which one runs, one waits and one is admitted, refused or cancelled between them, or
for which newcomers overtake a waiter again and again; an ID may be launched again
while its old cancel function is in somebody's hands. A
TTL of 2 with an interval of 1 and a call timeout below it keeps the order of the real
constants (120 s, 20 s, 5 s): a lease may be taken with margin left, renewed late
or in time, retried, and lost; a clock to 2 lets a row expire and be taken over, and
one that was renewed outlive its first deadline. That a renewed row expires too is
left to the theorems, which have any clock. Two calls are
enough for exclusion, which is about pairs, and three for a second automatic call
that slips in after the first was preempted. Three nested calls over two resources
are the least in which a chain of two meets a third, or two goroutines of one
context meet; a change of resolution between them lets a request become covered,
or out of order. Two tasks of one operation exclude each other, one resumable and
one not take different ways through startup; after two exits a task that was
resumed has been interrupted again. One editor and one interval keep `inspection`
small, so that its `ScheduleFresh` is about schedules switched off and on; edits
that overlap, and which of several intervals is due, are left to the theorem,
which has any number of both. Three events let an inspection be edited,
stopped or killed, and run again. Two accounts of an upstream whose limit is what
one of them can use compete for all of it, both at work or both paused at first
and often otherwise after a round; a second round meets what a disturbance left in
the first, a third what the second recorded. Two of each let an onboarding
resume while another one makes, cleans or deletes. The names of runs, keys and
accounts are the bound of `inspection` and `keys`; in the former a name is used
again once nothing mentions it. Where a bound stops the system (`MaxClock`,
`MaxDowns`, `MaxEvents`, `MaxRounds`) it is a guard, so that a bounded behaviour is
a prefix of a real one; the theorems hold for all values of such parameters.

The type invariants are proved and not run.

### What the properties except

* `AcceptedRuns` is about what happens once no more tasks are launched
  (`LaunchesEnd`). `start` gives a free slot to whoever comes (`runner.go:117`), also
  while a worker that was woken for it has not got the mutex yet; that worker finds
  the slot taken and blocks again. While tasks keep coming nothing in the code keeps
  this from happening again and again, so that one in the queue may wait for ever,
  although every body returns; the property without its premise fails in that way.
* `MutualExclusion` does not say that two calls in force have no account in common by
  what their requests resolve to now. What they have leased is disjoint, and so are
  their hosts and identities for as long as they are in force; but an account may be
  attached to the hosts of a call that was granted before, and be leased by another
  (`mutation_lease.go:109-118`). Where it matters, the deletion of an upstream, the
  code compares the accounts with the expected ones once more in its transaction
  (`upstream_delete.go:134-142`).
* `NoOrphans` is about one process that has not been restarted, on SQLite, whose
  transactions succeed: what a dead process or a failed save leaves behind is the
  reconciler's, which waits for the lease to run out.
* `ScheduleFresh` speaks of moments when no edit is still on its way to the loop,
  the loop has been woken, and the settings could be read. If the last edits
  overlapped, it promises only that inspections are enabled: handlers store first
  and tell the scheduler later, in either order, so that the interval due next may
  be that of the earlier one until the next run ends (`scheduler.go:387-396`).
* `VerdictKept` is about databases that serialise transactions (SQLite). On the
  others a rewrite of the history by the reconciler and a record can be lost to
  each other, as both read before they write.
* `CapacityKept` leaves out rounds in which an account is handed back to a larger
  concurrency and its pause: the concurrency is written first, without
  reservation as the account ends paused (`upstream_capacity.go:284`), so that the
  limit may be exceeded until the pause follows. It also leaves out rounds in which
  a person changed an account, as does `ProjectionConfirmed`.
* `OwnWritesRecognised` and `RestoresOriginal` speak of histories without
  incidents; what an incident can do is the finding about `OnlyHumanReleasesControl`.
* `NothingForgotten` and `CleanupSpares` exempt `lost` accounts, as said above.

### Fairness

* Runner: weak fairness of what a goroutine that is not blocked does next (`Wait`,
  and the return of a body *whose context has ended*); `AcceptedRuns` alone also
  assumes that every body returns, which is what task timeouts are for, and that
  launches cease. Nothing else is assumed of callers, reconfiguration or cancellation.
* Lease: weak fairness of the steps of `Acquire`, of a renewal that has begun and
  of a release that has begun; a caller releases once its guarded context is
  cancelled, as every caller does by `defer`. No tick is assumed: the results do
  not rest on a lease running out.
* Recovery: weak fairness of workers, handlers and startup; a stopping process
  exits, its shutdown being bounded by 30 seconds, and is started again; work
  whose context has ended returns. Strong fairness of the dispatcher's reads and offers, which
  restarts and other tasks interrupt: the runner is not full for ever.
* Inspection: weak fairness of the loop, of the steps of a run, of what a handler
  or a server transaction has begun, of time (a due time comes), and of the expiry
  of a lease whose owner is another process, dead or alive.
* `NestedLocks`, `RoutingWrite`, `Onboarding`: none. `NoCircularWait` and the first
  half of `RoundsEnd` say of every state that somebody can go on, its second half
  that no round goes on for ever.

### Findings

* `CancelStopsMatching`: the scheduler remembers the task of the last run until
  the next one has its lease, but is `running` before. A cancellation of the last
  run's task that arrives between the two stops the next run.
* `OnlyHumanReleasesControl`: whatever differs from the last confirmed values is
  taken for a manual change. A write of the console's own that took effect but was
  not recorded makes the next round give the account up.
* `PrunedAreGone`: the synchronisation locks the accounts it found at its start;
  an onboarding locks the key catalogue. An account made and committed between the
  reading of the list and the taking over of the snapshot is removed locally,
  with its binding, while it exists.

## 4. What is proved

`TaskRunnerProofs`, for any finite set of workers and any IDs, limits and queues:
type correctness, the safety properties of `runner`, that a group whose `Shutdown`
returned nil stays quiet, and that the group implements `SlotPool`.
The argument is one inductive invariant: the types, the counters as cardinalities
of phases, the registry as the live workers by ID, `parked` workers either done or
without a free slot, `doneCloses` as the condition `stopped` and nobody live. None
is inductive alone: a free slot is known from `running`, which must be the number
of slotted workers; that `done` is not closed twice needs `active` to be exact; that
a late cancel function ends nobody else needs its target to be remembered. Every
action has one step in the proof, and cardinality facts about moving one worker
from a phase to another are lemmas.

`TaskStoreProofs`, for any tasks and operations: types, exact reservations,
checkpoints of active tasks only, and the refinement of `TaskLifecycle`. The
inductive invariant is the conjunction of the three; the refinement uses it where
an accepted task excludes its rivals (the reservation is free only if none of them is
active).

`TaskRecoveryProofs`, for any tasks, any resumable ones, a failing store and any
number of exits: every step of the system is a transaction of the store or leaves
it alone, so that `Spec` refines `StoreSpec`; hence reservations are exact and the lifecycle
holds of the whole system, crashes included; and no task that has ended is ever
started. The invariant adds that whoever works on a task works on one that the
store has seen. Two more properties are proved: no step of a worker that was merely
interrupted ends its task or drops what it is resumed from (`InterruptionSpares`);
and, if the store never fails, an active task is always in the hands of a worker, a
handler, the startup or the dispatcher (`OwnedWhileActive`, by `HandsInv`: contexts
end after their task was seen, active tasks have their checkpoint, what is left to
dispatch has no other worker).

`MutationLeaseProofs`, for any calls, requests, resources, resolutions, times and a
failing database: types, the four safety properties of `lease`, and the refinement
of `LeaseLock`. The invariant says that clock, deadline and the attempt's stamp are
in order; that every row of a call in force lasts at least to its effective
deadline, the later of the one in use and of an answer already published; that a
renewal whose answer is in flight has extended the rows; that a renewal runs only
under a lease that has been granted and not yet released (`LoopInv`, which is why
nothing comes back after release); and that the hosts and identities
of what a call in force asked for are still those it leased, because to change them
needs the lease, while its accounts may be others by now (`CurrentInv`).

`NestedLocksProofs`, for any calls, resources, entries and any number of drifts:
the four properties of `nested`. `NoCircularWait` is proved by descent. Let a set of
calls be closed under waiting, and let Beyond(c) be the resources above all that
c and its chain hold. A call that waits for a lock waits for one that is held by a
call whose Beyond is strictly smaller; one that waits for a nested call waits for a
call with no larger Beyond and strictly fewer calls outside its chain. Strict
inclusion of finite sets is well-founded, so that a smallest element waits for
nobody in the set. The invariants it needs: contexts are transitive and made by
calls that hold (`AboveInv`), what a call may take lies beyond what its chain holds
(`ChainInv`), it takes that in order (`LocksInv`, `AtInv`), there are leases or
entries but not both (`ModeInv`), and an entry has one token, in one place
(`TokenInv`).

`OnboardingProofs`, for any intents, operations, keys and accounts: the types, that
an operation creates once (`CreatedOnce`), and the four properties of `keys`. None is
inductive by itself. That nothing is created
twice needs that whatever a row neither names nor flags does not exist and is not
on its way (`ClearInv`); this is kept because the row is written before the request
is sent and differs from what the attempt has in hand only by the ID just learnt
(`RowSaved`), and because a refused creation had not landed (`OnceInv`: one request
or one thing of an operation, never both). That the cleanup spares used keys needs
that an account uses the key of its operation (`UsesInv`) and that the row of an
account which is begun names its key (`InOrder`). One lemma per action; the lemma
about writing a row (`RowWritten`) serves five of them. On that invariant rests the
refinement of `CreatedPairs` (`OnboardingMakesPairs`). Its maker, use and bindings are
Onboarding's own; what is live is what exists at the upstream. A request that lands
makes the key or the account (`PairsMade`): that the operation has made none
before is `OnceInv`, that the account's key is one of its operation `UsesInv`. A
commit binds what the row names (`PairsBound`), which an operation has by then; a
cleanup, a deletion and a pruning only remove (`PairsRemoved`).

`RoutingWriteProofs`, for any accounts, settings and limits and any number of rounds:
the types, the action properties of `writes`, the refinement of `AccountCustody`, and
that a round can go on. An account is read long before
it is recorded, so the first invariant follows each account through the round
(`AccountInv`): a request is still what was decided (`WantsInv`); how much of it is
known to have taken effect at each stage (`OutcomeInv`); that Sub2API holds what was
read, then that with the concurrency set, then what was read back, unless a person
has interfered (`RemoteInv`); and that, while nothing has failed, each setting is
either one the console is known to have set or still the one from before
(`OwnInv`). `ProjectionConfirmed` follows from `RemoteInv`; `OwnWritesRecognised` and
`RestoresOriginal` from `OwnInv`, with one lemma about recording a request
(`RecordKeeps`) and one about undoing what was set (`RestorableRestores`). A step is
about one account, or about those sent together; the others keep their invariant
(`Untouched`, `StillCapacity`).

`CapacityKept` needs a second invariant on top of the first (`CapInv`), about the
batch as a whole. The batch counts exactly those that have not arrived, so that it
neither writes early nor waits for nobody (`ArrivalInv`, also a theorem of its own:
what `RoundsEnd` rests on). Until an account is written it is what the one list
read found, and has reserved what it may use (`SnapshotInv`). A request in flight
has had no effect, all of it, or that of its first call alone; of its second call
alone only if it does not resume the account (`FlightInv`). A request that needs
capacity has found room in the limit beside all that is reserved (`BudgetInv`): every
other reservation counts, also those of accounts whose reduction is still to come, and
reservations only grow. When a write gives an account more, its request needs
capacity (`RaiseGrows`: the others never take more, but for `StopRaises`); every account
then uses at most its reservation, whatever has become of its own request
(`IdleUse`, `PendingUse`), and the writer at most what it asked for, so that the sum
is within the limit. Sums over the accounts are folds. Their type, monotony and
change at one account are proved by induction over sets of accounts, as the descent to
a least set that is not in a given collection (`AccountSets`), which needs no
theorem with an operator parameter.

The refinement of `AccountCustody` (`RoundsKeepCustody`) needs that a request on its way
is to an account the console owns (`RequestsOwned`, from `WantsInv` and because only
what was set can be restored), also for the members of a bulk update of which any part
takes effect (`WritesOwned`); and that a person's claim stands through the round
(`ClaimsInv`): while the console does not manage all accounts, no round wants to set
or hand back a claimed one, and one that is given up during the round is done with.

`RoundsEnd` has two halves. Every step leads to a state in which the round is over or
one of its steps can be taken (`RoundsProceed'`): `CanMove` lists their guards, and `ENABLED` says that these are the
guards. The prover knows no `ENABLED`, so `RoundsGoOn` proves the former and TLC
checks both. The proof is a case split over what an account that was read may do; it
needs `ArrivalInv` (the batch waits for nobody who has arrived, is lost or was
skipped) and that a round is only about accounts something is wanted of
(`StagedInv`). The other half, that no step is taken twice (`StepsOnce`), is
`RoundsRunOut`: every step of a round moves an account or the batch nearer to its end
and none of them back, so that there are finitely many.

`InspectionScheduleProofs`, for any runs, intervals, editors and length of the history
and on both kinds of database: the types and the three safety properties of
`inspection`. `RecordInv` ties the run under way to its heartbeat: where transactions
are serial a run has at most one, in a status that goes with the run's phase, and
until something fails no other says running. `NoOrphans` and `VerdictKept` follow. The
heartbeats a write keeps are a recursion over the history; that it yields a
sub-history of records kept as they were is proved by induction up to its length
(`UpTo`, and `Recursion`, which is about histories only because a general one would take
the step as a parameter). `ScheduleInv` follows what is due through all who may change
it: from the reading of the version to the publication a run either holds the
stored configuration or an edit has been made that it will notice; with no edit on
its way what is due is the stored configuration's, or the loop will make it so
(`SettingsInv`, `NextInv`). The attempt without `overlapped` failed where two edits are
told in the other order, which is the exception `ScheduleFresh` makes.

The assumptions are those named in the modules (`RunnerAssumption`,
`StoreAssumption`, `RecoveryAssumption`, `LeaseAssumption`, `NestedAssumption`,
`InspectionAssumption`, `OnboardingAssumption`, `WriteAssumption`): finiteness where a
proof counts or descends, types and distinctness of constants. TLC evaluates them in
the runs.

Only model-checked: all liveness, which is out of the prover's reach, as is
`ENABLED` (in `RoundsEnd`, the rest of which is proved); the three
findings, which are counterexamples. Every other property of the runs is a theorem.

## 5. What is not modelled

* Task settings, account automation, upstream exclusion: next in the plan.
* Of the modelled components, what their sections above list as left out; of
  routing, the calculation of targets, which is computation over evidence; of the
  HTTP API, everything but cancellation and edits of the inspection.
* Account operations, workbench, upstream synchronisation and deletion,
  authentication recovery, notification, probing, model checks, browser login:
  remote work whose effects are outside the process. What is modelled is the lease
  it runs under and the task that carries it.
* Single-transaction storage (business, configuration), database connections and
  transfer, pricing, the frontend: no interleaving of their own, or pure
  computation.
* Behaviours of the code that a reader should know and no property rules out: a
  worker interrupted just after its work succeeded is queued again; a
  cancellation frees the operation while the old worker still winds down, so that
  only the mutation lease keeps its writes apart from a successor's; a verdict that
  cannot be saved leaves the task active until the next startup; a key whose
  creation is unclear may be cleaned up, and its onboarding then never finds it; a
  pending row saved again behind a commit keeps its account from being deleted.

## 6. Plan

Done: all modules above, with the proofs of their types, safety and action
properties and of all five abstract specifications.

Next:

1. Lemmas that say more than the runs ask: that the reservations of the capacity
   guard never exceed the limit unless the accounts did before, whatever their order;
   what `StopRaises` can cost at most.
2. `TaskSettings`, composed with `TaskRunner`: versions, compare-and-swap with a
   lost answer, application to the groups.
3. A routing round's planning (who shares the capacity of an upstream), pure, against
   a reference definition; the global budget in `RoutingWrite`.
4. Schedules of the account automation, and upstream exclusion, on top of
   `TaskStore`; the deletion of an upstream against onboarding.

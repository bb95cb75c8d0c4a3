------------------------- MODULE TaskRecoveryProofs -------------------------
(***************************************************************************)
(* Proofs about TaskRecovery, for any tasks and any number of restarts:    *)
(* the processes use the store only through its transactions, so what was  *)
(* proved of the store holds across handlers, workers, dispatcher, startup *)
(* and crashes; and no task that has ended is ever started.                *)
(***************************************************************************)
EXTENDS TaskRecovery, TaskStoreProofs

USE DEF Active, Terminal

(* A call of Save is a transaction of the store, or nothing. *)
LEMMA AttemptIsTransaction ==
  ASSUME NEW t \in Tasks, NEW s \in Active \cup Terminal, NEW ok \in BOOLEAN, Attempt(t, s, ok)
  PROVE  [StoreNext]_storeVars
<1>1. ASSUME NEW recovery \in BOOLEAN, Save(t, s, recovery)
      PROVE  StoreNext
  BY <1>1, Zenon DEF StoreNext
<1>2. CASE Save(t, s, t \in Resumable)
  <2>1. CASE t \in Resumable
    BY <1>1, <1>2, <2>1 DEF Save
  <2>2. CASE t \notin Resumable
    BY <1>1, <1>2, <2>2 DEF Save
  <2> QED
    BY <2>1, <2>2
<1>3. CASE UNCHANGED storeVars
  BY <1>3
<1> QED
  BY <1>2, <1>3 DEF Attempt

(* Every step of the processes is a transaction of the store, or invisible. *)
LEMMA StepIsTransaction ==
  ASSUME RecoveryTypeOK, [Next]_vars
  PROVE  [StoreNext]_storeVars
<1>1. ASSUME NEW t \in Tasks, Submit(t) PROVE [StoreNext]_storeVars
  BY <1>1, AttemptIsTransaction DEF Submit
<1>2. ASSUME NEW t \in Tasks, SaveRunning(t) PROVE [StoreNext]_storeVars
  BY <1>2, AttemptIsTransaction DEF SaveRunning
<1>3. ASSUME NEW t \in Tasks, Finish(t) PROVE [StoreNext]_storeVars
  BY <1>3, AttemptIsTransaction DEF Finish, RecoveryTypeOK
<1>4. ASSUME NEW t \in Tasks, OfferRefused(t) PROVE [StoreNext]_storeVars
  BY <1>4, AttemptIsTransaction DEF OfferRefused
<1>5. ASSUME NEW t \in Tasks, CancelStore(t) PROVE [StoreNext]_storeVars
  BY <1>5 DEF CancelStore, StoreNext
<1>6. ASSUME NEW t \in Tasks, Clear(t) PROVE [StoreNext]_storeVars
  BY <1>6 DEF Clear, StoreNext
<1>7. ASSUME FailInterrupted PROVE [StoreNext]_storeVars
  BY <1>7 DEF FailInterrupted, Unrecoverable, StoreNext
<1>8. ASSUME NEW t \in Tasks, Prepare(t) PROVE [StoreNext]_storeVars
  BY <1>8 DEF Prepare, StoreNext
<1>9. ASSUME NEW t \in Tasks,
             \/ Launch(t) \/ LaunchFails(t) \/ Reread(t) \/ Expire(t) \/ Work(t)
             \/ CancelRead(t) \/ CancelRunner(t)
             \/ DispatchRead(t) \/ OfferTaken(t) \/ OfferedLater(t)
      PROVE  UNCHANGED storeVars
  BY <1>9 DEF Launch, LaunchFails, Reread, Expire, Work, CancelRead, CancelRunner,
              DispatchRead, OfferTaken, OfferedLater
<1>10. ASSUME Boot \/ Failed \/ Serve \/ DispatchStops \/ Stop \/ Down \/ UNCHANGED vars
       PROVE  UNCHANGED storeVars
  BY <1>10 DEF Boot, Failed, Serve, DispatchStops, Stop, Down, vars
<1> QED
  BY <1>1, <1>2, <1>3, <1>4, <1>5, <1>6, <1>7, <1>8, <1>9, <1>10
     DEF Next, WorkerStep, CancelStep, OfferStep, Startup
-----------------------------------------------------------------------------
(* Whoever works on, dispatches or prepares a task works on one that the store
   has seen: what EndedNeverStarts needs beyond the types and the store. *)
Known == \A t \in Tasks : worker[t] # "none" \/ t \in pending => status[t] # "absent"

RecoveryInv == StoreInv /\ RecoveryTypeOK /\ Known

(* The inductive invariant holds before the first startup. *)
LEMMA InitRecovery == Init => RecoveryInv
<1> SUFFICES ASSUME Init PROVE RecoveryInv
  OBVIOUS
<1>1. StoreInv
  BY InitStore DEF Init
<1>2. RecoveryTypeOK
  BY <1>1, RecoveryAssumption DEF Init, RecoveryTypeOK, StoreInv
<1>3. Known
  BY DEF Init, Known
<1> QED
  BY <1>1, <1>2, <1>3 DEF RecoveryInv

(* No transaction takes a task back to where the store had not seen it. *)
LEMMA SeenStaysSeen ==
  ASSUME StoreInv, [StoreNext]_storeVars, NEW t \in Tasks, status[t] # "absent"
  PROVE  status'[t] # "absent"
<1> USE DEF StoreInv, StoreTypeOK, SetStatus
<1>1. ASSUME NEW r \in Tasks, NEW s \in Active \cup Terminal, NEW recovery \in BOOLEAN,
             Save(r, s, recovery)
      PROVE  status'[t] # "absent"
  BY <1>1 DEF Save
<1>2. ASSUME NEW S \in SUBSET Tasks, RecoverInterrupted(S) \/ ClearLogs(S) \/ DeleteTerminal(S)
      PROVE  status'[t] # "absent"
  BY <1>2 DEF RecoverInterrupted, ClearLogs, DeleteTerminal
<1>3. ASSUME NEW r \in Tasks, PrepareRecovery(r) \/ CancelTask(r)
      PROVE  status'[t] # "absent"
  BY <1>3 DEF PrepareRecovery, CancelTask
<1> QED
  BY <1>1, <1>2, <1>3 DEF StoreNext, storeVars

(* Types of the processes' own state, with the part of Known that changes. *)
ProcessOK ==
    /\ up \in {"down", "failing", "preparing", "serving", "stopping"}
    /\ worker \in [Tasks -> {"none", "accepted", "resumed", "starting", "working", "finishing"}]
    /\ ctx \in [Tasks -> {"live", "cancelled", "interrupted", "expired"}]
    /\ final \in [Tasks -> {"queued"} \cup Terminal]
    /\ canceller \in [Tasks -> {"idle", "read", "stored"}]
    /\ pending \subseteq Tasks
    /\ dispatcher \in pending \cup {NoTask}
    /\ downs \in 0..MaxDowns

(* The steps of the workers keep the types. *)
LEMMA WorkerProcess ==
  ASSUME ProcessOK, NEW t \in Tasks,
         Submit(t) \/ WorkerStep(t) \/ Expire(t) \/ Work(t)
  PROVE  ProcessOK' /\ pending' = pending
<1> USE DEF ProcessOK, process, resume, Goes, Persists
<1>1. CASE Submit(t)
  BY <1>1 DEF Submit
<1>2. CASE Launch(t)
  BY <1>2 DEF Launch
<1>3. CASE LaunchFails(t)
  BY <1>3 DEF LaunchFails
<1>4. CASE Reread(t)
  <2>1. Verdict(t, "queued") \in {"queued"} \cup Terminal
    BY DEF Verdict
  <2> QED
    BY <1>4, <2>1 DEF Reread
<1>5. CASE SaveRunning(t)
  <2>1. Verdict(t, "failed") \in {"queued"} \cup Terminal
    BY DEF Verdict
  <2> QED
    BY <1>5, <2>1 DEF SaveRunning
<1>6. CASE Finish(t)
  BY <1>6 DEF Finish
<1>7. CASE Expire(t)
  BY <1>7 DEF Expire
<1>8. CASE Work(t)
  <2>1. \A outcome \in {"succeeded", "failed"} : Verdict(t, outcome) \in {"queued"} \cup Terminal
    BY DEF Verdict
  <2> QED
    BY <1>8, <2>1 DEF Work
<1> QED
  BY <1>1, <1>2, <1>3, <1>4, <1>5, <1>6, <1>7, <1>8 DEF WorkerStep

(* The steps of handlers, dispatcher, startup and shutdown keep the types. *)
LEMMA OtherProcess ==
  ASSUME ProcessOK,
         \/ \E t \in Tasks : CancelStep(t) \/ Clear(t) \/ DispatchRead(t) \/ OfferStep(t)
         \/ Startup \/ DispatchStops \/ Stop \/ Down \/ UNCHANGED vars
  PROVE  ProcessOK'
<1> USE RecoveryAssumption, StoreAssumption DEF ProcessOK, process, resume, work
<1>1. ASSUME NEW t \in Tasks, CancelStep(t) PROVE ProcessOK'
  BY <1>1 DEF CancelStep, CancelRead, CancelStore, CancelRunner
<1>2. ASSUME NEW t \in Tasks, Clear(t) PROVE ProcessOK'
  BY <1>2 DEF Clear
<1>3. ASSUME NEW t \in Tasks, DispatchRead(t) PROVE ProcessOK'
  BY <1>3 DEF DispatchRead
<1>4. ASSUME NEW t \in Tasks, OfferStep(t) PROVE ProcessOK'
  BY <1>4 DEF OfferStep, OfferTaken, OfferRefused, OfferedLater, OfferBusy, Goes
<1>5. ASSUME NEW t \in Tasks, Prepare(t) PROVE ProcessOK'
  BY <1>5 DEF Prepare
<1>6. CASE Boot \/ FailInterrupted \/ Failed \/ Serve
  BY <1>6 DEF Boot, FailInterrupted, Failed, Serve
<1>7. CASE DispatchStops \/ Stop
  BY <1>7 DEF DispatchStops, Stop
<1>8. CASE Down
  BY <1>8 DEF Down
<1>9. CASE UNCHANGED vars
  BY <1>9 DEF vars
<1> QED
  BY <1>1, <1>2, <1>3, <1>4, <1>5, <1>6, <1>7, <1>8, <1>9 DEF Startup

(* Who takes up a task takes up one that the store has seen. *)
LEMMA StepKnown ==
  ASSUME RecoveryInv, StoreInv', [Next]_vars, [StoreNext]_storeVars
  PROVE  Known'
<1> SUFFICES ASSUME NEW r \in Tasks, worker'[r] # "none" \/ r \in pending'
             PROVE  status'[r] # "absent"
  BY DEF Known
<1> USE DEF RecoveryInv
<1>1. CASE status[r] # "absent"
  BY <1>1, SeenStaysSeen
<1>2. CASE status[r] = "absent"
  <2>1. worker[r] = "none" /\ r \notin pending
    BY <1>2 DEF Known
  <2>2. ASSUME NEW t \in Tasks, Submit(t)
        PROVE  status'[r] # "absent"
    <3>1. UNCHANGED pending
      BY <2>2 DEF Submit, resume
    <3>2. PICK ok \in BOOLEAN : Attempt(t, "queued", ok) /\ Goes(t, IF ok THEN "accepted" ELSE "none")
      BY <2>2 DEF Submit
    <3>3. r = t /\ ok = TRUE
      BY <2>1, <3>1, <3>2 DEF Goes, RecoveryTypeOK
    <3>4. Save(t, "queued", t \in Resumable)
      BY <3>2, <3>3 DEF Attempt
    <3> QED
      BY <3>3, <3>4 DEF Save, SetStatus, RecoveryTypeOK, StoreTypeOK
  <2>3. ASSUME NEW t \in Tasks, WorkerStep(t) \/ Work(t) \/ Expire(t)
        PROVE  worker'[r] = "none" /\ pending' = pending
    <3>1. t # r
      BY <2>1, <2>3 DEF WorkerStep, Work, Expire, Launch, LaunchFails, Reread, SaveRunning, Finish
    <3>2. worker'[r] = worker[r]
      BY <2>3, <3>1 DEF WorkerStep, Work, Expire, Launch, LaunchFails, Reread, SaveRunning, Finish,
                        Goes, Persists, RecoveryTypeOK
    <3>3. pending' = pending
      BY <2>3 DEF WorkerStep, Work, Expire, Launch, LaunchFails, Reread, SaveRunning, Finish, resume
    <3> QED
      BY <2>1, <3>2, <3>3
  <2>4. ASSUME NEW t \in Tasks, CancelStep(t) \/ Clear(t)
        PROVE  UNCHANGED <<worker, pending>>
    BY <2>4 DEF CancelStep, CancelRead, CancelStore, CancelRunner, Clear, work, resume
  <2>5. ASSUME NEW t \in Tasks, DispatchRead(t) \/ OfferedLater(t) \/ OfferRefused(t)
        PROVE  worker' = worker /\ pending' \subseteq pending
    BY <2>5 DEF DispatchRead, OfferedLater, OfferBusy, OfferRefused, work
  <2>6. ASSUME NEW t \in Tasks, OfferTaken(t)
        PROVE  worker'[r] = "none" /\ pending' \subseteq pending
    <3>1. t \in pending
      BY <2>6, StoreAssumption DEF OfferTaken, RecoveryTypeOK
    <3> QED
      BY <2>1, <2>6, <3>1 DEF OfferTaken, Goes, RecoveryTypeOK
  <2>7. ASSUME NEW t \in Tasks, Prepare(t)
        PROVE  worker'[r] = "none" /\ r \notin pending'
    BY <1>2, <2>1, <2>7 DEF Prepare, PrepareRecovery, Recoverable, work
  <2>8. CASE Boot \/ FailInterrupted \/ Failed \/ Serve \/ Stop \/ UNCHANGED vars
    BY <2>1, <2>8 DEF Boot, FailInterrupted, Failed, Serve, Stop, vars, work, resume
  <2>9. CASE DispatchStops \/ Down
    BY <2>1, <2>9 DEF DispatchStops, Down, work
  <2> QED
    BY <2>1, <2>2, <2>3, <2>4, <2>5, <2>6, <2>7, <2>8, <2>9 DEF Next, OfferStep, Startup
<1> QED
  BY <1>1, <1>2

(* Every step of the system preserves the invariant. *)
LEMMA StepRecovery == RecoveryInv /\ [Next]_vars => RecoveryInv'
<1> SUFFICES ASSUME RecoveryInv, [Next]_vars PROVE RecoveryInv'
  OBVIOUS
<1>1. [StoreNext]_storeVars
  BY StepIsTransaction DEF RecoveryInv
<1>2. StoreInv'
  BY <1>1, StepStore DEF RecoveryInv
<1>3. ProcessOK'
  <2>1. ProcessOK
    BY DEF RecoveryInv, RecoveryTypeOK, ProcessOK
  <2>2. ASSUME NEW t \in Tasks, Submit(t) \/ WorkerStep(t) \/ Expire(t) \/ Work(t)
        PROVE  ProcessOK'
    BY <2>1, <2>2, WorkerProcess
  <2> QED
    BY <2>1, <2>2, OtherProcess DEF Next
<1>4. RecoveryTypeOK'
  BY <1>2, <1>3 DEF ProcessOK, RecoveryTypeOK, StoreInv
<1>5. Known'
  BY <1>1, <1>2, StepKnown
<1> QED
  BY <1>2, <1>4, <1>5 DEF RecoveryInv

(* The invariant, for any tasks, restarts and store failures. *)
THEOREM RecoveryInvariant == Spec => []RecoveryInv
  BY InitRecovery, StepRecovery, PTL DEF Spec

(* The state of handlers, workers and dispatcher has its types throughout. *)
THEOREM RecoveryTypeCorrect == Spec => []RecoveryTypeOK
<1>1. RecoveryInv => RecoveryTypeOK
  BY DEF RecoveryInv
<1> QED
  BY <1>1, RecoveryInvariant, PTL

(* Handlers, workers, dispatcher and startup touch the store through its
   transactions only: the system implements the store's specification. *)
THEOREM SystemImplementsStore == Spec => StoreSpec
<1>1. Init => StoreInit
  BY DEF Init
<1>2. RecoveryInv /\ [Next]_vars => [StoreNext]_storeVars
  BY StepIsTransaction DEF RecoveryInv
<1> QED
  BY <1>1, <1>2, RecoveryInvariant, PTL DEF Spec, StoreSpec

(* So a reservation is held by exactly the active task of its operation across
   stops, crashes, failing saves and resumptions of the whole system. *)
THEOREM SystemReservationsExact == Spec => []ReservationsExact
  BY SystemImplementsStore, ReservationsAreExact, PTL

(* And each task has one life: its verdict stands against every late save of a
   worker, canceller or dispatcher, before and after restarts. *)
THEOREM SystemImplementsLifecycle == Spec => ImplementsLifecycle
  BY SystemImplementsStore, StoreImplementsLifecycle, PTL

(* No task that ended is started: a stored cancellation wins against a worker
   that is being launched, resumed or about to begin. *)
THEOREM EndedNeverStartsAgain == Spec => EndedNeverStarts
<1>1. ASSUME RecoveryInv, [Next]_vars, NEW t \in Tasks,
             worker[t] # "working", worker'[t] = "working"
      PROVE  IsActive(t)
  <2>1. SaveRunning(t)
    <3>1. worker' # worker
      BY <1>1
    <3>2. worker \in [Tasks -> {"none", "accepted", "resumed", "starting", "working", "finishing"}]
      BY <1>1 DEF RecoveryInv, RecoveryTypeOK
    <3>3. ASSUME NEW r \in Tasks,
                 Submit(r) \/ Launch(r) \/ LaunchFails(r) \/ Reread(r) \/ Finish(r) \/ Work(r) \/ OfferTaken(r)
          PROVE  FALSE
      BY <1>1, <3>2, <3>3 DEF Submit, Launch, LaunchFails, Reread, Finish, Work, OfferTaken, Goes, Persists
    <3>4. ASSUME NEW r \in Tasks,
                 CancelStep(r) \/ Clear(r) \/ DispatchRead(r) \/ OfferRefused(r) \/ OfferedLater(r) \/ Expire(r) \/ Prepare(r)
          PROVE  FALSE
      BY <3>1, <3>4 DEF CancelStep, CancelRead, CancelStore, CancelRunner, Clear, DispatchRead,
                        OfferRefused, OfferedLater, Expire, Prepare, work
    <3>5. CASE Boot \/ FailInterrupted \/ Failed \/ Serve \/ DispatchStops \/ Stop \/ UNCHANGED vars
      BY <3>1, <3>5 DEF Boot, FailInterrupted, Failed, Serve, DispatchStops, Stop, vars, work
    <3>6. CASE Down
      BY <1>1, <3>6 DEF Down
    <3>7. ASSUME NEW r \in Tasks, SaveRunning(r)
          PROVE  r = t
      BY <1>1, <3>2, <3>7 DEF SaveRunning, Goes, Persists
    <3> QED
      BY <1>1, <3>3, <3>4, <3>5, <3>6, <3>7 DEF Next, WorkerStep, OfferStep, Startup
  <2>2. Save(t, "running", t \in Resumable)
    BY <1>1, <2>1 DEF SaveRunning, Attempt, Persists, Goes, RecoveryInv, RecoveryTypeOK
  <2>3. worker[t] = "starting"
    BY <2>1 DEF SaveRunning
  <2>4. status[t] # "absent"
    BY <1>1, <2>3 DEF RecoveryInv, Known
  <2> QED
    BY <1>1, <2>2, <2>4 DEF Save, Saves, Writable, IsActive, RecoveryInv, StoreInv, StoreTypeOK
<1>2. RecoveryInv /\ [Next]_vars =>
        [\A t \in Tasks : worker[t] # "working" /\ worker'[t] = "working" => IsActive(t)]_vars
  BY <1>1
<1> QED
  BY <1>2, RecoveryInvariant, PTL DEF Spec, EndedNeverStarts
-----------------------------------------------------------------------------
(* What else the processes keep, step by step.  Before a process serves, it has
   no workers and no handlers. *)
Quiet ==
    up \in {"down", "failing", "preparing"} =>
        \A t \in Tasks : worker[t] = "none" /\ canceller[t] = "idle" /\ ctx[t] = "live"

(* Contexts end after their task was seen and, with cause ErrInterrupted, by Stop. *)
CtxInv ==
    \A t \in Tasks :
        /\ ctx[t] = "interrupted" => up = "stopping"
        /\ ctx[t] # "live" => status[t] # "absent"
        /\ worker[t] = "accepted" => ctx[t] = "live"

(* A worker that is about to save its verdict has one, unless it was interrupted. *)
FinalInv ==
    \A t \in Tasks : worker[t] = "finishing" =>
        /\ up = "serving" => final[t] \in Terminal
        /\ t \in Resumable /\ ctx[t] = "interrupted" => final[t] = "queued"

(* Active tasks that can be resumed have their checkpoint. *)
SavedInv ==
    \A t \in Tasks : IsActive(t) =>
        /\ status[t] \in {"queued", "running"}
        /\ t \in Resumable => t \in checkpoint

(* What is left to dispatch, or was dispatched, has no other worker, and is
   queued unless it has ended. *)
TakenInv ==
    \A t \in Tasks :
        /\ t \in pending => worker[t] = "none" /\ up \in {"preparing", "serving", "stopping"}
        /\ (t \in pending \/ worker[t] = "resumed") /\ IsActive(t) => Dispatchable(t)

HandsInv ==
    /\ Quiet /\ CtxInv /\ FinalInv /\ SavedInv /\ TakenInv
    /\ up = "preparing" => Unrecoverable = {}

(* What a call of Save does: its task gets the status, with its checkpoint if it
   is to be resumed, or nothing changes. *)
LEMMA AttemptEffect ==
  ASSUME StoreTypeOK, NEW t \in Tasks, NEW s \in Active \cup Terminal, NEW ok \in BOOLEAN,
         Attempt(t, s, ok)
  PROVE  /\ \A r \in Tasks \ {t} :
                /\ status'[r] = status[r]
                /\ r \in checkpoint' <=> r \in checkpoint
         /\ \/ status' = status /\ checkpoint' = checkpoint
            \/ /\ status'[t] = s
               /\ s \in Active /\ (t \in Resumable \/ t \in checkpoint) => t \in checkpoint'
         /\ ok => status'[t] = s
         /\ ~ok /\ ~StoreFails => ~Saves(t, s) /\ status' = status
<1> USE DEF StoreTypeOK, storeVars
<1>1. ASSUME Save(t, s, t \in Resumable)
      PROVE  /\ \A r \in Tasks \ {t} :
                    /\ status'[r] = status[r]
                    /\ r \in checkpoint' <=> r \in checkpoint
             /\ status'[t] = s
             /\ s \in Active /\ (t \in Resumable \/ t \in checkpoint) => t \in checkpoint'
  BY <1>1 DEF Save, SetStatus, Drop
<1> QED
  BY <1>1 DEF Attempt

(* All of this holds before the first startup. *)
LEMMA HandsInit == Init => HandsInv
BY StoreAssumption DEF Init, StoreInit, HandsInv, Quiet, CtxInv, FinalInv, SavedInv, TakenInv,
   Unrecoverable, IsActive

(* Every step of workers, handlers, dispatcher, startup and shutdown keeps it. *)
LEMMA HandsStep ==
  ASSUME RecoveryInv, HandsInv, [Next]_vars
  PROVE  HandsInv'
<1> USE StoreAssumption DEF HandsInv, Quiet, CtxInv, FinalInv, SavedInv, TakenInv, RecoveryInv,
        RecoveryTypeOK, StoreTypeOK, process, work, resume, storeVars, Goes, Persists,
        IsActive, Dispatchable, Unrecoverable
<1>1. ASSUME NEW t \in Tasks, Submit(t) PROVE HandsInv'
  <2>1. PICK ok \in BOOLEAN : Attempt(t, "queued", ok) /\ Goes(t, IF ok THEN "accepted" ELSE "none")
    BY <1>1 DEF Submit
  <2> QED
    BY <1>1, <2>1, AttemptEffect DEF Submit, Serves, Known
<1>2. ASSUME NEW t \in Tasks, Launch(t) PROVE HandsInv'
  BY <1>2 DEF Launch, Known
<1>3. ASSUME NEW t \in Tasks, LaunchFails(t) PROVE HandsInv'
  BY <1>3 DEF LaunchFails
<1>4. ASSUME NEW t \in Tasks, Reread(t) PROVE HandsInv'
  BY <1>4 DEF Reread, Verdict
<1>5. ASSUME NEW t \in Tasks, SaveRunning(t) PROVE HandsInv'
  <2>1. /\ \A r \in Tasks \ {t} :
               /\ status'[r] = status[r]
               /\ r \in checkpoint' <=> r \in checkpoint
        /\ \/ status' = status /\ checkpoint' = checkpoint
           \/ /\ status'[t] = "running"
              /\ t \in Resumable \/ t \in checkpoint => t \in checkpoint'
    <3>1. CASE \E ok \in BOOLEAN : Attempt(t, "running", ok)
      BY <3>1, AttemptEffect
    <3>2. CASE UNCHANGED storeVars
      BY <3>2
    <3> QED
      BY <1>5, <3>1, <3>2 DEF SaveRunning
  <2>2. /\ Verdict(t, "failed") \in {"queued"} \cup Terminal
        /\ t \in Resumable /\ ctx[t] = "interrupted" => Verdict(t, "failed") = "queued"
        /\ ctx[t] # "interrupted" => Verdict(t, "failed") \in Terminal
    BY DEF Verdict
  <2>3. /\ worker[t] = "starting" /\ UNCHANGED <<process, ctx, canceller, resume>>
        /\ \/ Goes(t, "working") /\ UNCHANGED final
           \/ Persists(t, Verdict(t, "failed"))
    BY <1>5 DEF SaveRunning
  <2>4. up' = up /\ pending' = pending /\ ctx' = ctx /\ up \in {"serving", "stopping"}
    BY <2>3
  <2>5. CASE Goes(t, "working") /\ UNCHANGED final
    <3>1. Quiet' /\ CtxInv' /\ FinalInv'
      BY <2>1, <2>4, <2>5
    <3>2. SavedInv'
      BY <2>1
    <3>3. TakenInv'
      BY <2>1, <2>3, <2>4, <2>5
    <3> QED
      BY <2>4, <3>1, <3>2, <3>3
  <2>6. CASE Persists(t, Verdict(t, "failed"))
    <3>1. Quiet' /\ CtxInv'
      BY <2>1, <2>4, <2>6
    <3>2. FinalInv'
      BY <2>2, <2>4, <2>6
    <3>3. SavedInv'
      BY <2>1
    <3>4. TakenInv'
      BY <2>1, <2>3, <2>4, <2>6
    <3> QED
      BY <2>4, <3>1, <3>2, <3>3, <3>4
  <2> QED
    BY <2>3, <2>5, <2>6
<1>6. ASSUME NEW t \in Tasks, Finish(t) PROVE HandsInv'
  <2>1. PICK ok \in BOOLEAN : Attempt(t, final[t], ok)
    BY <1>6 DEF Finish
  <2> QED
    BY <1>6, <2>1, AttemptEffect DEF Finish
<1>7. ASSUME NEW t \in Tasks, Expire(t) PROVE HandsInv'
  BY <1>7 DEF Expire, Known
<1>8. ASSUME NEW t \in Tasks, Work(t) PROVE HandsInv'
  BY <1>8 DEF Work, Verdict
<1>9. ASSUME NEW t \in Tasks, CancelStep(t) PROVE HandsInv'
  BY <1>9 DEF CancelStep, CancelRead, CancelStore, CancelRunner, CancelTask, SetStatus, Drop,
     Serves, Registered, Known
<1>10. ASSUME NEW t \in Tasks, Clear(t) PROVE HandsInv'
  BY <1>10 DEF Clear, ClearLogs, DeleteTerminal, Drop
<1>11. ASSUME NEW t \in Tasks, DispatchRead(t) PROVE HandsInv'
  BY <1>11 DEF DispatchRead
<1>12. ASSUME NEW t \in Tasks, OfferTaken(t) PROVE HandsInv'
  BY <1>12 DEF OfferTaken
<1>13. ASSUME NEW t \in Tasks, OfferRefused(t) PROVE HandsInv'
  BY <1>13, AttemptEffect DEF OfferRefused
<1>14. ASSUME NEW t \in Tasks, OfferedLater(t) PROVE HandsInv'
  BY <1>14 DEF OfferedLater, OfferBusy
<1>15. ASSUME NEW t \in Tasks, Prepare(t) PROVE HandsInv'
  BY <1>15 DEF Prepare, PrepareRecovery, Recoverable, SetStatus
<1>16. CASE Boot \/ Failed \/ Serve \/ DispatchStops
  BY <1>16 DEF Boot, Failed, Serve, DispatchStops
<1>17. CASE FailInterrupted
  BY <1>17 DEF FailInterrupted, RecoverInterrupted
<1>18. CASE Stop
  BY <1>18 DEF Stop, Registered, Known
<1>19. CASE Down
  BY <1>19 DEF Down
<1>20. CASE UNCHANGED vars
  BY <1>20 DEF vars
<1> QED
  BY <1>1, <1>2, <1>3, <1>4, <1>5, <1>6, <1>7, <1>8, <1>9, <1>10, <1>11, <1>12, <1>13, <1>14,
     <1>15, <1>16, <1>17, <1>18, <1>19, <1>20 DEF Next, WorkerStep, CancelStep, OfferStep, Startup

(* It holds throughout, through restarts and with a store that fails. *)
LEMMA HandsHold == Spec => [](RecoveryInv /\ HandsInv)
<1>1. Init => RecoveryInv /\ HandsInv
  BY InitRecovery, HandsInit
<1>2. RecoveryInv /\ HandsInv /\ [Next]_vars => RecoveryInv' /\ HandsInv'
  BY StepRecovery, HandsStep
<1> QED
  BY <1>1, <1>2, PTL DEF Spec

(* Neither the startup nor a worker that shutdown cut short ends a resumable
   task; a cancellation stored meanwhile may, through any number of restarts
   and with a store that fails and commits at will. *)
THEOREM InterruptionEndsNothing == Spec => InterruptionSpares
<1>1. ASSUME RecoveryInv, HandsInv, [Next]_vars, NEW t \in Resumable,
             IsActive(t), ~IsActive(t)'
      PROVE  /\ up \notin {"failing", "preparing"}
             /\ \/ worker[t] # "finishing" \/ ctx[t] # "interrupted"
                \/ canceller[t] = "read" /\ status'[t] = "cancelled"
  <2> t \in Tasks
    BY RecoveryAssumption
  <2> USE <1>1, StoreAssumption DEF HandsInv, Quiet, CtxInv, FinalInv, SavedInv, TakenInv, RecoveryInv,
          RecoveryTypeOK, StoreTypeOK, process, work, resume, storeVars, IsActive
  <2>1. ASSUME NEW r \in Tasks, NEW s \in Active \cup Terminal, NEW ok \in BOOLEAN, Attempt(r, s, ok)
        PROVE  r = t /\ s \notin Active
    BY <2>1, AttemptEffect
  <2>2. ASSUME NEW r \in Tasks, Submit(r) \/ SaveRunning(r) PROVE FALSE
    <3>1. CASE \E s \in {"queued", "running"}, ok \in BOOLEAN : Attempt(r, s, ok)
      BY <2>1, <3>1
    <3>2. CASE UNCHANGED storeVars
      BY <3>2
    <3>3. CASE Submit(r)
      BY <3>1, <3>3 DEF Submit
    <3>4. CASE SaveRunning(r)
      BY <3>1, <3>2, <3>4 DEF SaveRunning
    <3> QED
      BY <2>2, <3>3, <3>4
  <2>3. ASSUME NEW r \in Tasks, Finish(r)
        PROVE  /\ up \notin {"failing", "preparing"}
               /\ ctx[t] # "interrupted"
    <3>1. PICK ok \in BOOLEAN : Attempt(r, final[r], ok)
      BY <2>3 DEF Finish
    <3>2. r = t /\ final[t] \notin Active /\ worker[t] = "finishing"
      BY <2>1, <2>3, <3>1 DEF Finish
    <3> QED
      BY <3>2
  <2>4. ASSUME NEW r \in Tasks, OfferRefused(r)
        PROVE  up = "serving" /\ ctx[t] # "interrupted"
    BY <2>4 DEF OfferRefused
  <2>5. ASSUME NEW r \in Tasks, CancelStore(r)
        PROVE  /\ up \notin {"failing", "preparing"}
               /\ canceller[t] = "read" /\ status'[t] = "cancelled"
    BY <2>5 DEF CancelStore, CancelTask, SetStatus
  <2>6. ASSUME NEW r \in Tasks,
               \/ Launch(r) \/ LaunchFails(r) \/ Reread(r) \/ Expire(r) \/ Work(r)
               \/ CancelRead(r) \/ CancelRunner(r)
               \/ DispatchRead(r) \/ OfferTaken(r) \/ OfferedLater(r)
        PROVE  FALSE
    BY <2>6 DEF Launch, LaunchFails, Reread, Expire, Work, CancelRead, CancelRunner,
                DispatchRead, OfferTaken, OfferedLater
  <2>7. ASSUME NEW r \in Tasks, Clear(r) \/ Prepare(r) PROVE FALSE
    BY <2>7 DEF Clear, ClearLogs, DeleteTerminal, Prepare, PrepareRecovery, SetStatus
  <2>8. CASE FailInterrupted
    BY <2>8 DEF FailInterrupted, RecoverInterrupted, Unrecoverable
  <2>9. CASE Boot \/ Failed \/ Serve \/ DispatchStops \/ Stop \/ Down \/ UNCHANGED vars
    BY <2>9 DEF Boot, Failed, Serve, DispatchStops, Stop, Down, vars
  <2> QED
    BY <2>2, <2>3, <2>4, <2>5, <2>6, <2>7, <2>8, <2>9
       DEF Next, WorkerStep, CancelStep, OfferStep, Startup
<1>2. RecoveryInv /\ HandsInv /\ [Next]_vars =>
        [\A t \in Resumable : IsActive(t) /\ ~IsActive(t)' =>
            /\ up \notin {"failing", "preparing"}
            /\ \/ worker[t] # "finishing" \/ ctx[t] # "interrupted"
               \/ canceller[t] = "read" /\ status'[t] = "cancelled"]_vars
  BY <1>1
<1> QED
  BY <1>2, HandsHold, PTL DEF Spec, InterruptionSpares

(* A worker that leaves its task has ended it, and so has the dispatcher. *)
LEMMA OwnedStep ==
  ASSUME ~StoreFails, RecoveryInv, HandsInv, OwnedWhileActive, [Next]_vars
  PROVE  OwnedWhileActive'
<1> SUFFICES ASSUME up' = "serving", NEW r \in Tasks, IsActive(r)', worker'[r] = "none"
             PROVE  r \in pending'
  BY DEF OwnedWhileActive
<1> USE StoreAssumption DEF OwnedWhileActive, HandsInv, Quiet, CtxInv, FinalInv, SavedInv, TakenInv,
        RecoveryInv, RecoveryTypeOK, StoreTypeOK, process, work, resume, storeVars, Goes, Persists,
        IsActive, Dispatchable, Unrecoverable
<1>1. ASSUME NEW t \in Tasks, Submit(t) PROVE r \in pending'
  <2>1. PICK ok \in BOOLEAN : Attempt(t, "queued", ok) /\ Goes(t, IF ok THEN "accepted" ELSE "none")
    BY <1>1 DEF Submit
  <2> QED
    BY <1>1, <2>1, AttemptEffect DEF Submit
<1>2. ASSUME NEW t \in Tasks, Launch(t) \/ LaunchFails(t) \/ Expire(t) \/ Work(t) PROVE r \in pending'
  BY <1>2 DEF Launch, LaunchFails, Expire, Work
<1>3. ASSUME NEW t \in Tasks, Reread(t) PROVE r \in pending'
  BY <1>3 DEF Reread
<1>4. ASSUME NEW t \in Tasks, SaveRunning(t) PROVE r \in pending'
  <2>1. worker'[t] # "none" /\ r # t
    <3>1. Goes(t, "working") \/ Goes(t, "finishing")
      BY <1>4 DEF SaveRunning
    <3> QED
      BY <3>1
  <2>2. status'[r] = status[r] /\ worker'[r] = worker[r]
    <3>1. Goes(t, "working") \/ Goes(t, "finishing")
      BY <1>4 DEF SaveRunning
    <3>2. UNCHANGED storeVars \/ \E ok \in BOOLEAN : Attempt(t, "running", ok)
      BY <1>4 DEF SaveRunning
    <3>3. status'[r] = status[r]
      BY <2>1, <3>2, AttemptEffect
    <3> QED
      BY <2>1, <3>1, <3>3
  <2> QED
    BY <1>4, <2>2 DEF SaveRunning
<1>5. ASSUME NEW t \in Tasks, Finish(t) PROVE r \in pending'
  <2>1. PICK ok \in BOOLEAN : Attempt(t, final[t], ok)
    BY <1>5 DEF Finish
  <2>2. final[t] \in Terminal
    BY <1>5 DEF Finish
  <2>3. ~IsActive(t)'
    BY <2>1, <2>2, AttemptEffect DEF Saves, Writable
  <2> QED
    BY <1>5, <2>1, <2>2, <2>3, AttemptEffect DEF Finish
<1>6. ASSUME NEW t \in Tasks, CancelStep(t) PROVE r \in pending'
  BY <1>6 DEF CancelStep, CancelRead, CancelStore, CancelRunner, CancelTask, SetStatus
<1>7. ASSUME NEW t \in Tasks, Clear(t) PROVE r \in pending'
  BY <1>7 DEF Clear, ClearLogs, DeleteTerminal
<1>8. ASSUME NEW t \in Tasks, DispatchRead(t) \/ OfferTaken(t) \/ OfferedLater(t)
      PROVE  r \in pending'
  BY <1>8 DEF DispatchRead, OfferTaken, OfferedLater, OfferBusy
<1>9. ASSUME NEW t \in Tasks, OfferRefused(t) PROVE r \in pending'
  <2>1. PICK ok \in BOOLEAN : Attempt(t, "failed", ok)
    BY <1>9 DEF OfferRefused
  <2>2. ~IsActive(t)'
    BY <2>1, AttemptEffect DEF Saves, Writable
  <2> QED
    BY <1>9, <2>1, <2>2, AttemptEffect DEF OfferRefused
<1>10. CASE Serve
  BY <1>10 DEF Serve, Recoverable
<1>11. ASSUME \/ \E t \in Tasks : Prepare(t)
              \/ Boot \/ Failed \/ FailInterrupted \/ DispatchStops \/ Stop \/ Down
       PROVE  FALSE
  BY <1>11 DEF Prepare, Boot, Failed, FailInterrupted, DispatchStops, Stop, Down
<1>12. CASE UNCHANGED vars
  BY <1>12 DEF vars
<1> QED
  BY <1>1, <1>2, <1>3, <1>4, <1>5, <1>6, <1>7, <1>8, <1>9, <1>10, <1>11, <1>12
     DEF Next, WorkerStep, OfferStep, Startup

(* With a store that works, whatever is shown as queued or running while the
   process serves is in the hands of a worker or of the dispatcher. *)
THEOREM OwnedWhenStoreWorks ==
  ASSUME ~StoreFails
  PROVE  Spec => []OwnedWhileActive
<1>1. Init => OwnedWhileActive
  BY DEF Init, OwnedWhileActive
<1>2. RecoveryInv /\ HandsInv /\ OwnedWhileActive /\ [Next]_vars => OwnedWhileActive'
  BY OwnedStep
<1> QED
  BY <1>1, <1>2, HandsHold, PTL DEF Spec
=============================================================================

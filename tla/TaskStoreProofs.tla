--------------------------- MODULE TaskStoreProofs ---------------------------
(***************************************************************************)
(* Proofs about TaskStore, for any number of tasks and operations.         *)
(* StoreInv is inductive: the reservations are exact only because ended    *)
(* tasks are recognisable, the types make that so, and a deletion that     *)
(* drops nothing is safe only because ended tasks hold nothing.            *)
(***************************************************************************)
EXTENDS TaskStore, TLAPS

StoreInv == StoreTypeOK /\ ReservationsExact /\ CheckpointsActive

USE DEF Active, Terminal

(* The inductive invariant holds in the empty store. *)
LEMMA InitStore == StoreInit => StoreInv
<1> SUFFICES ASSUME StoreInit PROVE StoreInv
  OBVIOUS
<1> USE StoreAssumption DEF StoreInit
<1>1. StoreTypeOK
  BY DEF StoreTypeOK
<1>2. ReservationsExact
  BY DEF ReservationsExact, IsActive
<1>3. CheckpointsActive
  BY DEF CheckpointsActive
<1> QED
  BY <1>1, <1>2, <1>3 DEF StoreInv

(* A step that ends or keeps the tasks of S and drops their reservations keeps
   the reservations exact. *)
LEMMA UnreserveKeepsExact ==
  ASSUME StoreInv, NEW S \in SUBSET Tasks, Unreserve(S),
         status' \in [Tasks -> {"absent", "deleted"} \cup Active \cup Terminal],
         \A t \in S : ~IsActive(t)',
         \A t \in Tasks \ S : status'[t] = status[t]
  PROVE  ReservationsExact' /\ reserved' \in [Operations -> Tasks \cup {NoTask}]
<1> USE StoreAssumption DEF StoreInv, StoreTypeOK, Unreserve
<1>1. reserved' \in [Operations -> Tasks \cup {NoTask}]
  OBVIOUS
<1>2. ASSUME NEW o \in Operations, NEW t \in Tasks
      PROVE  (reserved[o] = t <=> IsActive(t) /\ OperationOf[t] = o)'
  <2>1. CASE t \in S
    BY <2>1 DEF IsActive
  <2>2. CASE t \notin S
    <3>1. reserved'[o] = t <=> reserved[o] = t
      BY <2>2
    <3>2. IsActive(t)' <=> IsActive(t)
      BY <2>2 DEF IsActive
    <3> QED
      BY <3>1, <3>2 DEF ReservationsExact
  <2> QED
    BY <2>1, <2>2
<1> QED
  BY <1>1, <1>2 DEF ReservationsExact

(* Writing an active status under a reservation keeps the reservations exact. *)
LEMMA ReserveKeepsExact ==
  ASSUME StoreInv, NEW t \in Tasks, NEW s \in Active, CanReserve(t), Reserve(t), SetStatus(t, s)
  PROVE  /\ ReservationsExact'
         /\ reserved' \in [Operations -> Tasks \cup {NoTask}]
         /\ status' \in [Tasks -> {"absent", "deleted"} \cup Active \cup Terminal]
<1> USE StoreAssumption DEF StoreInv, StoreTypeOK, SetStatus
<1>1. /\ status' \in [Tasks -> {"absent", "deleted"} \cup Active \cup Terminal]
      /\ reserved' \in [Operations -> Tasks \cup {NoTask}]
  BY DEF Reserve
<1>2. ASSUME NEW o \in Operations, NEW r \in Tasks
      PROVE  (reserved[o] = r <=> IsActive(r) /\ OperationOf[r] = o)'
  <2>1. CASE r = t
    <3>1. IsActive(t)'
      BY DEF IsActive
    <3>2. reserved'[o] = t <=> OperationOf[t] = o
      BY DEF Reserve, ReservationsExact
    <3> QED
      BY <2>1, <3>1, <3>2
  <2>2. CASE r # t
    <3>1. IsActive(r)' <=> IsActive(r)
      BY <2>2 DEF IsActive
    <3>2. reserved'[o] = r <=> reserved[o] = r
      BY <2>2 DEF Reserve, CanReserve
    <3> QED
      BY <3>1, <3>2 DEF ReservationsExact
  <2> QED
    BY <2>1, <2>2
<1> QED
  BY <1>1, <1>2 DEF ReservationsExact

(* Every transaction of the store preserves the invariant. *)
LEMMA StepStore == StoreInv /\ [StoreNext]_storeVars => StoreInv'
<1> SUFFICES ASSUME StoreInv, [StoreNext]_storeVars PROVE StoreInv'
  OBVIOUS
<1> USE StoreAssumption
<1>1. ASSUME NEW t \in Tasks, NEW s \in Active \cup Terminal, NEW recovery \in BOOLEAN,
             Save(t, s, recovery)
      PROVE  StoreInv'
  <2>1. CASE s \in Active
    <3>1. ReservationsExact' /\ StoreTypeOK'
      BY <1>1, <2>1, ReserveKeepsExact DEF Save, Saves, StoreInv, StoreTypeOK
    <3>2. CheckpointsActive'
      BY <1>1, <2>1 DEF Save, SetStatus, CheckpointsActive, IsActive, StoreInv, StoreTypeOK
    <3> QED
      BY <3>1, <3>2 DEF StoreInv
  <2>2. CASE s \notin Active
    <3>1. status' \in [Tasks -> {"absent", "deleted"} \cup Active \cup Terminal]
      BY <1>1 DEF Save, SetStatus, StoreInv, StoreTypeOK
    <3>2. Unreserve({t}) /\ checkpoint' = checkpoint \ {t}
      BY <1>1, <2>2 DEF Save, Drop
    <3>3. ~IsActive(t)' /\ \A r \in Tasks \ {t} : status'[r] = status[r]
      BY <1>1, <2>2 DEF Save, SetStatus, IsActive, StoreInv, StoreTypeOK
    <3>4. ReservationsExact' /\ reserved' \in [Operations -> Tasks \cup {NoTask}]
      BY <3>1, <3>2, <3>3, UnreserveKeepsExact
    <3>5. CheckpointsActive'
      BY <3>2, <3>3 DEF CheckpointsActive, IsActive, StoreInv, StoreTypeOK
    <3> QED
      BY <3>1, <3>2, <3>4, <3>5 DEF StoreInv, StoreTypeOK
  <2> QED
    BY <2>1, <2>2
<1>2. ASSUME NEW S \in SUBSET Tasks, RecoverInterrupted(S)
      PROVE  StoreInv'
  <2>1. status' \in [Tasks -> {"absent", "deleted"} \cup Active \cup Terminal]
    BY <1>2 DEF RecoverInterrupted, StoreInv, StoreTypeOK
  <2>2. /\ \A t \in S : ~IsActive(t)'
        /\ \A t \in Tasks \ S : status'[t] = status[t]
    BY <1>2 DEF RecoverInterrupted, IsActive
  <2>3. ReservationsExact' /\ reserved' \in [Operations -> Tasks \cup {NoTask}]
    BY <1>2, <2>1, <2>2, UnreserveKeepsExact DEF RecoverInterrupted
  <2>4. CheckpointsActive'
    BY <1>2, <2>2 DEF RecoverInterrupted, Unrecoverable, CheckpointsActive, IsActive, StoreInv, StoreTypeOK
  <2> QED
    BY <1>2, <2>1, <2>3, <2>4 DEF StoreInv, StoreTypeOK, RecoverInterrupted
<1>3. ASSUME NEW S \in SUBSET Tasks, ClearLogs(S)
      PROVE  StoreInv'
  <2>1. status' \in [Tasks -> {"absent", "deleted"} \cup Active \cup Terminal]
    BY <1>3 DEF ClearLogs, StoreInv, StoreTypeOK
  <2>2. /\ \A t \in S : ~IsActive(t)'
        /\ \A t \in Tasks \ S : status'[t] = status[t]
    BY <1>3 DEF ClearLogs, IsActive
  <2>3. ReservationsExact' /\ reserved' \in [Operations -> Tasks \cup {NoTask}]
    BY <1>3, <2>1, <2>2, UnreserveKeepsExact DEF ClearLogs, Drop
  <2>4. CheckpointsActive' /\ checkpoint' \subseteq Tasks
    BY <1>3, <2>2 DEF ClearLogs, Drop, CheckpointsActive, IsActive, StoreInv, StoreTypeOK
  <2> QED
    BY <2>1, <2>3, <2>4 DEF StoreInv, StoreTypeOK
<1>4. ASSUME NEW S \in SUBSET Tasks, DeleteTerminal(S)
      PROVE  StoreInv'
  <2>1. StoreTypeOK'
    BY <1>4 DEF DeleteTerminal, StoreInv, StoreTypeOK
  <2>2. \A t \in Tasks : IsActive(t)' <=> IsActive(t)
    BY <1>4 DEF DeleteTerminal, IsActive
  <2>3. ReservationsExact' /\ CheckpointsActive'
    BY <1>4, <2>2 DEF DeleteTerminal, ReservationsExact, CheckpointsActive, StoreInv, StoreTypeOK
  <2> QED
    BY <2>1, <2>3 DEF StoreInv
<1>5. ASSUME NEW t \in Tasks, PrepareRecovery(t)
      PROVE  StoreInv'
  <2>1. ReservationsExact' /\ StoreTypeOK'
    BY <1>5, ReserveKeepsExact DEF PrepareRecovery, StoreInv, StoreTypeOK
  <2>2. CheckpointsActive'
    BY <1>5 DEF PrepareRecovery, SetStatus, CheckpointsActive, IsActive, StoreInv, StoreTypeOK
  <2> QED
    BY <2>1, <2>2 DEF StoreInv
<1>6. ASSUME NEW t \in Tasks, CancelTask(t)
      PROVE  StoreInv'
  <2>1. status' \in [Tasks -> {"absent", "deleted"} \cup Active \cup Terminal]
    BY <1>6 DEF CancelTask, SetStatus, StoreInv, StoreTypeOK
  <2>2. ~IsActive(t)' /\ \A r \in Tasks \ {t} : status'[r] = status[r]
    BY <1>6 DEF CancelTask, SetStatus, IsActive, StoreInv, StoreTypeOK
  <2>3. ReservationsExact' /\ reserved' \in [Operations -> Tasks \cup {NoTask}]
    BY <1>6, <2>1, <2>2, UnreserveKeepsExact DEF CancelTask, Drop
  <2>4. CheckpointsActive' /\ checkpoint' \subseteq Tasks
    BY <1>6, <2>2 DEF CancelTask, Drop, CheckpointsActive, IsActive, StoreInv, StoreTypeOK
  <2> QED
    BY <2>1, <2>3, <2>4 DEF StoreInv, StoreTypeOK
<1>7. ASSUME UNCHANGED storeVars PROVE StoreInv'
  BY <1>7 DEF storeVars, StoreInv, StoreTypeOK, ReservationsExact, CheckpointsActive, IsActive
<1> QED
  BY <1>1, <1>2, <1>3, <1>4, <1>5, <1>6, <1>7 DEF StoreNext

(* The store's own invariant, for every store. *)
THEOREM StoreInvariant == StoreSpec => []StoreInv
  BY InitStore, StepStore, PTL DEF StoreSpec

(* The columns hold the values their readers know. *)
THEOREM StoreTypeCorrect == StoreSpec => []StoreTypeOK
<1>1. StoreInv => StoreTypeOK
  BY DEF StoreInv
<1> QED
  BY <1>1, StoreInvariant, PTL

(* An exclusive operation is reserved for exactly the active task that has it,
   in whatever order workers, handlers, cleanup and startup write. *)
THEOREM ReservationsAreExact == StoreSpec => []ReservationsExact
<1>1. StoreInv => ReservationsExact
  BY DEF StoreInv
<1> QED
  BY <1>1, StoreInvariant, PTL

(* No ended or deleted task has recovery parameters left. *)
THEOREM CheckpointsAreActive == StoreSpec => []CheckpointsActive
<1>1. StoreInv => CheckpointsActive
  BY DEF StoreInv
<1> QED
  BY <1>1, StoreInvariant, PTL

(* What a save maps to: acceptance, an end, or nothing. *)
LEMMA SaveImplements ==
  ASSUME StoreInv, NEW t \in Tasks, NEW s \in Active \cup Terminal, NEW recovery \in BOOLEAN,
         Save(t, s, recovery)
  PROVE  [Lifecycle!LifeNext]_([r \in Tasks |-> LifeOf(r)])
<1> USE StoreAssumption DEF StoreInv, StoreTypeOK, Save, SetStatus, Saves, Writable
<1>1. [r \in Tasks |-> LifeOf(r)]' = [[r \in Tasks |-> LifeOf(r)] EXCEPT ![t] = LifeOf(t)']
  BY DEF LifeOf, IsActive
<1>2. CASE s \in Active
  <2>1. LifeOf(t)' = "active"
    BY <1>2 DEF LifeOf, IsActive
  <2>2. status[t] \in {"absent"} \cup Active
    BY <1>2
  <2>3. CASE status[t] \in Active
    <3>1. LifeOf(t) = "active"
      BY <2>3 DEF LifeOf, IsActive
    <3> QED
      BY <1>1, <2>1, <3>1
  <2>4. CASE status[t] = "absent"
    <3>1. LifeOf(t) = "absent"
      BY <2>4 DEF LifeOf, IsActive
    <3>2. ASSUME NEW r \in Tasks \ {t}, OperationOf[t] # NoOperation, OperationOf[r] = OperationOf[t]
          PROVE  LifeOf(r) # "active"
      <4>1. reserved[OperationOf[t]] \in {NoTask, t}
        BY <1>2, <3>2 DEF CanReserve
      <4>2. OperationOf[t] \in Operations /\ r # t /\ r # NoTask
        BY <3>2
      <4>3. reserved[OperationOf[t]] # r
        BY <4>1, <4>2
      <4>4. ~IsActive(r)
        BY <3>2, <4>2, <4>3 DEF ReservationsExact
      <4> QED
        BY <4>4 DEF LifeOf, IsActive, StoreInv, StoreTypeOK
    <3>3. Lifecycle!Accept(t)
      BY <1>1, <2>1, <3>1, <3>2 DEF Lifecycle!Accept, Lifecycle!Moves
    <3> QED
      BY <3>3 DEF Lifecycle!LifeNext
  <2> QED
    BY <2>2, <2>3, <2>4
<1>3. CASE s \in Terminal
  <2>1. LifeOf(t)' = s
    BY <1>3 DEF LifeOf, IsActive
  <2>2. LifeOf(t) \in {"absent", "active", s}
    BY DEF LifeOf, IsActive
  <2>3. CASE LifeOf(t) = s
    <3>1. UNCHANGED [r \in Tasks |-> LifeOf(r)]
      BY <1>1, <2>1, <2>3
    <3> QED
      BY <3>1
  <2>4. CASE LifeOf(t) \in {"absent", "active"}
    <3>1. Lifecycle!End(t)
      BY <1>1, <1>3, <2>1, <2>4 DEF Lifecycle!End, Lifecycle!Moves
    <3> QED
      BY <3>1 DEF Lifecycle!LifeNext
  <2> QED
    BY <2>2, <2>3, <2>4
<1> QED
  BY <1>2, <1>3

(* Deleting ended tasks, with or without dropping what they held. *)
LEMMA DeletionImplements ==
  ASSUME StoreInv, NEW S \in SUBSET Tasks, \A t \in S : status[t] \in Terminal,
         status' = [t \in Tasks |-> IF t \in S THEN "deleted" ELSE status[t]]
  PROVE  Lifecycle!LifeNext
<1>1. \A t \in S : LifeOf(t) \in Terminal
  BY DEF LifeOf, IsActive
<1>2. \A t \in Tasks : LifeOf(t)' = IF t \in S THEN "deleted" ELSE LifeOf(t)
  BY DEF LifeOf, IsActive
<1>3. Lifecycle!DeleteMany(S)
  BY <1>1, <1>2 DEF Lifecycle!DeleteMany
<1> QED
  BY <1>3 DEF Lifecycle!LifeNext

(* Every transaction of the store is a step of the lifecycle or invisible. *)
LEMMA StepImplementsLifecycle ==
  StoreInv /\ [StoreNext]_storeVars => [Lifecycle!LifeNext]_([t \in Tasks |-> LifeOf(t)])
<1> SUFFICES ASSUME StoreInv, [StoreNext]_storeVars
             PROVE  [Lifecycle!LifeNext]_([t \in Tasks |-> LifeOf(t)])
  OBVIOUS
<1> USE StoreAssumption
<1>1. ASSUME NEW t \in Tasks, NEW s \in Active \cup Terminal, NEW recovery \in BOOLEAN,
             Save(t, s, recovery)
      PROVE  [Lifecycle!LifeNext]_([r \in Tasks |-> LifeOf(r)])
  BY <1>1, SaveImplements
<1>2. ASSUME NEW S \in SUBSET Tasks, RecoverInterrupted(S)
      PROVE  Lifecycle!LifeNext
  <2>1. \A t \in S : LifeOf(t) = "active"
    BY <1>2 DEF RecoverInterrupted, Unrecoverable, LifeOf
  <2>2. \A t \in Tasks : LifeOf(t)' = IF t \in S THEN "failed" ELSE LifeOf(t)
    BY <1>2 DEF RecoverInterrupted, LifeOf, IsActive
  <2>3. Lifecycle!EndMany(S, "failed")
    BY <2>1, <2>2 DEF Lifecycle!EndMany
  <2> QED
    BY <2>3 DEF Lifecycle!LifeNext
<1>3. ASSUME NEW S \in SUBSET Tasks, ClearLogs(S) \/ DeleteTerminal(S)
      PROVE  Lifecycle!LifeNext
  BY <1>3, DeletionImplements DEF ClearLogs, DeleteTerminal
<1>4. ASSUME NEW t \in Tasks, PrepareRecovery(t)
      PROVE  UNCHANGED [r \in Tasks |-> LifeOf(r)]
  BY <1>4 DEF PrepareRecovery, Recoverable, SetStatus, LifeOf, IsActive, StoreInv, StoreTypeOK
<1>5. ASSUME NEW t \in Tasks, CancelTask(t)
      PROVE  Lifecycle!LifeNext
  <2>1. LifeOf(t) = "active"
    BY <1>5 DEF CancelTask, LifeOf
  <2>2. \A r \in Tasks : LifeOf(r)' = IF r = t THEN "cancelled" ELSE LifeOf(r)
    BY <1>5 DEF CancelTask, SetStatus, LifeOf, IsActive, StoreInv, StoreTypeOK
  <2>3. Lifecycle!End(t)
    BY <2>1, <2>2 DEF Lifecycle!End, Lifecycle!Moves
  <2> QED
    BY <2>3 DEF Lifecycle!LifeNext
<1>6. ASSUME UNCHANGED storeVars
      PROVE  UNCHANGED [t \in Tasks |-> LifeOf(t)]
  BY <1>6 DEF storeVars, LifeOf, IsActive
<1> QED
  BY <1>1, <1>2, <1>3, <1>4, <1>5, <1>6 DEF StoreNext

(* The store implements the lifecycle: each task is accepted once and ends
   once, its verdict stands, a deleted task stays deleted, and two tasks that
   exclude each other are never active together. *)
THEOREM StoreImplementsLifecycle == StoreSpec => ImplementsLifecycle
<1>1. StoreInit => Lifecycle!LifeInit
  BY DEF StoreInit, Lifecycle!LifeInit, LifeOf, IsActive
<1> QED
  BY <1>1, StepImplementsLifecycle, StoreInvariant, PTL
     DEF StoreSpec, ImplementsLifecycle, Lifecycle!LifeSpec
=============================================================================

-------------------------- MODULE TaskRunnerProofs --------------------------
(***************************************************************************)
(* The safety invariants of TaskRunner, and its refinement of SlotPool,    *)
(* for every set of workers, IDs, limits and queue capacities.  They       *)
(* support one another (NoLostWakeup and the refinement read the counters, *)
(* DoneOnceDrained reads active), so one inductive invariant carries all.  *)
(***************************************************************************)
EXTENDS TaskRunner, FiniteSetTheorems, TLAPS

(* A stopped group has ended its context: Cancel does both at once. *)
StopInterrupts == stopped => interrupted

IInv ==
    /\ TypeOK
    /\ CountersMatch
    /\ RegisteredIsLive
    /\ NoLostWakeup
    /\ DoneOnceDrained
    /\ CancelledWereAsked
    /\ StopInterrupts
-----------------------------------------------------------------------------
LEMMA PhaseSets ==
  ASSUME RunnerAssumption
  PROVE  /\ \A p \in Phases : IsFiniteSet(In(p)) /\ Cardinality(In(p)) \in Nat
         /\ IsFiniteSet(Live) /\ Cardinality(Live) \in Nat
         /\ Cardinality(Live) = 0 <=> Live = {}
<1>1. IsFiniteSet(Workers)
  BY DEF RunnerAssumption
<1>2. \A S \in SUBSET Workers : IsFiniteSet(S) /\ Cardinality(S) \in Nat
                                 /\ (Cardinality(S) = 0 <=> S = {})
  BY <1>1, FS_Subset, FS_CardinalityType, FS_EmptySet
<1>3. \A p \in Phases : In(p) \in SUBSET Workers
  BY DEF In
<1>4. Live \in SUBSET Workers
  BY DEF Live, In
<1>. QED
  BY <1>2, <1>3, <1>4

(* A worker that moves from phase p to phase q leaves one set for the other. *)
LEMMA MovePhase ==
  ASSUME TypeOK, NEW w \in Workers, NEW p \in Phases, NEW q \in Phases,
         p # q, phase[w] = p, phase' = [phase EXCEPT ![w] = q]
  PROVE  /\ w \in In(p) /\ In(p)' = In(p) \ {w}
         /\ w \notin In(q) /\ In(q)' = In(q) \cup {w}
         /\ \A r \in Phases \ {p, q} : In(r)' = In(r)
<1>1. \A v \in Workers : phase'[v] = IF v = w THEN q ELSE phase[v]
  BY DEF TypeOK
<1>. QED
  BY <1>1 DEF In

LEMMA MoveCounts ==
  ASSUME RunnerAssumption, TypeOK,
         NEW w \in Workers, NEW p \in Phases, NEW q \in Phases,
         p # q, phase[w] = p, phase' = [phase EXCEPT ![w] = q]
  PROVE  /\ Cardinality(In(p)') = Cardinality(In(p)) - 1
         /\ Cardinality(In(q)') = Cardinality(In(q)) + 1
         /\ \A r \in Phases \ {p, q} : Cardinality(In(r)') = Cardinality(In(r))
<1>1. \A r \in Phases : IsFiniteSet(In(r))
  BY PhaseSets
<1>2. /\ Cardinality(In(p) \ {w}) = Cardinality(In(p)) - 1
      /\ Cardinality(In(q) \cup {w}) = Cardinality(In(q)) + 1
  BY <1>1, MovePhase, FS_RemoveElement, FS_AddElement
<1>3. /\ In(p)' = In(p) \ {w} /\ In(q)' = In(q) \cup {w}
      /\ \A r \in Phases \ {p, q} : In(r)' = In(r)
  BY MovePhase
<1>. QED
  BY <1>2, <1>3, Zenon

LiveNow(w) == phase[w] \in {"queued", "slotted", "unslotted"}

(* The live workers when one is launched, moves on while live, or finishes. *)
LEMMA MoveLive ==
  ASSUME RunnerAssumption, TypeOK, NEW w \in Workers, NEW q \in Phases,
         phase' = [phase EXCEPT ![w] = q]
  PROVE  /\ q \in {"queued", "slotted", "unslotted"} /\ ~LiveNow(w) =>
              Live' = Live \cup {w} /\ Cardinality(Live') = Cardinality(Live) + 1
         /\ q \in {"queued", "slotted", "unslotted"} /\ LiveNow(w) => Live' = Live
         /\ q = "absent" /\ LiveNow(w) =>
              Live' = Live \ {w} /\ Cardinality(Live') = Cardinality(Live) - 1
<1>1. Live = {v \in Workers : LiveNow(v)}
  BY DEF Live, In, LiveNow
<1>2. \A v \in Workers : phase'[v] = IF v = w THEN q ELSE phase[v]
  BY DEF TypeOK
<1>3. Live' = {v \in Workers : phase'[v] \in {"queued", "slotted", "unslotted"}}
  BY DEF Live, In
<1>4. IsFiniteSet(Live)
  BY PhaseSets
<1>5. CASE q \in {"queued", "slotted", "unslotted"} /\ ~LiveNow(w)
  <2>1. Live' = Live \cup {w} /\ w \notin Live
    BY <1>1, <1>2, <1>3, <1>5 DEF LiveNow
  <2>. QED
    BY <2>1, <1>4, <1>5, FS_AddElement
<1>6. CASE q \in {"queued", "slotted", "unslotted"} /\ LiveNow(w)
  BY <1>1, <1>2, <1>3, <1>6 DEF LiveNow
<1>7. CASE q = "absent" /\ LiveNow(w)
  <2>1. Live' = Live \ {w} /\ w \in Live
    BY <1>1, <1>2, <1>3, <1>7 DEF LiveNow
  <2>. QED
    BY <2>1, <1>4, <1>7, FS_RemoveElement
<1>. QED
  BY <1>5, <1>6, <1>7
-----------------------------------------------------------------------------
LEMMA InitIInv == RunnerAssumption /\ Init => IInv
<1> SUFFICES ASSUME RunnerAssumption, Init PROVE IInv
  OBVIOUS
<1>1. \A w \in Workers : phase[w] = "absent" /\ cause[w] = "none"
  BY DEF Init
<1>2. /\ In("queued") = {} /\ In("slotted") = {} /\ Live = {}
  BY <1>1 DEF In, Live
<1>3. TypeOK
  <2>1. limit \in Nat /\ queue \in Nat
    <3>1. limit \in Limits \cup {0} /\ queue \in Queues \cup {0}
      BY DEF Init
    <3>2. Limits \subseteq Nat /\ Queues \subseteq Nat /\ 0 \in Nat
      BY DEF RunnerAssumption
    <3>. QED
      BY <3>1, <3>2
  <2>2. running \in Int /\ waiting \in Int /\ active \in Int /\ doneCloses \in Nat
    BY DEF Init
  <2>3. parked \subseteq In("queued") /\ pending \subseteq asked /\ asked \subseteq Workers
    BY DEF Init
  <2>4. /\ tasks \in [TaskIds -> Workers \cup {NoWorker}]
        /\ stopped \in BOOLEAN /\ interrupted \in BOOLEAN
        /\ phase \in [Workers -> Phases]
        /\ id \in [Workers -> TaskIds \cup {NoId}]
        /\ cause \in [Workers -> Causes]
        /\ shut \in [Callers -> {"none", "waiting", "timedout", "drained"}]
    BY DEF Init, Phases, Causes
  <2>. QED
    BY <2>1, <2>2, <2>3, <2>4 DEF TypeOK
<1>4. CountersMatch
  BY <1>2, FS_EmptySet DEF Init, CountersMatch
<1>5. RegisteredIsLive
  BY <1>2 DEF Init, RegisteredIsLive, RunnerAssumption
<1>6. NoLostWakeup /\ CancelledWereAsked
  BY <1>1 DEF Init, NoLostWakeup, CancelledWereAsked
<1>7. DoneOnceDrained /\ StopInterrupts
  BY DEF Init, DoneOnceDrained, StopInterrupts
<1>. QED
  BY <1>3, <1>4, <1>5, <1>6, <1>7 DEF IInv
-----------------------------------------------------------------------------
(* What start() keeps, whichever way it launches the worker. *)
LEMMA LaunchKeeps ==
  ASSUME RunnerAssumption, IInv, NEW w \in Workers, NEW i \in TaskIds \cup {NoId},
         NEW p \in {"slotted", "queued"}, Launch(w, i, p)
  PROVE  /\ Live' = Live \cup {w}
         /\ active' = Cardinality(Live')
         /\ parked' \subseteq In("queued")'
         /\ \A v \in parked : cause'[v] = cause[v]
         /\ RegisteredIsLive'
         /\ DoneOnceDrained' /\ CancelledWereAsked' /\ StopInterrupts'
<1>1. /\ TypeOK /\ phase[w] = "absent" /\ p \in Phases /\ "absent" \in Phases
      /\ phase' = [phase EXCEPT ![w] = p] /\ ~LiveNow(w)
  BY DEF IInv, Launch, Phases, LiveNow
<1>2. Live' = Live \cup {w} /\ Cardinality(Live') = Cardinality(Live) + 1
  BY <1>1, MoveLive
<1>3. active' = Cardinality(Live')
  BY <1>2 DEF IInv, CountersMatch, Launch
<1>4. parked' \subseteq In("queued")'
  <2>1. In("queued") \subseteq In("queued")'
    BY <1>1, MovePhase DEF Phases
  <2>. QED
    BY <1>1, <2>1 DEF TypeOK, Launch
<1>5. RegisteredIsLive'
  <2> SUFFICES ASSUME NEW j \in TaskIds, NEW v \in Workers
               PROVE  tasks'[j] = v <=> (v \in Live' /\ id'[v] = j)
    BY DEF RegisteredIsLive
  <2>1. w \notin Live /\ Live \subseteq Workers
    BY <1>1 DEF Live, In
  <2>2. tasks[j] = v <=> (v \in Live /\ id[v] = j)
    BY DEF IInv, RegisteredIsLive
  <2>3. id'[v] = IF v = w THEN i ELSE id[v]
    BY <1>1 DEF Launch, TypeOK
  <2>4. CASE j = i
    <3>1. tasks[i] = NoWorker /\ tasks'[i] = w
      BY <1>1, <2>4 DEF Launch, Admits, TypeOK, RunnerAssumption
    <3>. QED
      BY <1>2, <2>1, <2>2, <2>3, <2>4, <3>1 DEF RunnerAssumption
  <2>5. CASE j # i
    <3>1. tasks'[j] = tasks[j]
      BY <1>1, <2>5 DEF Launch, TypeOK
    <3>. QED
      BY <1>2, <2>1, <2>2, <2>3, <2>5, <3>1
  <2>. QED
    BY <2>4, <2>5
<1>6. DoneOnceDrained'
  BY DEF IInv, Launch, Admits, DoneOnceDrained, group
<1>7. CancelledWereAsked' /\ StopInterrupts'
  BY <1>1 DEF IInv, TypeOK, Launch, CancelledWereAsked, StopInterrupts, group
<1>8. \A v \in parked : cause'[v] = cause[v]
  BY <1>1 DEF Launch, TypeOK, In
<1>. QED
  BY <1>2, <1>3, <1>4, <1>5, <1>6, <1>7, <1>8

(* The part of TypeOK that a launch touches. *)
LEMMA LaunchTypes ==
  ASSUME RunnerAssumption, IInv, NEW w \in Workers, NEW i \in TaskIds \cup {NoId},
         NEW p \in {"slotted", "queued"}, Launch(w, i, p),
         running' \in Int, waiting' \in Int
  PROVE  TypeOK'
<1>1. TypeOK /\ p \in Phases
  BY DEF IInv, Phases
<1>2. parked' \subseteq In("queued")'
  BY LaunchKeeps
<1>3. tasks' \in [TaskIds -> Workers \cup {NoWorker}]
  BY <1>1 DEF Launch, TypeOK
<1>4. phase' \in [Workers -> Phases] /\ id' \in [Workers -> TaskIds \cup {NoId}]
  BY <1>1 DEF Launch, TypeOK
<1>5. active' \in Int
  BY <1>1 DEF Launch, TypeOK
<1>6. cause' \in [Workers -> Causes] /\ pending' \subseteq asked' /\ asked' \subseteq Workers
  BY <1>1 DEF Launch, TypeOK, Causes
<1>. QED
  BY <1>1, <1>2, <1>3, <1>4, <1>5, <1>6 DEF TypeOK, Launch, sizes, group

LEMMA StartRunningKeeps ==
  ASSUME RunnerAssumption, IInv, NEW w \in Workers, NEW i \in TaskIds \cup {NoId},
         StartRunning(w, i)
  PROVE  IInv'
<1>1. Launch(w, i, "slotted") /\ running' = running + 1 /\ waiting' = waiting
  BY DEF StartRunning
<1>2. TypeOK /\ phase[w] = "absent" /\ phase' = [phase EXCEPT ![w] = "slotted"]
  BY <1>1 DEF IInv, Launch
<1>3. TypeOK'
  BY <1>1, LaunchTypes DEF IInv, TypeOK
<1>4. CountersMatch'
  <2>1. Cardinality(In("slotted")') = Cardinality(In("slotted")) + 1
    BY <1>2, MoveCounts DEF Phases
  <2>2. In("queued")' = In("queued")
    BY <1>2, MovePhase DEF Phases
  <2>. QED
    BY <1>1, <2>1, <2>2, LaunchKeeps DEF IInv, CountersMatch
<1>5. NoLostWakeup'
  <2>1. HasSlot /\ \A v \in parked : cause[v] # "none"
    BY DEF StartRunning, IInv, NoLostWakeup
  <2>. QED
    BY <1>1, <2>1, LaunchKeeps DEF Launch, NoLostWakeup
<1>. QED
  BY <1>1, <1>3, <1>4, <1>5, LaunchKeeps DEF IInv

LEMMA StartQueuedKeeps ==
  ASSUME RunnerAssumption, IInv, NEW w \in Workers, NEW i \in TaskIds \cup {NoId},
         StartQueued(w, i)
  PROVE  IInv'
<1>1. Launch(w, i, "queued") /\ running' = running /\ waiting' = waiting + 1
  BY DEF StartQueued
<1>2. TypeOK /\ phase[w] = "absent" /\ phase' = [phase EXCEPT ![w] = "queued"]
  BY <1>1 DEF IInv, Launch
<1>3. TypeOK'
  BY <1>1, LaunchTypes DEF IInv, TypeOK
<1>4. CountersMatch'
  <2>1. Cardinality(In("queued")') = Cardinality(In("queued")) + 1
    BY <1>2, MoveCounts DEF Phases
  <2>2. In("slotted")' = In("slotted")
    BY <1>2, MovePhase DEF Phases
  <2>. QED
    BY <1>1, <2>1, <2>2, LaunchKeeps DEF IInv, CountersMatch
<1>5. NoLostWakeup'
  BY <1>1 DEF StartQueued, Launch, NoLostWakeup, HasSlot, sizes
<1>. QED
  BY <1>1, <1>3, <1>4, <1>5, LaunchKeeps DEF IInv
-----------------------------------------------------------------------------
(* What wait() keeps when it returns, with a slot or without. *)
LEMMA LeaveQueueKeeps ==
  ASSUME RunnerAssumption, IInv, NEW w \in Workers, NEW p \in {"slotted", "unslotted"},
         phase[w] = "queued", LeaveQueue(w, p), running' \in Int
  PROVE  /\ TypeOK'
         /\ Live' = Live
         /\ waiting' = Cardinality(In("queued")')
         /\ RegisteredIsLive'
         /\ DoneOnceDrained' /\ CancelledWereAsked' /\ StopInterrupts'
<1>1. TypeOK /\ p \in Phases /\ "queued" \in Phases /\ p # "queued" /\ LiveNow(w)
      /\ phase' = [phase EXCEPT ![w] = p]
  BY DEF IInv, LeaveQueue, Phases, LiveNow
<1>2. Live' = Live
  BY <1>1, MoveLive
<1>3. waiting' = Cardinality(In("queued")')
  BY <1>1, MoveCounts DEF IInv, CountersMatch, LeaveQueue
<1>4. TypeOK'
  <2>1. In("queued")' = In("queued") \ {w}
    BY <1>1, MovePhase
  <2>2. parked' \subseteq In("queued")'
    BY <1>1, <2>1 DEF LeaveQueue, TypeOK
  <2>3. phase' \in [Workers -> Phases] /\ waiting' \in Int
    BY <1>1 DEF LeaveQueue, TypeOK
  <2>. QED
    BY <1>1, <2>2, <2>3 DEF LeaveQueue, TypeOK, sizes, group, cancel
<1>5. RegisteredIsLive'
  BY <1>2 DEF IInv, RegisteredIsLive, LeaveQueue
<1>6. DoneOnceDrained' /\ CancelledWereAsked' /\ StopInterrupts'
  BY <1>2 DEF IInv, DoneOnceDrained, CancelledWereAsked, StopInterrupts, LeaveQueue,
              group, cancel
<1>. QED
  BY <1>2, <1>3, <1>4, <1>5, <1>6

LEMMA GiveUpKeeps ==
  ASSUME RunnerAssumption, IInv, NEW w \in Workers, GiveUp(w)
  PROVE  IInv'
<1>1. /\ phase[w] = "queued" /\ LeaveQueue(w, "unslotted") /\ running' = running
      /\ phase' = [phase EXCEPT ![w] = "unslotted"] /\ TypeOK
  BY DEF GiveUp, Awake, LeaveQueue, IInv
<1>2. running' \in Int
  BY <1>1 DEF TypeOK
<1>3. CountersMatch'
  <2>1. In("slotted")' = In("slotted")
    BY <1>1, MovePhase DEF Phases
  <2>2. active' = active
    BY <1>1 DEF LeaveQueue
  <2>. QED
    BY <1>1, <1>2, <2>1, <2>2, LeaveQueueKeeps DEF IInv, CountersMatch
<1>4. NoLostWakeup'
  BY <1>1 DEF IInv, NoLostWakeup, LeaveQueue, HasSlot, sizes
<1>. QED
  BY <1>1, <1>2, <1>3, <1>4, LeaveQueueKeeps DEF IInv

LEMMA TakeSlotKeeps ==
  ASSUME RunnerAssumption, IInv, NEW w \in Workers, TakeSlot(w)
  PROVE  IInv'
<1>1. /\ phase[w] = "queued" /\ LeaveQueue(w, "slotted") /\ running' = running + 1
      /\ phase' = [phase EXCEPT ![w] = "slotted"] /\ TypeOK
  BY DEF TakeSlot, Awake, LeaveQueue, IInv
<1>2. running' \in Int
  BY <1>1 DEF TypeOK
<1>3. CountersMatch'
  <2>1. Cardinality(In("slotted")') = Cardinality(In("slotted")) + 1
    BY <1>1, MoveCounts DEF Phases
  <2>2. active' = active
    BY <1>1 DEF LeaveQueue
  <2>. QED
    BY <1>1, <1>2, <2>1, <2>2, LeaveQueueKeeps DEF IInv, CountersMatch
<1>4. NoLostWakeup'
  <2>1. HasSlot /\ \A v \in parked : cause[v] # "none"
    BY DEF TakeSlot, IInv, NoLostWakeup
  <2>. QED
    BY <1>1, <2>1 DEF LeaveQueue, NoLostWakeup
<1>. QED
  BY <1>1, <1>2, <1>3, <1>4, LeaveQueueKeeps DEF IInv

(* What holds of any step that moves no worker and touches no counter. *)
LEMMA StillKeeps ==
  ASSUME IInv, UNCHANGED <<counts, tasks, phase, id>>
  PROVE  CountersMatch' /\ RegisteredIsLive' /\ Live' = Live /\ In("queued")' = In("queued")
<1>1. Live' = Live /\ \A p \in Phases : In(p)' = In(p)
  BY DEF Live, In
<1>. QED
  BY <1>1 DEF IInv, CountersMatch, RegisteredIsLive, counts, Phases

LEMMA ParkKeeps ==
  ASSUME IInv, NEW w \in Workers, Park(w)
  PROVE  IInv'
<1>1. CountersMatch' /\ RegisteredIsLive' /\ Live' = Live /\ In("queued")' = In("queued")
  BY StillKeeps DEF Park
<1>2. TypeOK'
  <2>1. w \in In("queued")
    BY DEF Park, Awake, In
  <2>2. parked' \subseteq In("queued")'
    BY <1>1, <2>1 DEF IInv, TypeOK, Park
  <2>. QED
    BY <2>2 DEF IInv, TypeOK, Park, sizes, counts, group, cancel
<1>3. NoLostWakeup'
  BY DEF IInv, NoLostWakeup, Park, HasSlot, sizes, counts
<1>4. DoneOnceDrained' /\ CancelledWereAsked' /\ StopInterrupts'
  BY <1>1 DEF IInv, DoneOnceDrained, CancelledWereAsked, StopInterrupts, Park, group, cancel
<1>. QED
  BY <1>1, <1>2, <1>3, <1>4 DEF IInv

LEMMA ConfigureKeeps ==
  ASSUME RunnerAssumption, IInv, NEW l \in Limits, NEW q \in Queues, Configure(l, q)
  PROVE  IInv'
<1>1. CountersMatch' /\ RegisteredIsLive' /\ Live' = Live /\ In("queued")' = In("queued")
  BY StillKeeps DEF Configure
<1>2. TypeOK'
  <2>1. limit' \in Nat /\ queue' \in Nat
    BY DEF Configure, RunnerAssumption
  <2>. QED
    BY <1>1, <2>1 DEF IInv, TypeOK, Configure, Notify, counts, group, cancel
<1>3. NoLostWakeup'
  BY DEF NoLostWakeup, Configure, Notify
<1>4. DoneOnceDrained' /\ CancelledWereAsked' /\ StopInterrupts'
  BY <1>1 DEF IInv, DoneOnceDrained, CancelledWereAsked, StopInterrupts, Configure,
              group, cancel
<1>. QED
  BY <1>1, <1>2, <1>3, <1>4 DEF IInv
-----------------------------------------------------------------------------
LEMMA CancelLookupKeeps ==
  ASSUME RunnerAssumption, IInv, NEW i \in TaskIds, CancelLookup(i)
  PROVE  IInv'
<1>1. CountersMatch' /\ RegisteredIsLive' /\ Live' = Live /\ In("queued")' = In("queued")
  BY StillKeeps DEF CancelLookup
<1>2. TypeOK'
  <2>1. tasks[i] \in Workers
    BY DEF IInv, TypeOK, CancelLookup
  <2>2. pending' \subseteq asked' /\ asked' \subseteq Workers
    BY <2>1 DEF IInv, TypeOK, CancelLookup
  <2>. QED
    BY <1>1, <2>2 DEF IInv, TypeOK, CancelLookup, sizes, counts, group
<1>3. NoLostWakeup'
  BY DEF IInv, NoLostWakeup, CancelLookup, HasSlot, sizes, counts
<1>4. DoneOnceDrained' /\ CancelledWereAsked' /\ StopInterrupts'
  BY <1>1 DEF IInv, DoneOnceDrained, CancelledWereAsked, StopInterrupts, CancelLookup, group
<1>. QED
  BY <1>1, <1>2, <1>3, <1>4 DEF IInv

LEMMA CancelCallKeeps ==
  ASSUME IInv, NEW w \in Workers, CancelCall(w)
  PROVE  IInv'
<1>1. CountersMatch' /\ RegisteredIsLive' /\ Live' = Live /\ In("queued")' = In("queued")
  BY StillKeeps DEF CancelCall
<1>2. /\ w \in asked /\ cause' \in [Workers -> Causes]
      /\ \A v \in Workers : cause'[v] = IF v = w /\ cause[w] = "none" /\ w \in Live
                                         THEN "cancelled" ELSE cause[v]
  BY DEF IInv, TypeOK, CancelCall, Causes
<1>3. TypeOK'
  BY <1>1, <1>2 DEF IInv, TypeOK, CancelCall, sizes, counts, group
<1>4. NoLostWakeup'
  <2>1. parked \subseteq Workers
    BY DEF IInv, TypeOK, In
  <2>. QED
    BY <1>2, <2>1 DEF IInv, NoLostWakeup, CancelCall, HasSlot, sizes, counts
<1>5. DoneOnceDrained' /\ StopInterrupts'
  BY <1>1 DEF IInv, DoneOnceDrained, StopInterrupts, CancelCall, group
<1>6. CancelledWereAsked'
  BY <1>2 DEF IInv, CancelledWereAsked, CancelCall
<1>. QED
  BY <1>1, <1>3, <1>4, <1>5, <1>6 DEF IInv

(* The end of the group's context makes no worker a cancelled one. *)
LEMMA InterruptKeeps ==
  ASSUME IInv, EndGroupContext, UNCHANGED <<sizes, counts, tasks, phase, id, parked, cancel>>
  PROVE  /\ CountersMatch' /\ RegisteredIsLive' /\ Live' = Live
         /\ In("queued")' = In("queued")
         /\ interrupted' = TRUE /\ cause' \in [Workers -> Causes]
         /\ NoLostWakeup' /\ CancelledWereAsked'
<1>1. CountersMatch' /\ RegisteredIsLive' /\ Live' = Live /\ In("queued")' = In("queued")
  BY StillKeeps
<1>2. interrupted' = TRUE /\ cause' \in [Workers -> Causes]
  BY DEF EndGroupContext, IInv, TypeOK, Causes
<1>3. \A v \in Workers : cause'[v] \in {cause[v], "interrupted"}
  BY DEF EndGroupContext
<1>4. NoLostWakeup'
  <2>1. parked \subseteq Workers
    BY DEF IInv, TypeOK, In
  <2>2. \A v \in parked : cause'[v] = "none" => cause[v] = "none"
    BY <1>3, <2>1
  <2>. QED
    BY <2>2 DEF IInv, NoLostWakeup, HasSlot, sizes, counts
<1>5. CancelledWereAsked'
  BY <1>3 DEF IInv, CancelledWereAsked, cancel
<1>. QED
  BY <1>1, <1>2, <1>4, <1>5

LEMMA ParentInterruptKeeps ==
  ASSUME IInv, ParentInterrupt
  PROVE  IInv'
<1>1. /\ CountersMatch' /\ RegisteredIsLive' /\ Live' = Live
      /\ In("queued")' = In("queued")
      /\ interrupted' = TRUE /\ cause' \in [Workers -> Causes]
      /\ NoLostWakeup' /\ CancelledWereAsked'
  BY InterruptKeeps DEF ParentInterrupt
<1>2. TypeOK'
  BY <1>1 DEF IInv, TypeOK, ParentInterrupt, sizes, counts, cancel
<1>3. DoneOnceDrained' /\ StopInterrupts'
  BY <1>1 DEF IInv, DoneOnceDrained, StopInterrupts, ParentInterrupt
<1>. QED
  BY <1>1, <1>2, <1>3 DEF IInv

(* Cancel and the first half of Shutdown differ only in the caller's state. *)
LEMMA StopKeeps ==
  ASSUME RunnerAssumption, IInv, Stop,
         shut' \in [Callers -> {"none", "waiting", "timedout", "drained"}]
  PROVE  IInv'
<1>1. CASE stopped
  <2>1. UNCHANGED <<counts, tasks, phase, id>>
        /\ UNCHANGED <<sizes, group, cause, parked, cancel>>
    BY <1>1 DEF Stop
  <2>2. CountersMatch' /\ RegisteredIsLive' /\ Live' = Live /\ In("queued")' = In("queued")
    BY <2>1, StillKeeps
  <2>3. TypeOK'
    BY <2>1, <2>2 DEF IInv, TypeOK, sizes, counts, group, cancel
  <2>4. NoLostWakeup' /\ CancelledWereAsked'
    BY <2>1 DEF IInv, NoLostWakeup, CancelledWereAsked, HasSlot, sizes, counts, cancel
  <2>5. DoneOnceDrained' /\ StopInterrupts'
    BY <2>1, <2>2 DEF IInv, DoneOnceDrained, StopInterrupts, group
  <2>. QED
    BY <2>2, <2>3, <2>4, <2>5 DEF IInv
<1>2. CASE ~stopped
  <2>1. /\ stopped' = TRUE /\ EndGroupContext /\ CloseDoneIf(active = 0)
        /\ UNCHANGED <<sizes, counts, tasks, phase, id, parked, cancel>>
    BY <1>2 DEF Stop
  <2>2. /\ CountersMatch' /\ RegisteredIsLive' /\ Live' = Live
        /\ In("queued")' = In("queued")
        /\ interrupted' = TRUE /\ cause' \in [Workers -> Causes]
        /\ NoLostWakeup' /\ CancelledWereAsked'
    BY <2>1, InterruptKeeps
  <2>3. doneCloses = 0 /\ (active = 0 <=> Live = {})
    BY <1>2, PhaseSets DEF IInv, DoneOnceDrained, CountersMatch
  <2>4. DoneOnceDrained' /\ StopInterrupts' /\ doneCloses' \in Nat
    BY <2>1, <2>2, <2>3 DEF CloseDoneIf, DoneOnceDrained, StopInterrupts
  <2>5. TypeOK'
    BY <2>1, <2>2, <2>4 DEF IInv, TypeOK, sizes, counts, cancel
  <2>. QED
    BY <2>2, <2>4, <2>5 DEF IInv
<1>. QED
  BY <1>1, <1>2

LEMMA ShutdownReturnKeeps ==
  ASSUME IInv, NEW c \in Callers, ShutdownReturn(c)
  PROVE  IInv'
<1>1. CountersMatch' /\ RegisteredIsLive' /\ Live' = Live /\ In("queued")' = In("queued")
  BY StillKeeps DEF ShutdownReturn
<1>2. TypeOK'
  <2>1. shut' \in [Callers -> {"none", "waiting", "timedout", "drained"}]
    BY DEF IInv, TypeOK, ShutdownReturn
  <2>. QED
    BY <1>1, <2>1 DEF IInv, TypeOK, ShutdownReturn, sizes, counts, group, cancel
<1>3. NoLostWakeup' /\ CancelledWereAsked'
  BY DEF IInv, NoLostWakeup, CancelledWereAsked, ShutdownReturn, HasSlot, sizes, counts, cancel
<1>4. DoneOnceDrained' /\ StopInterrupts'
  BY <1>1 DEF IInv, DoneOnceDrained, StopInterrupts, ShutdownReturn, group
<1>. QED
  BY <1>1, <1>2, <1>3, <1>4 DEF IInv
-----------------------------------------------------------------------------
LEMMA FinishKeeps ==
  ASSUME RunnerAssumption, IInv, NEW w \in Workers, Finish(w)
  PROVE  IInv'
<1>1. /\ TypeOK /\ phase[w] \in {"slotted", "unslotted"} /\ LiveNow(w)
      /\ phase' = [phase EXCEPT ![w] = "absent"] /\ parked' = {}
  BY DEF Finish, LiveNow, Notify, IInv
<1>2. Live' = Live \ {w} /\ Cardinality(Live') = Cardinality(Live) - 1 /\ w \in Live
  <2>1. Live' = Live \ {w} /\ Cardinality(Live') = Cardinality(Live) - 1
    BY <1>1, MoveLive DEF Phases
  <2>2. w \in Live
    BY <1>1 DEF Live, In
  <2>. QED
    BY <2>1, <2>2
<1>3. CountersMatch'
  <2>1. active' = Cardinality(Live')
    BY <1>2 DEF IInv, CountersMatch, Finish
  <2>2. In("queued")' = In("queued")
    BY <1>1, MovePhase DEF Phases
  <2>3. running' = Cardinality(In("slotted")')
    <3>1. CASE phase[w] = "slotted"
      <4>1. Cardinality(In("slotted")') = Cardinality(In("slotted")) - 1
        BY <1>1, <3>1, MoveCounts DEF Phases
      <4>. QED
        BY <3>1, <4>1 DEF IInv, CountersMatch, Finish
    <3>2. CASE phase[w] = "unslotted"
      <4>1. In("slotted")' = In("slotted")
        BY <1>1, <3>2, MovePhase DEF Phases
      <4>. QED
        BY <3>2, <4>1 DEF IInv, CountersMatch, Finish
    <3>. QED
      BY <1>1, <3>1, <3>2
  <2>. QED
    BY <2>1, <2>2, <2>3 DEF IInv, CountersMatch, Finish
<1>4. RegisteredIsLive'
  <2> SUFFICES ASSUME NEW j \in TaskIds, NEW v \in Workers
               PROVE  tasks'[j] = v <=> (v \in Live' /\ id'[v] = j)
    BY DEF RegisteredIsLive
  <2>1. id' = id /\ (tasks[j] = v <=> (v \in Live /\ id[v] = j))
        /\ (tasks[j] = w <=> (w \in Live /\ id[w] = j))
    BY DEF Finish, IInv, RegisteredIsLive
  <2>2. CASE id[w] = j
    <3>1. tasks'[j] = NoWorker /\ tasks[j] = w
      BY <1>1, <1>2, <2>1, <2>2 DEF Finish, TypeOK, RunnerAssumption
    <3>. QED
      BY <1>2, <2>1, <3>1 DEF RunnerAssumption
  <2>3. CASE id[w] # j
    <3>1. tasks'[j] = tasks[j]
      BY <1>1, <2>3 DEF Finish, TypeOK
    <3>. QED
      BY <1>2, <2>1, <2>3, <3>1
  <2>. QED
    BY <2>2, <2>3
<1>5. DoneOnceDrained' /\ doneCloses' \in Nat
  <2>1. active' = 0 <=> Live' = {}
    <3>1. IsFiniteSet(Live')
      BY <1>2, PhaseSets, FS_RemoveElement
    <3>. QED
      BY <1>3, <3>1, FS_EmptySet DEF CountersMatch
  <2>2. doneCloses = 0
    BY <1>2 DEF IInv, DoneOnceDrained
  <2>. QED
    BY <2>1, <2>2 DEF Finish, CloseDoneIf, DoneOnceDrained
<1>6. TypeOK'
  <2>1. tasks' \in [TaskIds -> Workers \cup {NoWorker}]
    BY <1>1 DEF Finish, TypeOK
  <2>2. phase' \in [Workers -> Phases] /\ running' \in Int /\ active' \in Int
    BY <1>1 DEF Finish, TypeOK, Phases
  <2>. QED
    BY <1>1, <1>5, <2>1, <2>2 DEF Finish, TypeOK, sizes, cancel
<1>7. NoLostWakeup'
  BY <1>1 DEF NoLostWakeup
<1>8. CancelledWereAsked' /\ StopInterrupts'
  BY DEF IInv, CancelledWereAsked, StopInterrupts, Finish, cancel
<1>. QED
  BY <1>3, <1>4, <1>5, <1>6, <1>7, <1>8 DEF IInv

LEMMA StutterKeeps == IInv /\ UNCHANGED vars => IInv'
<1> SUFFICES ASSUME IInv, UNCHANGED vars PROVE IInv'
  OBVIOUS
<1>1. UNCHANGED <<counts, tasks, phase, id>> /\ UNCHANGED <<sizes, group, cause, parked, cancel, shut>>
  BY DEF vars
<1>2. CountersMatch' /\ RegisteredIsLive' /\ Live' = Live /\ In("queued")' = In("queued")
  BY <1>1, StillKeeps
<1>. QED
  BY <1>1, <1>2 DEF IInv, TypeOK, NoLostWakeup, DoneOnceDrained, CancelledWereAsked,
                    StopInterrupts, HasSlot, sizes, counts, group, cancel

LEMMA NextIInv == RunnerAssumption /\ IInv /\ [Next]_vars => IInv'
<1> SUFFICES ASSUME RunnerAssumption, IInv, [Next]_vars PROVE IInv'
  OBVIOUS
<1>1. ASSUME NEW w \in Workers, NEW i \in TaskIds \cup {NoId},
             StartRunning(w, i) \/ StartQueued(w, i)
      PROVE  IInv'
  BY <1>1, StartRunningKeeps, StartQueuedKeeps
<1>2. ASSUME NEW w \in Workers, Wait(w) \/ Finish(w) \/ CancelCall(w)
      PROVE  IInv'
  BY <1>2, GiveUpKeeps, TakeSlotKeeps, ParkKeeps, FinishKeeps, CancelCallKeeps DEF Wait
<1>3. ASSUME NEW l \in Limits, NEW q \in Queues, Configure(l, q)
      PROVE  IInv'
  BY <1>3, ConfigureKeeps
<1>4. ASSUME NEW i \in TaskIds, CancelLookup(i)
      PROVE  IInv'
  BY <1>4, CancelLookupKeeps
<1>5. CASE ParentInterrupt
  BY <1>5, ParentInterruptKeeps
<1>6. CASE Cancel
  <2>1. shut' \in [Callers -> {"none", "waiting", "timedout", "drained"}]
    BY <1>6 DEF IInv, TypeOK, Cancel
  <2>. QED
    BY <1>6, <2>1, StopKeeps DEF Cancel
<1>7. ASSUME NEW c \in Callers, Shutdown(c) \/ ShutdownReturn(c)
      PROVE  IInv'
  <2>1. CASE Shutdown(c)
    <3>1. shut' \in [Callers -> {"none", "waiting", "timedout", "drained"}]
      BY <2>1 DEF IInv, TypeOK, Shutdown
    <3>. QED
      BY <2>1, <3>1, StopKeeps DEF Shutdown
  <2>. QED
    BY <1>7, <2>1, ShutdownReturnKeeps
<1>8. CASE UNCHANGED vars
  BY <1>8, StutterKeeps
<1>. QED
  BY <1>1, <1>2, <1>3, <1>4, <1>5, <1>6, <1>7, <1>8 DEF Next

LEMMA Inductive == Spec => []IInv
<1>1. Init => IInv
  BY InitIInv, RunnerAssumption
<1>2. IInv /\ [Next]_vars => IInv'
  BY NextIInv, RunnerAssumption
<1>. QED
  BY <1>1, <1>2, PTL DEF Spec
-----------------------------------------------------------------------------
(* The counters of the group are exact in every reachable state. *)
THEOREM CountersExact == Spec => []CountersMatch
  BY Inductive, PTL DEF IInv

(* No worker sleeps while a slot is free, whatever the interleaving of
   launches, endings, cancellations and reconfigurations. *)
THEOREM WakeupsKept == Spec => []NoLostWakeup
  BY Inductive, PTL DEF IInv

(* An ID has at most one live worker, the one its cancel function reaches. *)
THEOREM RegistryExact == Spec => []RegisteredIsLive
  BY Inductive, PTL DEF IInv

(* The counters and the registry of the group are right together. *)
THEOREM BooksAreExact == Spec => []BooksExact
  BY CountersExact, RegistryExact, PTL DEF BooksExact

(* The variables keep their types. *)
THEOREM TypeCorrect == Spec => []TypeOK
  BY Inductive, PTL DEF IInv

(* done is closed once, when the stopped group has no worker left. *)
THEOREM DoneClosedOnce == Spec => []DoneOnceDrained
  BY Inductive, PTL DEF IInv

(* Only the launch that CancelTask found is ever cancelled by it. *)
THEOREM CancelReachesItsLaunch == Spec => []CancelledWereAsked
  BY Inductive, PTL DEF IInv
-----------------------------------------------------------------------------
(* A Shutdown that returned nil had seen done closed, and done stays closed. *)
DrainedSawDone == \A c \in Callers : shut[c] = "drained" => doneCloses > 0

LEMMA DoneNeverReopens ==
  IInv /\ [Next]_vars => doneCloses' \in Nat /\ doneCloses' >= doneCloses
<1> SUFFICES ASSUME IInv, [Next]_vars
             PROVE  doneCloses' \in Nat /\ doneCloses' >= doneCloses
  OBVIOUS
<1>1. doneCloses \in Nat
  BY DEF IInv, TypeOK
<1>2. doneCloses' = doneCloses \/ doneCloses' = doneCloses + 1
  BY DEF Next, vars, StartRunning, StartQueued, Launch, Wait, GiveUp, TakeSlot, Park,
         LeaveQueue, Finish, CancelCall, Configure, CancelLookup, ParentInterrupt, Cancel,
         Shutdown, Stop, CloseDoneIf, ShutdownReturn, group
<1>. QED
  BY <1>1, <1>2

LEMMA DrainedSawDoneKeeps ==
  IInv /\ DrainedSawDone /\ [Next]_vars => DrainedSawDone'
<1> SUFFICES ASSUME IInv, DrainedSawDone, [Next]_vars, NEW c \in Callers,
                    shut'[c] = "drained"
             PROVE  doneCloses' > 0
  BY DEF DrainedSawDone
<1>1. doneCloses \in Nat /\ doneCloses' \in Nat /\ doneCloses' >= doneCloses
  BY DoneNeverReopens DEF IInv, TypeOK
<1>2. CASE shut[c] = "drained"
  <2>1. doneCloses > 0
    BY <1>2 DEF DrainedSawDone
  <2>. QED
    BY <1>1, <2>1
<1>3. CASE shut[c] # "drained"
  <2>1. PICK d \in Callers : Shutdown(d) \/ ShutdownReturn(d)
    BY <1>3 DEF Next, vars, StartRunning, StartQueued, Launch, Wait, GiveUp, TakeSlot, Park,
       LeaveQueue, Finish, CancelCall, Configure, CancelLookup, ParentInterrupt, Cancel
  <2>2. doneCloses' = doneCloses /\ doneCloses > 0
    BY <1>3, <2>1 DEF Shutdown, ShutdownReturn, IInv, TypeOK, group
  <2>. QED
    BY <2>2
<1>. QED
  BY <1>2, <1>3

(* A Shutdown that returned nil leaves the group stopped and empty for good. *)
THEOREM DrainedStaysQuiet == Spec => []DrainedIsQuiet
<1>1. Init => DrainedSawDone
  BY DEF Init, DrainedSawDone
<1>2. IInv /\ DrainedSawDone => DrainedIsQuiet
  BY DEF IInv, DoneOnceDrained, DrainedSawDone, DrainedIsQuiet
<1>. QED
  BY <1>1, <1>2, Inductive, DrainedSawDoneKeeps, PTL DEF Spec
-----------------------------------------------------------------------------
(* When the group's context ends, no live worker is left with a live context. *)
InterruptReachesAll == interrupted => \A w \in Live : cause[w] # "none"

LEMMA InterruptReachesAllKeeps ==
  RunnerAssumption /\ IInv /\ InterruptReachesAll /\ [Next]_vars => InterruptReachesAll'
<1> SUFFICES ASSUME RunnerAssumption, IInv, InterruptReachesAll, [Next]_vars
             PROVE  InterruptReachesAll'
  OBVIOUS
<1> DEFINE Calm == /\ Live' \subseteq Live /\ interrupted' = interrupted
                   /\ \A w \in Workers : cause[w] # "none" => cause'[w] # "none"
<1>0. TypeOK /\ Live \subseteq Workers /\ (Calm => InterruptReachesAll')
  BY DEF IInv, Live, In, InterruptReachesAll
<1>s. UNCHANGED phase => Live' = Live
  BY DEF Live, In
<1>1. ASSUME NEW w \in Workers, NEW i \in TaskIds \cup {NoId},
             StartRunning(w, i) \/ StartQueued(w, i)
      PROVE  interrupted' = FALSE
  BY <1>0, <1>1 DEF StartRunning, StartQueued, Launch, Admits, group, TypeOK
<1>2. ASSUME NEW w \in Workers, Wait(w)
      PROVE  Calm
  <2>1. ASSUME NEW p \in {"slotted", "unslotted"}, Awake(w), LeaveQueue(w, p)
        PROVE  Live' = Live /\ UNCHANGED <<interrupted, cause>>
    BY <1>0, <2>1, MoveLive DEF Awake, LeaveQueue, LiveNow, Phases, group
  <2>2. CASE Park(w)
    BY <1>s, <2>2 DEF Park, group
  <2>. QED
    BY <1>2, <2>1, <2>2 DEF Wait, GiveUp, TakeSlot
<1>3. ASSUME NEW w \in Workers, Finish(w)
      PROVE  Calm
  <2>1. Live' \subseteq Live
    BY <1>0, <1>3, MoveLive DEF Finish, LiveNow, Phases
  <2>. QED
    BY <1>3, <2>1 DEF Finish
<1>4. ASSUME NEW w \in Workers, CancelCall(w)
      PROVE  Calm
  <2>1. \A v \in Workers : cause[v] # "none" => cause'[v] # "none"
    BY <1>0, <1>4 DEF CancelCall, TypeOK
  <2>. QED
    BY <1>s, <1>4, <2>1 DEF CancelCall, group
<1>5. ASSUME EndGroupContext, UNCHANGED phase
      PROVE  InterruptReachesAll'
  BY <1>0, <1>s, <1>5 DEF EndGroupContext, InterruptReachesAll
<1>6. CASE ParentInterrupt
  BY <1>5, <1>6 DEF ParentInterrupt
<1>7. CASE Stop
  <2>1. CASE stopped
    BY <1>0, <1>s, <1>7, <2>1 DEF Stop, group
  <2>. QED
    BY <1>5, <1>7, <2>1 DEF Stop
<1>8. ASSUME \/ \E l \in Limits, q \in Queues : Configure(l, q)
             \/ \E i \in TaskIds : CancelLookup(i)
             \/ \E c \in Callers : ShutdownReturn(c)
             \/ UNCHANGED vars
      PROVE  Calm
  BY <1>s, <1>8 DEF Configure, CancelLookup, ShutdownReturn, vars, group
<1>. QED
  BY <1>0, <1>1, <1>2, <1>3, <1>4, <1>6, <1>7, <1>8
     DEF Next, Cancel, Shutdown, InterruptReachesAll

LEMMA InterruptReached == Spec => []InterruptReachesAll
<1>1. Init => InterruptReachesAll
  BY DEF Init, InterruptReachesAll
<1>2. IInv /\ InterruptReachesAll /\ [Next]_vars => InterruptReachesAll'
  BY InterruptReachesAllKeeps, RunnerAssumption
<1>. QED
  BY <1>1, <1>2, Inductive, PTL DEF Spec

LEMMA PoolInitial == Init => Pool!PoolInit
<1> SUFFICES ASSUME Init PROVE Pool!PoolInit
  OBVIOUS
<1>1. In("slotted") = {}
  BY DEF Init, In
<1>. QED
  BY <1>1 DEF Init, Pool!PoolInit

(* Every step takes a slot, returns one, resizes, closes, or shows nothing. *)
LEMMA PoolStep ==
  RunnerAssumption /\ IInv /\ InterruptReachesAll /\ [Next]_vars
     => [Pool!PoolNext]_(Pool!poolVars)
<1> SUFFICES ASSUME RunnerAssumption, IInv, InterruptReachesAll, [Next]_vars
             PROVE  Pool!PoolNext \/ UNCHANGED Pool!poolVars
  OBVIOUS
<1> DEFINE Still == In("slotted")' = In("slotted") /\ UNCHANGED <<limit, interrupted>>
<1>0. /\ TypeOK /\ (HasSlot => limit = 0 \/ Cardinality(In("slotted")) < limit)
      /\ (Still => UNCHANGED Pool!poolVars)
  BY DEF IInv, CountersMatch, HasSlot, Pool!poolVars
<1>s. UNCHANGED phase => In("slotted")' = In("slotted")
  BY DEF In
<1>c. Pool!Cardinality(In("slotted")) = Cardinality(In("slotted"))
  BY Zenon DEF Pool!Cardinality, Cardinality
<1>1. ASSUME NEW w \in Workers, NEW i \in TaskIds \cup {NoId}, StartRunning(w, i)
      PROVE  Pool!Take(w)
  <2>1. In("slotted")' = In("slotted") \cup {w} /\ w \notin In("slotted")
    BY <1>0, <1>1, MovePhase DEF StartRunning, Launch, Phases
  <2>. QED
    BY <1>0, <1>c, <1>1, <2>1 DEF StartRunning, Launch, Admits, Pool!Take, sizes, group
<1>2. ASSUME NEW w \in Workers, NEW i \in TaskIds \cup {NoId}, StartQueued(w, i)
      PROVE  Still
  <2>1. In("slotted")' = In("slotted")
    BY <1>0, <1>2, MovePhase DEF StartQueued, Launch, Phases
  <2>. QED
    BY <1>2, <2>1 DEF StartQueued, Launch, sizes, group
<1>3. ASSUME NEW w \in Workers, TakeSlot(w)
      PROVE  Pool!Take(w)
  <2>1. In("slotted")' = In("slotted") \cup {w} /\ w \notin In("slotted")
    BY <1>0, <1>3, MovePhase DEF TakeSlot, Awake, LeaveQueue, Phases
  <2>2. ~interrupted
    BY <1>3 DEF TakeSlot, Awake, Live, In, InterruptReachesAll
  <2>. QED
    BY <1>0, <1>c, <1>3, <2>1, <2>2 DEF TakeSlot, LeaveQueue, Pool!Take, sizes, group
<1>4. ASSUME NEW w \in Workers, GiveUp(w) \/ Park(w)
      PROVE  Still
  <2>1. CASE GiveUp(w)
    <3>1. In("slotted")' = In("slotted")
      BY <1>0, <2>1, MovePhase DEF GiveUp, Awake, LeaveQueue, Phases
    <3>. QED
      BY <2>1, <3>1 DEF GiveUp, LeaveQueue, sizes, group
  <2>2. CASE Park(w)
    BY <1>s, <2>2 DEF Park, sizes, group
  <2>. QED
    BY <1>4, <2>1, <2>2
<1>5. ASSUME NEW w \in Workers, Finish(w)
      PROVE  Pool!Return(w) \/ Still
  <2>1. CASE phase[w] = "slotted"
    <3>1. In("slotted")' = In("slotted") \ {w} /\ w \in In("slotted")
      BY <1>0, <1>5, <2>1, MovePhase DEF Finish, Phases
    <3>. QED
      BY <1>5, <3>1 DEF Finish, Pool!Return, sizes
  <2>2. CASE phase[w] = "unslotted"
    <3>1. In("slotted")' = In("slotted")
      BY <1>0, <1>5, <2>2, MovePhase DEF Finish, Phases
    <3>. QED
      BY <1>5, <3>1 DEF Finish, sizes
  <2>. QED
    BY <1>5, <2>1, <2>2 DEF Finish
<1>6. ASSUME NEW l \in Limits, NEW q \in Queues, Configure(l, q)
      PROVE  Pool!Resize(l)
  BY <1>s, <1>6 DEF Configure, Pool!Resize, group
<1>7. ASSUME EndGroupContext, UNCHANGED <<phase, limit>>
      PROVE  Pool!Close
  BY <1>s, <1>7 DEF EndGroupContext, Pool!Close
<1>8. CASE ParentInterrupt
  BY <1>7, <1>8 DEF ParentInterrupt, sizes, Pool!PoolNext
<1>9. CASE Stop
  <2>1. CASE stopped
    BY <1>s, <1>9, <2>1, <1>0 DEF Stop, group, sizes
  <2>. QED
    BY <1>7, <1>9, <2>1 DEF Stop, sizes, Pool!PoolNext
<1>10. ASSUME \/ \E w \in Workers : CancelCall(w)
              \/ \E i \in TaskIds : CancelLookup(i)
              \/ \E c \in Callers : ShutdownReturn(c)
              \/ UNCHANGED vars
       PROVE  Still
  BY <1>s, <1>10 DEF CancelCall, CancelLookup, ShutdownReturn, vars, group, sizes
<1>. QED
  BY <1>0, <1>1, <1>2, <1>3, <1>4, <1>5, <1>6, <1>8, <1>9, <1>10
     DEF Next, Wait, Cancel, Shutdown, Pool!PoolNext

(* The group implements the slot pool: slots are handed out only under the
   limit in force and never after the group's context has ended. *)
THEOREM GroupImplementsPool == Spec => ImplementsPool
<1>1. Init => Pool!PoolInit
  BY PoolInitial
<1>2. IInv /\ InterruptReachesAll /\ [Next]_vars => [Pool!PoolNext]_(Pool!poolVars)
  BY PoolStep, RunnerAssumption
<1>. QED
  BY <1>1, <1>2, Inductive, InterruptReached, PTL DEF Spec, ImplementsPool, Pool!PoolSpec
=============================================================================

------------------------- MODULE MutationLeaseProofs -------------------------
(***************************************************************************)
(* Proofs about MutationLease, for any calls, requests, resources and ways *)
(* to resolve one into the other, any TTL, margins and clock, and a        *)
(* database that may fail: what a guarded context believes is fenced by    *)
(* the rows, calls in force exclude each other by what they leased and by  *)
(* the hosts and identities their requests resolve to now, no row is       *)
(* stolen or revived, and the guard implements LeaseLock.                  *)
(***************************************************************************)
EXTENDS MutationLease, TLAPS

Leasing == {c \in Calls : pc[c] \in {"leased", "confirming", "granting", "held", "stopping"}}

(* The loop runs, and has a renewal in flight, only under a granted lease;
   only automatic calls have yet to register. *)
LoopInv ==
    \A c \in Calls :
        /\ renewing[c] => pc[c] \in {"granting", "held", "stopping"}
        /\ attempt[c].state # "none" => renewing[c]
        /\ pc[c] = "granting" => c \in Automatic

(* No deadline is further off than a lease taken now, nor than the one the
   renewal in flight would give. *)
OrderInv ==
    \A c \in Calls :
        /\ deadline[c] <= clock + TTL
        /\ attempt[c].state # "none" =>
              attempt[c].now <= clock /\ deadline[c] <= attempt[c].now + TTL

RowsInv == \A r \in Resources : rows[r].owner = NoCall => rows[r].expires = 0

(* DeadlineFenced from the transaction on, whether or not the call has been
   granted or cancelled since. *)
FenceInv ==
    \A c \in Leasing, r \in Resources :
        r \in want[c] /\ clock < Effective(c) =>
            rows[r].owner = c /\ rows[r].expires >= Effective(c)

(* An answer on its way that promises more time has extended the rows. *)
AnswerInv ==
    \A c \in Calls, r \in Resources :
        /\ attempt[c].state \in {"returned", "published"}
        /\ attempt[c].result = "renewed"
        /\ r \in want[c] /\ rows[r].owner = c
        => rows[r].expires >= attempt[c].now + TTL

(* A granted request still resolves to the hosts and identities that were leased
   for it. *)
CurrentInv ==
    \A c \in Guarded :
        clock < Effective(c) => Hosts(want[c]) = Hosts(resolution[RequestOf[c]])

Inv == TypeOK /\ LoopInv /\ OrderInv /\ RowsInv /\ FenceInv /\ AnswerInv /\ CurrentInv
-----------------------------------------------------------------------------
(* Requests resolve to some resources, whichever way. *)
LEMMA ResolutionsType ==
  ASSUME NEW f \in Resolutions, NEW q \in Requests
  PROVE  f[q] \subseteq Resources /\ f[q] # {}
BY LeaseAssumption

(* The inductive invariant holds before the first call. *)
LEMMA InitInv == Init => Inv
BY LeaseAssumption DEF Init, Inv, TypeOK, LoopInv, OrderInv, RowsInv, FenceInv, AnswerInv,
   CurrentInv, Guarded, Leasing, Effective, Acceptable, NoRow, NoAttempt, Phases, Attempts

USE DEF Go

(* The rows that transactions write are rows. *)
LEMMA RowTypes ==
  ASSUME TypeOK, NEW c \in Calls
  PROVE  /\ Taken(c) \in [Resources -> [owner: Calls \cup {NoCall}, expires: Nat]]
         /\ Freed(c) \in [Resources -> [owner: Calls \cup {NoCall}, expires: Nat]]
         /\ Renewed(c) \in [Resources -> [owner: Calls \cup {NoCall}, expires: Nat]]
<1>1. Taken(c) \in [Resources -> [owner: Calls \cup {NoCall}, expires: Nat]]
  BY DEF TypeOK, Taken
<1>2. Freed(c) \in [Resources -> [owner: Calls \cup {NoCall}, expires: Nat]]
  BY DEF TypeOK, Freed, NoRow
<1>3. attempt[c].now + TTL \in Nat
  BY LeaseAssumption DEF TypeOK, Attempts
<1>4. ASSUME NEW r \in Resources
      PROVE  [rows[r] EXCEPT !.expires = attempt[c].now + TTL]
                \in [owner: Calls \cup {NoCall}, expires: Nat]
  BY <1>3 DEF TypeOK
<1>5. Renewed(c) \in [Resources -> [owner: Calls \cup {NoCall}, expires: Nat]]
  BY <1>4 DEF TypeOK, Renewed
<1> QED
  BY <1>1, <1>2, <1>5

(* The attempts that the loop writes are attempts. *)
LEMMA AttemptTypes ==
  ASSUME TypeOK, NEW c \in Calls
  PROVE  /\ NoAttempt \in Attempts
         /\ [NoAttempt EXCEPT !.state = "calling", !.now = clock] \in Attempts
         /\ \A x \in {"renewed", "refused", "error"} :
               [attempt[c] EXCEPT !.state = "returned", !.result = x] \in Attempts
         /\ [attempt[c] EXCEPT !.state = "published", !.completed = clock] \in Attempts
         /\ \A b \in BOOLEAN :
               [attempt[c] EXCEPT !.state = "applied", !.accepted = b] \in Attempts
         /\ Effective(c) \in Nat
         /\ Accepted(c) \in BOOLEAN
<1> attempt[c] \in Attempts /\ clock \in Nat /\ deadline[c] \in Nat
  BY DEF TypeOK
<1>1. NoAttempt \in Attempts /\ [NoAttempt EXCEPT !.state = "calling", !.now = clock] \in Attempts
  BY DEF NoAttempt, Attempts
<1>2. ASSUME NEW x \in {"renewed", "refused", "error"}
      PROVE  [attempt[c] EXCEPT !.state = "returned", !.result = x] \in Attempts
  BY DEF Attempts
<1>3. [attempt[c] EXCEPT !.state = "published", !.completed = clock] \in Attempts
  BY DEF Attempts
<1>4. ASSUME NEW b \in BOOLEAN
      PROVE  [attempt[c] EXCEPT !.state = "applied", !.accepted = b] \in Attempts
  BY DEF Attempts
<1>5. Effective(c) \in Nat
  BY LeaseAssumption DEF Effective, Attempts
<1>6. Accepted(c) \in BOOLEAN
  BY DEF Accepted, Acceptable, Attempts
<1> QED
  BY <1>1, <1>2, <1>3, <1>4, <1>5, <1>6

(* Every step keeps the types. *)
LEMMA TypeStep ==
  ASSUME TypeOK, LoopInv, [Next]_vars
  PROVE  TypeOK'
<1> USE DEF TypeOK, renewal
<1>1. ASSUME NEW c \in Calls, Resolve(c) PROVE TypeOK'
  BY <1>1, LeaseAssumption, ResolutionsType DEF Resolve, Phases
<1>2. ASSUME NEW c \in Calls, Stamp(c) PROVE TypeOK'
  BY <1>2, LeaseAssumption DEF Stamp, Phases
<1>3. ASSUME NEW c \in Calls, TxAcquire(c) \/ TxBlocked(c) \/ TxFails(c) PROVE TypeOK'
  <2>1. rows' \in [Resources -> [owner: Calls \cup {NoCall}, expires: Nat]]
    BY <1>3, RowTypes DEF TxAcquire, TxBlocked, TxFails
  <2>2. pc' \in [Calls -> Phases]
    BY <1>3 DEF TxAcquire, TxBlocked, TxFails, Phases
  <2> QED
    BY <1>3, <2>1, <2>2 DEF TxAcquire, TxBlocked, TxFails
<1>4. ASSUME NEW c \in Calls, CheckMargin(c) \/ ConfirmFails(c) PROVE TypeOK'
  <2>1. rows' \in {rows, Freed(c)}
    BY <1>4 DEF CheckMargin, ConfirmFails, GiveBack
  <2>2. rows' \in [Resources -> [owner: Calls \cup {NoCall}, expires: Nat]]
    BY <2>1, RowTypes
  <2>3. pc' \in [Calls -> Phases]
    BY <1>4 DEF CheckMargin, ConfirmFails, GiveBack, Phases
  <2>4. UNCHANGED <<clock, resolution, want, deadline, renewal, cancelled, registry>>
    BY <1>4 DEF CheckMargin, ConfirmFails, GiveBack
  <2> QED
    BY <2>2, <2>3, <2>4
<1>5. ASSUME NEW c \in Calls, Confirm(c) PROVE TypeOK'
  BY <1>5 DEF Confirm, Phases
<1>6. ASSUME NEW c \in Calls, Register(c) PROVE TypeOK'
  <2>1. c \in Automatic
    BY <1>6 DEF Register, LoopInv
  <2>2. pc' \in [Calls -> Phases]
    BY <1>6 DEF Register, Phases
  <2>3. registry' \subseteq Automatic
    BY <1>6, <2>1 DEF Register
  <2> QED
    BY <1>6, <2>2, <2>3 DEF Register
<1>7. ASSUME NEW c \in Calls, ParentCancel(c) PROVE TypeOK'
  BY <1>7 DEF ParentCancel, Phases
<1>8. ASSUME NEW c \in Calls, RenewBegin(c) PROVE TypeOK'
  BY <1>8, AttemptTypes DEF RenewBegin, Attempt, LoopOnly
<1>9. ASSUME NEW c \in Calls, RenewTx(c) PROVE TypeOK'
  BY <1>9, RowTypes, AttemptTypes DEF RenewTx, Attempt, LoopOnly
<1>10. ASSUME NEW c \in Calls, RenewPublish(c) PROVE TypeOK'
  BY <1>10, AttemptTypes DEF RenewPublish, Attempt, LoopOnly
<1>11. ASSUME NEW c \in Calls, RenewFinish(c) PROVE TypeOK'
  BY <1>11, AttemptTypes DEF RenewFinish, Attempt, LoopOnly, LoopContextDone
<1>12. ASSUME NEW c \in Calls, RenewStop(c) PROVE TypeOK'
  BY <1>12 DEF RenewStop, LoopOnly
<1>13. ASSUME NEW c \in Calls, WatchExpiry(c) PROVE TypeOK'
  <2>1. attempt' \in [Calls -> Attempts]
    <3>1. [attempt[c] EXCEPT !.state = "applied", !.accepted = Accepted(c)] \in Attempts
      BY AttemptTypes
    <3> QED
      BY <1>13, <3>1 DEF WatchExpiry, Attempt
  <2>2. deadline' \in [Calls -> Nat]
    BY <1>13, AttemptTypes DEF WatchExpiry
  <2>3. cancelled' \in [Calls -> BOOLEAN]
    BY <1>13 DEF WatchExpiry
  <2> QED
    BY <1>13, <2>1, <2>2, <2>3 DEF WatchExpiry, LoopOnly
<1>14. ASSUME NEW c \in Calls, ReleaseBegin(c) PROVE TypeOK'
  BY <1>14 DEF ReleaseBegin, Phases
<1>15. ASSUME NEW c \in Calls, ReleaseTx(c) PROVE TypeOK'
  BY <1>15, RowTypes DEF ReleaseTx, Phases
<1>16. ASSUME NEW f \in Resolutions, Reidentify(f) \/ Attach(f) PROVE TypeOK'
  BY <1>16 DEF Reidentify, Attach
<1>17. CASE Tick
  BY <1>17 DEF Tick
<1>18. CASE UNCHANGED vars
  BY <1>18 DEF vars
<1> QED
  BY <1>1, <1>2, <1>3, <1>4, <1>5, <1>6, <1>7, <1>8, <1>9, <1>10, <1>11, <1>12, <1>13, <1>14,
     <1>15, <1>16, <1>17, <1>18 DEF Next, Acquiring, Renewing

(* Every step keeps the loop within a granted lease. *)
LEMMA LoopStep ==
  ASSUME Inv, [Next]_vars
  PROVE  LoopInv'
<1> USE DEF Inv, TypeOK, LoopInv, renewal
<1>1. ASSUME NEW c \in Calls, Acquiring(c) \/ ParentCancel(c) \/ ReleaseBegin(c) \/ ReleaseTx(c)
      PROVE  LoopInv'
  <2>1. UNCHANGED attempt
    BY <1>1 DEF Acquiring, Resolve, Stamp, TxAcquire, TxBlocked, TxFails, CheckMargin, Confirm,
       ConfirmFails, Register, GiveBack, ParentCancel, ReleaseBegin, ReleaseTx
  <2>2. CASE Confirm(c)
    BY <2>1, <2>2 DEF Confirm
  <2>3. CASE ~Confirm(c)
    <3>1. UNCHANGED renewing
      BY <1>1, <2>3 DEF Acquiring, Resolve, Stamp, TxAcquire, TxBlocked, TxFails, CheckMargin,
         ConfirmFails, Register, GiveBack, ParentCancel, ReleaseBegin, ReleaseTx
    <3>2. \E to \in Phases \ {"granting"} :
              /\ pc' = [pc EXCEPT ![c] = to] \/ pc' = pc
              /\ renewing[c] => pc'[c] \in {"granting", "held", "stopping"}
      BY <1>1, <2>3 DEF Acquiring, Resolve, Stamp, TxAcquire, TxBlocked, TxFails, CheckMargin,
         ConfirmFails, Register, GiveBack, ParentCancel, ReleaseBegin, ReleaseTx, Phases
    <3> QED
      BY <2>1, <3>1, <3>2
  <2> QED
    BY <2>2, <2>3
<1>2. ASSUME NEW c \in Calls, RenewBegin(c) \/ Renewing(c) \/ WatchExpiry(c)
      PROVE  LoopInv'
  <2>1. UNCHANGED pc
    BY <1>2 DEF RenewBegin, Renewing, RenewTx, RenewPublish, RenewFinish, RenewStop, WatchExpiry,
       LoopOnly
  <2>2. CASE RenewBegin(c)
    BY <2>1, <2>2 DEF RenewBegin, Attempt, NoAttempt
  <2>3. CASE RenewTx(c) \/ RenewPublish(c) \/ WatchExpiry(c)
    BY <2>1, <2>3 DEF RenewTx, RenewPublish, WatchExpiry, Attempt
  <2>4. CASE RenewFinish(c)
    BY <2>1, <2>4 DEF RenewFinish, Attempt, NoAttempt
  <2>5. CASE RenewStop(c)
    BY <2>1, <2>5 DEF RenewStop
  <2> QED
    BY <1>2, <2>2, <2>3, <2>4, <2>5 DEF Renewing
<1>3. ASSUME NEW f \in Resolutions, Reidentify(f) \/ Attach(f) PROVE LoopInv'
  BY <1>3 DEF Reidentify, Attach
<1>4. CASE Tick
  BY <1>4 DEF Tick
<1>5. CASE UNCHANGED vars
  BY <1>5 DEF vars
<1> QED
  BY <1>1, <1>2, <1>3, <1>4, <1>5 DEF Next

(* What a step does to one row: nothing; or its transaction takes it, when no
   other call has it; or its owner frees it, and is no longer leasing; or its
   owner renews it. *)
Takes(c, r) ==
    /\ pc[c] = "calling" /\ pc'[c] \in {"leased", "failed"}
    /\ r \in want[c] /\ ~Blocked(c) /\ rows' = Taken(c)
    /\ UNCHANGED clock
Frees(c, r) == rows[r].owner = c /\ c \notin Leasing' /\ rows'[r] = NoRow
Extends(c, r) ==
    /\ RenewTx(c) /\ rows[r].owner = c
    /\ rows'[r] = [rows[r] EXCEPT !.expires = attempt[c].now + TTL]

(* Every step of the guard does one of these to each row. *)
LEMMA RowStep ==
  ASSUME Inv, [Next]_vars, NEW r \in Resources
  PROVE  \/ rows'[r] = rows[r]
         \/ \E c \in Calls : Takes(c, r) \/ Frees(c, r) \/ Extends(c, r)
<1> USE DEF Inv, TypeOK
<1>1. ASSUME NEW c \in Calls, TxAcquire(c) \/ TxFails(c), rows' = Taken(c)
      PROVE  rows'[r] = rows[r] \/ Takes(c, r)
  BY <1>1 DEF TxAcquire, TxFails, Taken, Takes
<1>2. ASSUME NEW c \in Calls, pc'[c] \in {"idle", "trying", "failed", "done"}, rows' = Freed(c)
      PROVE  rows'[r] = rows[r] \/ Frees(c, r)
  BY <1>2 DEF Freed, Mine, Frees, Leasing
<1>3. ASSUME NEW c \in Calls, RenewTx(c), Renewable(c), rows' = Renewed(c)
      PROVE  rows'[r] = rows[r] \/ Extends(c, r)
  BY <1>3 DEF Renewable, Renewed, Extends
<1>4. ASSUME NEW c \in Calls, Acquiring(c)
      PROVE  rows'[r] = rows[r] \/ Takes(c, r) \/ Frees(c, r)
  <2>1. CASE TxAcquire(c) \/ TxFails(c)
    BY <1>1, <2>1 DEF TxAcquire, TxFails
  <2>2. CASE CheckMargin(c) \/ ConfirmFails(c)
    BY <1>2, <2>2 DEF CheckMargin, ConfirmFails, GiveBack
  <2>3. CASE Resolve(c) \/ Stamp(c) \/ TxBlocked(c) \/ Confirm(c) \/ Register(c)
    BY <2>3 DEF Resolve, Stamp, TxBlocked, Confirm, Register
  <2> QED
    BY <1>4, <2>1, <2>2, <2>3 DEF Acquiring
<1>5. ASSUME NEW c \in Calls, ReleaseTx(c)
      PROVE  rows'[r] = rows[r] \/ Frees(c, r)
  BY <1>2, <1>5 DEF ReleaseTx
<1>6. ASSUME NEW c \in Calls, RenewTx(c)
      PROVE  rows'[r] = rows[r] \/ Extends(c, r)
  BY <1>3, <1>6 DEF RenewTx
<1>7. ASSUME NEW c \in Calls,
             \/ ParentCancel(c) \/ RenewBegin(c) \/ RenewPublish(c) \/ RenewFinish(c)
             \/ RenewStop(c) \/ WatchExpiry(c) \/ ReleaseBegin(c)
      PROVE  rows'[r] = rows[r]
  BY <1>7 DEF ParentCancel, RenewBegin, RenewPublish, RenewFinish, RenewStop, WatchExpiry,
     ReleaseBegin
<1>8. ASSUME (\E f \in Resolutions : Reidentify(f) \/ Attach(f)) \/ Tick \/ UNCHANGED vars
      PROVE  rows'[r] = rows[r]
  BY <1>8 DEF Reidentify, Attach, Tick, vars
<1> QED
  BY <1>4, <1>5, <1>6, <1>7, <1>8 DEF Next, Renewing

(* Only its own loop, watchdog and clock reading touch a call's deadline. *)
LEMMA DeadlineSteps ==
  ASSUME TypeOK, [Next]_vars, NEW c \in Calls
  PROVE  \/ attempt'[c] = attempt[c] /\ deadline'[c] = deadline[c]
         \/ Stamp(c) \/ RenewBegin(c) \/ RenewTx(c) \/ RenewPublish(c)
         \/ RenewFinish(c) \/ WatchExpiry(c)
<1> USE DEF TypeOK, renewal
<1>1. ASSUME NEW d \in Calls, d # c,
             \/ RenewBegin(d) \/ RenewTx(d) \/ RenewPublish(d) \/ RenewFinish(d)
             \/ WatchExpiry(d) \/ Stamp(d)
      PROVE  attempt'[c] = attempt[c] /\ deadline'[c] = deadline[c]
  <2>1. CASE RenewBegin(d) \/ RenewPublish(d) \/ Stamp(d)
    BY <1>1, <2>1 DEF RenewBegin, RenewPublish, Stamp, Attempt
  <2>2. CASE RenewTx(d)
    BY <1>1, <2>2 DEF RenewTx, Attempt
  <2>3. CASE RenewFinish(d)
    BY <1>1, <2>3 DEF RenewFinish, Attempt
  <2>4. CASE WatchExpiry(d)
    BY <1>1, <2>4 DEF WatchExpiry, Attempt
  <2> QED
    BY <1>1, <2>1, <2>2, <2>3, <2>4
<1>2. ASSUME NEW d \in Calls,
             \/ Resolve(d) \/ TxAcquire(d) \/ TxBlocked(d) \/ TxFails(d) \/ CheckMargin(d)
             \/ Confirm(d) \/ ConfirmFails(d) \/ Register(d) \/ ParentCancel(d) \/ RenewStop(d)
             \/ ReleaseBegin(d) \/ ReleaseTx(d)
      PROVE  attempt'[c] = attempt[c] /\ deadline'[c] = deadline[c]
  BY <1>2 DEF Resolve, TxAcquire, TxBlocked, TxFails, CheckMargin, GiveBack, Confirm,
     ConfirmFails, Register, ParentCancel, RenewStop, ReleaseBegin, ReleaseTx
<1>3. ASSUME (\E f \in Resolutions : Reidentify(f) \/ Attach(f)) \/ Tick \/ UNCHANGED vars
      PROVE  attempt'[c] = attempt[c] /\ deadline'[c] = deadline[c]
  BY <1>3 DEF Reidentify, Attach, Tick, vars
<1> QED
  BY <1>1, <1>2, <1>3 DEF Next, Acquiring, Renewing

(* A deadline moves only when a renewal is seen before it has passed; what the
   loop and the watchdog make of that later moves nothing. *)
Extended(c) ==
    /\ RenewPublish(c)
    /\ attempt[c].result = "renewed"
    /\ clock < Effective(c)
    /\ Effective(c)' = attempt[c].now + TTL

(* No other step moves what a call that has read the clock believes. *)
LEMMA EffectiveStep ==
  ASSUME Inv, [Next]_vars, NEW c \in Calls, pc[c] # "trying"
  PROVE  Effective(c)' = Effective(c) \/ Extended(c)
<1> USE DEF Inv, TypeOK, renewal
<1>1. CASE attempt'[c] = attempt[c] /\ deadline'[c] = deadline[c]
  BY <1>1 DEF Effective, Acceptable
<1>2. CASE RenewBegin(c) \/ RenewTx(c)
  <2>1. attempt[c].state # "published" /\ deadline'[c] = deadline[c]
    BY <1>2 DEF RenewBegin, RenewTx
  <2>2. CASE RenewBegin(c)
    <3>1. attempt'[c] = attempt[c] \/ attempt'[c].state = "calling"
      <4>1. attempt' = attempt \/ attempt' = [attempt EXCEPT ![c] = [NoAttempt EXCEPT !.state = "calling", !.now = clock]]
        BY <2>2 DEF RenewBegin, Attempt
      <4>2. [NoAttempt EXCEPT !.state = "calling", !.now = clock].state = "calling" /\ c \in DOMAIN attempt
        BY DEF NoAttempt
      <4> QED
        BY <4>1, <4>2
    <3> QED
      BY <2>1, <3>1 DEF Effective, Acceptable
  <2>3. CASE RenewTx(c)
    <3>1. \E x \in {"renewed", "refused", "error"} :
             attempt'[c] = [attempt[c] EXCEPT !.state = "returned", !.result = x]
      BY <2>3 DEF RenewTx, Attempt
    <3>2. attempt'[c].state = "returned"
      BY <3>1 DEF Attempts
    <3> QED
      BY <2>1, <3>2 DEF Effective, Acceptable
  <2> QED
    BY <1>2, <2>2, <2>3
<1>3. CASE RenewPublish(c)
  <2>1. /\ attempt[c].state = "returned" /\ deadline'[c] = deadline[c]
        /\ attempt'[c] = [attempt[c] EXCEPT !.state = "published", !.completed = clock]
    BY <1>3 DEF RenewPublish, Attempt
  <2>2. /\ attempt'[c].state = "published" /\ attempt'[c].completed = clock
        /\ attempt'[c].result = attempt[c].result /\ attempt'[c].now = attempt[c].now
    BY <2>1 DEF Attempts
  <2>3. Effective(c) = deadline[c]
    BY <2>1 DEF Effective, Acceptable
  <2>4. Acceptable(c)' <=> attempt[c].result = "renewed" /\ clock < deadline[c]
    BY <2>1, <2>2 DEF Acceptable
  <2>5. CASE Acceptable(c)'
    <3>1. Effective(c)' = attempt[c].now + TTL
      BY <2>2, <2>5 DEF Effective
    <3> QED
      BY <1>3, <2>3, <2>4, <2>5, <3>1 DEF Extended
  <2>6. CASE ~Acceptable(c)'
    BY <2>1, <2>3, <2>6 DEF Effective
  <2> QED
    BY <2>5, <2>6
<1>4. CASE RenewFinish(c)
  BY <1>4 DEF RenewFinish, Attempt, Effective, Acceptable, NoAttempt
<1>5. CASE WatchExpiry(c)
  <2>1. deadline'[c] = Effective(c)
    BY <1>5 DEF WatchExpiry
  <2>2. attempt'[c].state # "published"
    <3>1. CASE attempt[c].state = "published"
      <4>1. attempt'[c] = [attempt[c] EXCEPT !.state = "applied", !.accepted = Accepted(c)]
        BY <1>5, <3>1 DEF WatchExpiry, Attempt
      <4> QED
        BY <4>1 DEF Attempts
    <3>2. CASE attempt[c].state # "published"
      BY <1>5, <3>2 DEF WatchExpiry
    <3> QED
      BY <3>1, <3>2
  <2> QED
    BY <2>1, <2>2 DEF Effective, Acceptable
<1> QED
  BY <1>1, <1>2, <1>3, <1>4, <1>5, DeadlineSteps DEF Stamp

(* The clock does not go back. *)
LEMMA ClockStep ==
  ASSUME Inv, [Next]_vars
  PROVE  clock' \in Nat /\ clock <= clock'
<1> clock \in Nat
  BY DEF Inv, TypeOK
<1>1. clock' = clock \/ Tick
  BY DEF Next, Acquiring, Resolve, Stamp, TxAcquire, TxBlocked, TxFails, CheckMargin, Confirm,
     ConfirmFails, Register, GiveBack, ParentCancel, ReleaseBegin, ReleaseTx, Renewing,
     RenewBegin, RenewTx, RenewPublish, RenewFinish, RenewStop, WatchExpiry, LoopOnly,
     Reidentify, Attach, vars
<1> QED
  BY <1>1 DEF Tick

(* Every step keeps deadlines within a lease from now. *)
LEMMA OrderStep ==
  ASSUME Inv, [Next]_vars
  PROVE  OrderInv'
<1> SUFFICES ASSUME NEW c \in Calls
             PROVE  /\ deadline'[c] <= clock' + TTL
                    /\ attempt'[c].state # "none" =>
                          attempt'[c].now <= clock' /\ deadline'[c] <= attempt'[c].now + TTL
  BY DEF OrderInv
<1> attempt[c] \in Attempts /\ clock \in Nat /\ deadline[c] \in Nat /\ TTL \in Nat
  BY LeaseAssumption DEF Inv, TypeOK
<1> USE DEF Inv, TypeOK, renewal
<1>1. clock' \in Nat /\ clock <= clock'
  BY ClockStep
<1>2. /\ Effective(c) \in Nat /\ attempt[c].now \in Nat
      /\ deadline[c] <= clock + TTL /\ Effective(c) <= clock + TTL
      /\ attempt[c].state # "none" =>
            /\ attempt[c].now <= clock
            /\ deadline[c] <= attempt[c].now + TTL /\ Effective(c) <= attempt[c].now + TTL
  <2>1. Effective(c) \in Nat /\ attempt[c].now \in Nat
    <3>1. Effective(c) \in Nat
      BY AttemptTypes
    <3>2. attempt[c].now \in Nat
      BY DEF Attempts
    <3> QED
      BY <3>1, <3>2
  <2>2. /\ deadline[c] <= clock + TTL
        /\ attempt[c].state # "none" =>
              attempt[c].now <= clock /\ deadline[c] <= attempt[c].now + TTL
    BY DEF OrderInv
  <2>3. \/ Effective(c) = deadline[c]
        \/ Effective(c) = attempt[c].now + TTL /\ attempt[c].state # "none"
    BY DEF Effective, Acceptable
  <2> QED
    BY <2>1, <2>2, <2>3
<1>3. ASSUME attempt'[c] = attempt[c], deadline'[c] \in {deadline[c], Effective(c)}
      PROVE  /\ deadline'[c] <= clock' + TTL
             /\ attempt'[c].state # "none" =>
                   attempt'[c].now <= clock' /\ deadline'[c] <= attempt'[c].now + TTL
  BY <1>1, <1>2, <1>3
<1>4. CASE Stamp(c)
  <2>1. attempt'[c].state = "none"
    BY <1>4 DEF Stamp, LoopInv
  <2>2. deadline'[c] = clock + TTL /\ clock' = clock
    BY <1>4 DEF Stamp
  <2> QED
    BY <2>1, <2>2
<1>5. CASE RenewBegin(c)
  <2>1. deadline'[c] = deadline[c] /\ clock' = clock
    BY <1>5 DEF RenewBegin, LoopOnly
  <2>2. attempt'[c] = attempt[c] \/ attempt'[c].now = clock
    BY <1>5 DEF RenewBegin, Attempt, NoAttempt
  <2> QED
    BY <1>2, <1>3, <2>1, <2>2
<1>6. CASE RenewTx(c) \/ RenewPublish(c)
  <2>1. /\ deadline'[c] = deadline[c] /\ clock' = clock
        /\ attempt[c].state # "none"
    BY <1>6 DEF RenewTx, RenewPublish, LoopOnly
  <2>2. CASE RenewTx(c)
    <3>1. \E x \in {"renewed", "refused", "error"} :
             attempt'[c] = [attempt[c] EXCEPT !.state = "returned", !.result = x]
      BY <2>2 DEF RenewTx, Attempt
    <3>2. attempt'[c].now = attempt[c].now
      BY <3>1 DEF Attempts
    <3> QED
      BY <1>2, <2>1, <3>2
  <2>3. CASE RenewPublish(c)
    <3>1. attempt'[c] = [attempt[c] EXCEPT !.state = "published", !.completed = clock]
      BY <2>3 DEF RenewPublish, Attempt
    <3>2. attempt'[c].now = attempt[c].now
      BY <3>1 DEF Attempts
    <3> QED
      BY <1>2, <2>1, <3>2
  <2> QED
    BY <1>6, <2>2, <2>3
<1>7. CASE RenewFinish(c)
  <2>1. deadline'[c] = Effective(c) /\ attempt'[c].state = "none"
    BY <1>7 DEF RenewFinish, Attempt, NoAttempt
  <2> QED
    BY <1>1, <1>2, <2>1
<1>8. CASE WatchExpiry(c)
  <2>1. deadline'[c] = Effective(c)
    BY <1>8 DEF WatchExpiry
  <2>2. CASE attempt[c].state = "published"
    <3>1. attempt'[c] = [attempt[c] EXCEPT !.state = "applied", !.accepted = Accepted(c)]
      BY <1>8, <2>2 DEF WatchExpiry, Attempt
    <3>2. attempt'[c].now = attempt[c].now
      BY <3>1 DEF Attempts
    <3> QED
      BY <1>1, <1>2, <2>1, <2>2, <3>2
  <2>3. CASE attempt[c].state # "published"
    <3>1. attempt'[c] = attempt[c]
      BY <1>8, <2>3 DEF WatchExpiry
    <3> QED
      BY <1>3, <2>1, <3>1
  <2> QED
    BY <2>2, <2>3
<1> QED
  BY <1>3, <1>4, <1>5, <1>6, <1>7, <1>8, DeadlineSteps DEF Inv

(* A freed row is empty. *)
LEMMA RowsInvStep ==
  ASSUME Inv, TypeOK', [Next]_vars
  PROVE  RowsInv'
<1> SUFFICES ASSUME NEW r \in Resources, rows'[r].owner = NoCall
             PROVE  rows'[r].expires = 0
  BY DEF RowsInv
<1>1. CASE rows'[r] = rows[r]
  BY <1>1 DEF Inv, RowsInv
<1>2. ASSUME NEW c \in Calls, Takes(c, r) PROVE FALSE
  BY <1>2, LeaseAssumption DEF Takes, Taken
<1>3. ASSUME NEW c \in Calls, Frees(c, r) PROVE rows'[r].expires = 0
  BY <1>3 DEF Frees, NoRow
<1>4. ASSUME NEW c \in Calls, Extends(c, r) PROVE FALSE
  BY <1>4, LeaseAssumption DEF Extends, Inv, TypeOK
<1> QED
  BY <1>1, <1>2, <1>3, <1>4, RowStep

(* A transaction takes no row whose expiry lies ahead from another call. *)
LEMMA TakesExpired ==
  ASSUME Inv, NEW c \in Calls, NEW r \in Resources, Takes(c, r), rows[r].expires > clock
  PROVE  rows[r].owner = c
<1> /\ rows[r].owner \in Calls \cup {NoCall} /\ rows[r].expires \in Nat /\ clock \in Nat
    /\ deadline[c] \in Nat /\ TTL \in Nat
  BY LeaseAssumption DEF Inv, TypeOK
<1>1. rows[r].owner # NoCall
  BY DEF Inv, RowsInv
<1>2. rows[r].expires > deadline[c] - TTL
  BY DEF Inv, OrderInv
<1> QED
  BY <1>1, <1>2 DEF Takes, Blocked

(* Nobody but the call itself changes what it wants, or takes it out of the
   phases before the transaction into those after it. *)
LEMMA OwnSteps ==
  ASSUME Inv, [Next]_vars, NEW c \in Calls
  PROVE  /\ pc[c] # "idle" => want'[c] = want[c]
         /\ c \in Leasing' /\ c \notin Leasing => TxAcquire(c)
         /\ c \in Guarded' /\ c \notin Guarded => Confirm(c)
<1> USE DEF Inv, TypeOK, Leasing, Guarded
<1>1. ASSUME NEW d \in Calls, Acquiring(d)
      PROVE  /\ pc[c] # "idle" => want'[c] = want[c]
             /\ c \in Leasing' /\ c \notin Leasing => TxAcquire(c)
             /\ c \in Guarded' /\ c \notin Guarded => Confirm(c)
  <2>1. CASE Resolve(d)
    BY <2>1 DEF Resolve
  <2>2. CASE Stamp(d) \/ TxBlocked(d) \/ TxFails(d)
    BY <2>2 DEF Stamp, TxBlocked, TxFails
  <2>3. CASE TxAcquire(d)
    BY <2>3 DEF TxAcquire
  <2>4. CASE CheckMargin(d) \/ ConfirmFails(d)
    BY <2>4 DEF CheckMargin, ConfirmFails, GiveBack
  <2>5. CASE Confirm(d)
    BY <2>5 DEF Confirm
  <2>6. CASE Register(d)
    BY <2>6 DEF Register
  <2> QED
    BY <1>1, <2>1, <2>2, <2>3, <2>4, <2>5, <2>6 DEF Acquiring
<1>2. ASSUME NEW d \in Calls, ParentCancel(d) \/ ReleaseBegin(d) \/ ReleaseTx(d)
      PROVE  want' = want /\ Leasing' \subseteq Leasing /\ Guarded' \subseteq Guarded
  BY <1>2 DEF ParentCancel, ReleaseBegin, ReleaseTx
<1>3. ASSUME \/ \E d \in Calls : RenewBegin(d) \/ Renewing(d) \/ WatchExpiry(d)
             \/ (\E f \in Resolutions : Reidentify(f) \/ Attach(f)) \/ Tick \/ UNCHANGED vars
      PROVE  want' = want /\ pc' = pc
  BY <1>3 DEF RenewBegin, Renewing, RenewTx, RenewPublish, RenewFinish, RenewStop, WatchExpiry,
     LoopOnly, Reidentify, Attach, Tick, vars
<1> QED
  BY <1>1, <1>2, <1>3 DEF Next

(* What is in the future stays, or was in the future when it was extended. *)
LEMMA NotRevived ==
  ASSUME Inv, [Next]_vars, NEW c \in Calls, pc[c] # "trying", clock' < Effective(c)'
  PROVE  clock < Effective(c)
<1> Effective(c) \in Nat /\ clock \in Nat
  BY AttemptTypes DEF Inv, TypeOK
<1> QED
  BY ClockStep, EffectiveStep DEF Extended

(* Every step keeps the fence: no other transaction takes a row before it
   expires, and the deadline moves only after the row. *)
LEMMA FenceStep ==
  ASSUME Inv, TypeOK', LoopInv', OrderInv', [Next]_vars
  PROVE  FenceInv'
<1> SUFFICES ASSUME NEW c \in Leasing', NEW r \in Resources,
                    r \in want'[c], clock' < Effective(c)'
             PROVE  rows'[r].owner = c /\ rows'[r].expires >= Effective(c)'
  BY DEF FenceInv
<1> c \in Calls
  BY DEF Leasing
<1>1. CASE c \notin Leasing
  <2>1. TxAcquire(c)
    BY <1>1, OwnSteps
  <2>2. rows'[r] = [owner |-> c, expires |-> deadline[c]]
    BY <2>1 DEF TxAcquire, Taken, Inv, TypeOK
  <2>3. attempt[c].state = "none"
    BY <2>1 DEF TxAcquire, Inv, LoopInv
  <2>4. Effective(c)' = deadline[c]
    BY <2>1, <2>3 DEF TxAcquire, renewal, Effective, Acceptable
  <2> QED
    BY <2>2, <2>4 DEF Inv, TypeOK
<1>2. CASE c \in Leasing
  <2>1. pc[c] # "trying" /\ pc[c] # "calling" /\ r \in want[c]
    BY <1>2, OwnSteps DEF Leasing
  <2>2. clock < Effective(c)
    BY <2>1, NotRevived
  <2>3. rows[r].owner = c /\ rows[r].expires >= Effective(c)
    BY <1>2, <2>1, <2>2 DEF Inv, FenceInv
  <2>4. CASE rows'[r] = rows[r]
    <3>1. CASE Effective(c)' = Effective(c)
      BY <2>3, <2>4, <3>1
    <3>2. CASE Extended(c)
      BY <2>1, <2>3, <2>4, <3>2 DEF Extended, RenewPublish, Inv, AnswerInv
    <3> QED
      BY <2>1, <3>1, <3>2, EffectiveStep
  <2>5. ASSUME NEW d \in Calls, Takes(d, r) PROVE FALSE
    <3>1. rows[r].expires > clock
      <4>1. rows[r].expires \in Nat /\ clock \in Nat /\ Effective(c) \in Nat
        BY AttemptTypes DEF Inv, TypeOK
      <4> QED
        BY <2>2, <2>3, <4>1
    <3>2. d = c
      BY <2>3, <2>5, <3>1, TakesExpired
    <3> QED
      BY <2>1, <2>5, <3>2 DEF Takes
  <2>6. ASSUME NEW d \in Calls, Frees(d, r) PROVE FALSE
    BY <2>3, <2>6 DEF Frees
  <2>7. ASSUME NEW d \in Calls, Extends(d, r)
        PROVE  rows'[r].owner = c /\ rows'[r].expires >= Effective(c)'
    <3>1. d = c
      BY <2>3, <2>7 DEF Extends
    <3>2. /\ rows'[r].owner = c /\ rows'[r].expires = attempt[c].now + TTL
          /\ RenewTx(c)
      BY <2>3, <2>7, <3>1 DEF Extends, Inv, TypeOK
    <3>3. attempt[c].state = "calling" /\ deadline[c] <= attempt[c].now + TTL
      BY <3>2 DEF RenewTx, Inv, OrderInv
    <3>4. Effective(c) = deadline[c]
      BY <3>3 DEF Effective, Acceptable
    <3>5. ~Extended(c)
      BY <3>3 DEF Extended, RenewPublish
    <3>6. Effective(c)' = Effective(c)
      BY <2>1, <3>5, EffectiveStep
    <3>7. attempt[c].now + TTL \in Nat /\ deadline[c] \in Nat
      BY LeaseAssumption DEF Inv, TypeOK, Attempts
    <3> QED
      BY <3>2, <3>3, <3>4, <3>6, <3>7
  <2> QED
    BY <2>4, <2>5, <2>6, <2>7, RowStep
<1> QED
  BY <1>1, <1>2

(* Every step keeps an answer on its way true to the rows. *)
LEMMA AnswerStep ==
  ASSUME Inv, TypeOK', LoopInv', [Next]_vars
  PROVE  AnswerInv'
<1> SUFFICES ASSUME NEW c \in Calls, NEW r \in Resources,
                    attempt'[c].state \in {"returned", "published"},
                    attempt'[c].result = "renewed", r \in want'[c], rows'[r].owner = c
             PROVE  rows'[r].expires >= attempt'[c].now + TTL
  BY DEF AnswerInv
<1> attempt[c] \in Attempts
  BY DEF Inv, TypeOK
<1>1. CASE RenewTx(c)
  <2>1. \E x \in {"renewed", "refused", "error"} :
           /\ attempt' = [attempt EXCEPT ![c] =
                             [attempt[c] EXCEPT !.state = "returned", !.result = x]]
           /\ x = "renewed" => rows' = Renewed(c)
    BY <1>1 DEF RenewTx, Attempt
  <2>2. PICK x \in {"renewed", "refused", "error"} :
           /\ attempt'[c] = [attempt[c] EXCEPT !.state = "returned", !.result = x]
           /\ x = "renewed" => rows' = Renewed(c)
    BY <2>1 DEF Inv, TypeOK
  <2>3. attempt'[c].result = x /\ attempt'[c].now = attempt[c].now
    BY <2>2 DEF Attempts
  <2>4. want' = want
    BY <1>1 DEF RenewTx, LoopOnly
  <2>5. rows'[r].expires = attempt[c].now + TTL
    BY <2>2, <2>3, <2>4 DEF Renewed, Inv, TypeOK
  <2>6. attempt[c].now + TTL \in Nat
    BY LeaseAssumption DEF Attempts
  <2> QED
    BY <2>3, <2>5, <2>6
<1>2. CASE ~RenewTx(c)
  <2>1. /\ attempt[c].state \in {"returned", "published"}
        /\ attempt[c].result = "renewed" /\ attempt'[c].now = attempt[c].now
    <3>1. CASE attempt'[c] = attempt[c]
      BY <3>1
    <3>2. CASE Stamp(c)
      BY <3>2 DEF Stamp, renewal
    <3>3. CASE RenewBegin(c)
      <4>1. attempt[c].state = "none" /\ c \in DOMAIN attempt
        BY <3>3 DEF RenewBegin, Inv, TypeOK
      <4>2. attempt'[c] = attempt[c] \/ attempt'[c].state = "calling"
        <5>1. attempt' = attempt \/ attempt' = [attempt EXCEPT ![c] = [NoAttempt EXCEPT !.state = "calling", !.now = clock]]
          BY <3>3 DEF RenewBegin, Attempt
        <5>2. [NoAttempt EXCEPT !.state = "calling", !.now = clock].state = "calling"
          BY DEF NoAttempt
        <5> QED
          BY <4>1, <5>1, <5>2
      <4> QED
        BY <4>1, <4>2
    <3>4. CASE RenewPublish(c)
      <4>1. /\ attempt[c].state = "returned"
            /\ attempt'[c] = [attempt[c] EXCEPT !.state = "published", !.completed = clock]
        BY <3>4 DEF RenewPublish, Attempt, Inv, TypeOK
      <4> QED
        BY <4>1 DEF Attempts
    <3>5. CASE RenewFinish(c)
      BY <3>5 DEF RenewFinish, Attempt, NoAttempt, Inv, TypeOK
    <3>6. CASE WatchExpiry(c)
      <4>1. CASE attempt[c].state = "published"
        <5>1. attempt'[c] = [attempt[c] EXCEPT !.state = "applied", !.accepted = Accepted(c)]
          BY <3>6, <4>1 DEF WatchExpiry, Attempt, Inv, TypeOK
        <5> QED
          BY <5>1 DEF Attempts
      <4>2. CASE attempt[c].state # "published"
        BY <3>6, <4>2 DEF WatchExpiry
      <4> QED
        BY <4>1, <4>2
    <3> QED
      BY <1>2, <3>1, <3>2, <3>3, <3>4, <3>5, <3>6, DeadlineSteps DEF Inv
  <2>2. pc[c] \in {"granting", "held", "stopping"} /\ r \in want[c]
    BY <2>1, OwnSteps DEF Inv, LoopInv
  <2>3. CASE rows'[r] = rows[r]
    BY <2>1, <2>2, <2>3 DEF Inv, AnswerInv
  <2>4. ASSUME NEW d \in Calls, Takes(d, r) PROVE FALSE
    BY <2>2, <2>4 DEF Takes, Taken
  <2>5. ASSUME NEW d \in Calls, Frees(d, r) PROVE FALSE
    BY <2>5, LeaseAssumption DEF Frees, NoRow
  <2>6. ASSUME NEW d \in Calls, Extends(d, r) PROVE FALSE
    BY <1>2, <2>6 DEF Extends, Inv, TypeOK
  <2> QED
    BY <2>3, <2>4, <2>5, <2>6, RowStep
<1> QED
  BY <1>1, <1>2

(* Hosts and identities under a lease do not change, as their writers must hold
   it; the accounts beside them may. *)
LEMMA CurrentStep ==
  ASSUME Inv, TypeOK', [Next]_vars
  PROVE  CurrentInv'
<1> SUFFICES ASSUME NEW c \in Guarded', clock' < Effective(c)'
             PROVE  Hosts(want'[c]) = Hosts(resolution'[RequestOf[c]])
  BY DEF CurrentInv
<1> c \in Calls
  BY DEF Guarded
<1>1. CASE c \notin Guarded
  BY <1>1, OwnSteps DEF Confirm
<1>2. CASE c \in Guarded
  <2>1. /\ pc[c] # "trying" /\ want'[c] = want[c]
        /\ c \in Leasing
    BY <1>2, OwnSteps DEF Guarded, Leasing
  <2>2. clock < Effective(c)
    BY <2>1, NotRevived
  <2>3. Hosts(want[c]) = Hosts(resolution[RequestOf[c]])
    BY <1>2, <2>2 DEF Inv, CurrentInv
  <2>4. \/ resolution' = resolution
        \/ \E f \in Resolutions : Reidentify(f) \/ Attach(f)
    BY DEF Next, Acquiring, Resolve, Stamp, TxAcquire, TxBlocked, TxFails, CheckMargin, Confirm,
       ConfirmFails, Register, GiveBack, ParentCancel, ReleaseBegin, ReleaseTx, Renewing,
       RenewBegin, RenewTx, RenewPublish, RenewFinish, RenewStop, WatchExpiry, LoopOnly,
       Tick, vars
  <2>5. RequestOf[c] \in Requests /\ resolution \in Resolutions
    BY LeaseAssumption DEF Inv, TypeOK
  <2>6. ASSUME NEW f \in Resolutions, Reidentify(f),
               Hosts(f[RequestOf[c]]) # Hosts(resolution[RequestOf[c]])
        PROVE  FALSE
    <3>1. /\ resolution[RequestOf[c]] \subseteq Accounts => f[RequestOf[c]] \subseteq Accounts
          /\ resolution[RequestOf[c]] \subseteq Resources
      BY <2>5, <2>6, ResolutionsType, LeaseAssumption
    <3>2. PICK r \in Resources : r \in Hosts(resolution[RequestOf[c]])
      BY <2>6, <3>1 DEF Hosts
    <3>3. r \in want[c]
      BY <2>3, <3>2 DEF Hosts
    <3>4. rows[r].owner = c /\ rows[r].expires >= Effective(c)
      BY <2>1, <2>2, <3>3 DEF Inv, FenceInv
    <3>5. rows[r].owner = NoCall \/ rows[r].expires <= clock
      BY <2>5, <2>6, <3>2 DEF Reidentify
    <3>6. rows[r].expires \in Nat /\ clock \in Nat /\ Effective(c) \in Nat
      BY AttemptTypes DEF Inv, TypeOK
    <3> QED
      BY <2>2, <3>4, <3>5, <3>6, LeaseAssumption
  <2>7. CASE resolution' = resolution
    BY <2>1, <2>3, <2>7
  <2>8. ASSUME NEW f \in Resolutions, Reidentify(f)
        PROVE  Hosts(want'[c]) = Hosts(resolution'[RequestOf[c]])
    BY <2>1, <2>3, <2>6, <2>8 DEF Reidentify
  <2>9. ASSUME NEW f \in Resolutions, Attach(f)
        PROVE  Hosts(want'[c]) = Hosts(resolution'[RequestOf[c]])
    BY <2>1, <2>3, <2>5, <2>9 DEF Attach
  <2> QED
    BY <2>4, <2>7, <2>8, <2>9
<1> QED
  BY <1>1, <1>2

(* So every step preserves the inductive invariant. *)
LEMMA InvStep == Inv /\ [Next]_vars => Inv'
<1> SUFFICES ASSUME Inv, [Next]_vars PROVE Inv'
  OBVIOUS
<1>1. TypeOK' /\ LoopInv'
  BY TypeStep, LoopStep DEF Inv
<1>2. OrderInv' /\ RowsInv'
  BY <1>1, OrderStep, RowsInvStep
<1>3. FenceInv' /\ AnswerInv' /\ CurrentInv'
  BY <1>1, <1>2, FenceStep, AnswerStep, CurrentStep
<1> QED
  BY <1>1, <1>2, <1>3 DEF Inv

(* It holds throughout. *)
LEMMA InvHolds == Spec => []Inv
BY InitInv, InvStep, PTL DEF Spec

-----------------------------------------------------------------------------
(* The variables of Acquire, its loop and the lease rows keep their types. *)
THEOREM TypeCorrect == Spec => []TypeOK
BY InvHolds, PTL DEF Inv

(* Whatever a guarded context believes about its remaining time, through
   retries, lost answers, slow renewals and results that the watchdog of
   leaseDeadline adopts, the rows of scheduler_leases are its own that long. *)
THEOREM Fenced == Spec => []DeadlineFenced
<1>1. Inv => DeadlineFenced
  BY DEF Inv, FenceInv, DeadlineFenced, InForce, Guarded, Leasing
<1> QED
  BY <1>1, InvHolds, PTL

(* Two guarded contexts that may both be used have leased nothing in common, and
   no reconciliation or configuration since has brought their requests to a
   common host or identity; only accounts attached meanwhile may be common. *)
THEOREM Exclusive == Spec => []MutualExclusion
<1>1. ASSUME Inv, NEW c \in InForce, NEW d \in InForce, c # d
      PROVE  /\ want[c] \cap want[d] = {}
             /\ resolution[RequestOf[c]] \cap resolution[RequestOf[d]] \subseteq Accounts
  <2>1. /\ c \in Calls /\ c \in Guarded /\ c \in Leasing /\ clock < Effective(c)
        /\ d \in Calls /\ d \in Guarded /\ d \in Leasing /\ clock < Effective(d)
    BY DEF InForce, Guarded, Leasing
  <2>2. want[c] \cap want[d] = {}
    <3>1. want[c] \subseteq Resources
      BY <1>1, <2>1 DEF Inv, TypeOK
    <3> QED
      BY <1>1, <2>1, <3>1 DEF Inv, FenceInv
  <2>3. /\ Hosts(want[c]) = Hosts(resolution[RequestOf[c]])
        /\ Hosts(want[d]) = Hosts(resolution[RequestOf[d]])
    BY <1>1, <2>1 DEF Inv, CurrentInv
  <2> QED
    BY <2>2, <2>3 DEF Hosts
<1>2. Inv => MutualExclusion
  BY <1>1 DEF MutualExclusion
<1> QED
  BY <1>2, InvHolds, PTL

(* A lease row that has not expired leaves its owner only by its release. *)
THEOREM NotStolen == Spec => NoTheft
<1>1. ASSUME Inv, [Next]_vars, NEW r \in Resources, rows[r].expires > clock
      PROVE  rows'[r].owner \in {rows[r].owner, NoCall}
  <2>1. ASSUME NEW c \in Calls, Takes(c, r) PROVE rows'[r].owner = rows[r].owner
    BY <1>1, <2>1, TakesExpired DEF Takes, Taken
  <2>2. ASSUME NEW c \in Calls, Frees(c, r) PROVE rows'[r].owner = NoCall
    BY <2>2 DEF Frees, NoRow
  <2>3. ASSUME NEW c \in Calls, Extends(c, r) PROVE rows'[r].owner = rows[r].owner
    BY <1>1, <2>3 DEF Extends, Inv, TypeOK
  <2> QED
    BY <1>1, <2>1, <2>2, <2>3, RowStep
<1>2. Inv /\ [Next]_vars =>
        [\A r \in Resources :
            rows[r].expires > clock => rows'[r].owner \in {rows[r].owner, NoCall}]_vars
  BY <1>1
<1> QED
  BY <1>2, InvHolds, PTL DEF Spec, NoTheft

(* A call that has returned is not given a row back, nor is one it left behind
   extended, whatever transaction or renewal was still on its way. *)
THEOREM NotResurrected == Spec => NoResurrection
<1>1. ASSUME Inv, [Next]_vars, NEW r \in Resources, NEW c \in Calls,
             pc[c] \in {"done", "failed"}, rows'[r].owner = c
      PROVE  rows'[r] = rows[r]
  <2>1. ASSUME NEW d \in Calls, Takes(d, r) PROVE FALSE
    BY <1>1, <2>1 DEF Takes, Taken
  <2>2. ASSUME NEW d \in Calls, Frees(d, r) PROVE FALSE
    BY <1>1, <2>2, LeaseAssumption DEF Frees, NoRow
  <2>3. ASSUME NEW d \in Calls, Extends(d, r) PROVE FALSE
    BY <1>1, <2>3 DEF Extends, RenewTx, Inv, TypeOK, LoopInv
  <2> QED
    BY <1>1, <2>1, <2>2, <2>3, RowStep
<1>2. Inv /\ [Next]_vars =>
        [\A r \in Resources, c \in Calls :
            pc[c] \in {"done", "failed"} /\ rows'[r].owner = c => rows'[r] = rows[r]]_vars
  BY <1>1
<1> QED
  BY <1>2, InvHolds, PTL DEF Spec, NoResurrection

-----------------------------------------------------------------------------
(* The steps of the guard as LeaseLock sees them: a call comes into force when
   it is confirmed; otherwise none does, what is in force keeps its resources,
   and who has been granted stays granted. *)
Granted == {c \in Calls : pc[c] \in {"granting", "held", "stopping", "done"}}

(* Only its confirmation grants a call, and nothing undoes that. *)
LEMMA GrantedStep ==
  ASSUME Inv, [Next]_vars, NEW c \in Calls
  PROVE  \/ c \in Granted' <=> c \in Granted
         \/ Confirm(c)
<1> USE DEF Inv, TypeOK, Granted
<1>1. ASSUME NEW d \in Calls, Acquiring(d)
      PROVE  (c \in Granted' <=> c \in Granted) \/ Confirm(c)
  <2>1. CASE Resolve(d) \/ Stamp(d) \/ TxBlocked(d) \/ TxFails(d) \/ TxAcquire(d)
    BY <2>1 DEF Resolve, Stamp, TxBlocked, TxFails, TxAcquire
  <2>2. CASE CheckMargin(d) \/ ConfirmFails(d)
    BY <2>2 DEF CheckMargin, ConfirmFails, GiveBack
  <2>3. CASE Confirm(d)
    BY <2>3 DEF Confirm
  <2>4. CASE Register(d)
    BY <2>4 DEF Register
  <2> QED
    BY <1>1, <2>1, <2>2, <2>3, <2>4 DEF Acquiring
<1>2. ASSUME NEW d \in Calls, ParentCancel(d) \/ ReleaseBegin(d) \/ ReleaseTx(d)
      PROVE  c \in Granted' <=> c \in Granted
  BY <1>2 DEF ParentCancel, ReleaseBegin, ReleaseTx
<1>3. ASSUME \/ \E d \in Calls : RenewBegin(d) \/ Renewing(d) \/ WatchExpiry(d)
             \/ (\E f \in Resolutions : Reidentify(f) \/ Attach(f)) \/ Tick \/ UNCHANGED vars
      PROVE  pc' = pc
  BY <1>3 DEF RenewBegin, Renewing, RenewTx, RenewPublish, RenewFinish, RenewStop, WatchExpiry,
     LoopOnly, Reidentify, Attach, Tick, vars
<1> QED
  BY <1>1, <1>2, <1>3 DEF Next

(* A cancelled context stays cancelled. *)
LEMMA CancelledStep ==
  ASSUME Inv, [Next]_vars, NEW c \in Calls, cancelled[c]
  PROVE  cancelled'[c]
<1> USE DEF Inv, TypeOK
<1>1. ASSUME NEW d \in Calls, Acquiring(d) \/ ParentCancel(d) \/ ReleaseBegin(d) \/ ReleaseTx(d)
      PROVE  cancelled'[c]
  BY <1>1 DEF Acquiring, Resolve, Stamp, TxAcquire, TxBlocked, TxFails, CheckMargin, Confirm,
     ConfirmFails, Register, GiveBack, ParentCancel, ReleaseBegin, ReleaseTx
<1>2. ASSUME NEW d \in Calls, RenewBegin(d) PROVE cancelled'[c]
  BY <1>2 DEF RenewBegin
<1>3. ASSUME NEW d \in Calls, RenewFinish(d) PROVE cancelled'[c]
  BY <1>3 DEF RenewFinish
<1>4. ASSUME NEW d \in Calls, WatchExpiry(d) PROVE cancelled'[c]
  BY <1>4 DEF WatchExpiry
<1>5. ASSUME NEW d \in Calls, RenewTx(d) \/ RenewPublish(d) \/ RenewStop(d)
      PROVE  cancelled'[c]
  BY <1>5 DEF RenewTx, RenewPublish, RenewStop
<1>6. ASSUME (\E f \in Resolutions : Reidentify(f) \/ Attach(f)) \/ Tick \/ UNCHANGED vars
      PROVE  cancelled'[c]
  BY <1>6 DEF Reidentify, Attach, Tick, vars
<1> QED
  BY <1>1, <1>2, <1>3, <1>4, <1>5, <1>6 DEF Next, Renewing

(* Nothing but its confirmation brings a call into force. *)
LEMMA InForceStep ==
  ASSUME Inv, [Next]_vars, NEW c \in Calls, c \in InForce'
  PROVE  c \in InForce \/ Confirm(c)
<1>1. c \in Guarded' /\ ~cancelled'[c] /\ clock' < Effective(c)'
  BY DEF InForce
<1>2. CASE c \in Guarded
  <2>1. ~cancelled[c]
    BY <1>1, CancelledStep
  <2>2. clock < Effective(c)
    BY <1>1, <1>2, NotRevived DEF Guarded
  <2> QED
    BY <1>2, <2>1, <2>2 DEF InForce
<1> QED
  BY <1>1, <1>2, OwnSteps

(* The initial states are the lock's. *)
LEMMA LockInitial == Init => Lock!LockInit
<1> SUFFICES ASSUME Init PROVE Lock!LockInit
  OBVIOUS
<1>1. InForce = {} /\ Granted = {}
  BY DEF Init, InForce, Guarded, Granted
<1>2. want = [c \in Calls |-> {}]
  BY DEF Init
<1> QED
  BY <1>1, <1>2 DEF Lock!LockInit, Granted

(* Every step is one of the lock: a grant, an end, or a change of mind. *)
LEMMA LockStep == Inv /\ [Next]_vars => [Lock!LockNext]_Lock!lockVars
<1> SUFFICES ASSUME Inv, [Next]_vars PROVE Lock!LockNext
  OBVIOUS
<1> DEFINE Ended == Granted \ InForce
           S == Ended' \ Ended
<1>1. CASE \E c \in Calls : Confirm(c) /\ c \in InForce'
  <2>1. PICK c \in Calls : Confirm(c) /\ c \in InForce'
    BY <1>1
  <2>2. /\ pc[c] = "confirming" /\ want' = want /\ clock' = clock /\ cancelled' = cancelled
        /\ attempt' = attempt /\ deadline' = deadline
    BY <2>1 DEF Confirm
  <2>3. \A d \in Calls : Effective(d)' = Effective(d)
    BY <2>2 DEF Effective, Acceptable
  <2>4. \A d \in Calls \ {c} : pc'[d] = pc[d]
    BY <2>1 DEF Confirm, Inv, TypeOK
  <2>5. \A d \in Calls \ {c} :
            /\ d \in InForce' <=> d \in InForce
            /\ d \in Granted' <=> d \in Granted
    BY <2>2, <2>3, <2>4 DEF InForce, Guarded, Granted
  <2>6. c \notin Granted /\ c \notin InForce
    BY <2>2 DEF InForce, Guarded, Granted
  <2>7. InForce' = InForce \cup {c}
    <3>1. InForce \subseteq Calls /\ InForce' \subseteq Calls
      BY DEF InForce, Guarded
    <3> QED
      BY <2>1, <2>5, <3>1
  <2>8. Ended' = Ended
    <3>1. Granted \subseteq Calls /\ Granted' \subseteq Calls
      BY DEF Granted
    <3>2. c \in Granted' /\ c \notin Ended'
      BY <2>1 DEF InForce, Guarded, Granted
    <3>3. ASSUME NEW d PROVE d \in Ended' <=> d \in Ended
      BY <2>5, <2>6, <3>1, <3>2
    <3> QED
      BY <3>3
  <2>9. ASSUME NEW d \in InForce PROVE want[d] \cap want[c] = {}
    <3>1. /\ d \in Calls /\ d \in Leasing /\ clock < Effective(d) /\ d # c
          /\ c \in Leasing /\ clock < Effective(c)
      BY <2>1, <2>2, <2>3, <2>6 DEF InForce, Guarded, Leasing
    <3>2. want[d] \subseteq Resources
      BY <3>1 DEF Inv, TypeOK
    <3> QED
      BY <3>1, <3>2 DEF Inv, FenceInv
  <2>10. Lock!Grant(c)
    BY <2>2, <2>6, <2>7, <2>8, <2>9 DEF Lock!Grant, Granted
  <2> QED
    BY <2>10 DEF Lock!LockNext
<1>2. CASE ~ \E c \in Calls : Confirm(c) /\ c \in InForce'
  <2>1. InForce' \subseteq InForce
    BY <1>2, InForceStep DEF InForce, Guarded
  <2>2. ASSUME NEW c \in InForce
        PROVE  c \in Granted' /\ want'[c] = want[c]
    <3>1. c \in Calls /\ c \in Granted /\ pc[c] \notin {"idle", "confirming"}
      BY DEF InForce, Guarded, Granted
    <3> QED
      BY <3>1, GrantedStep, OwnSteps DEF Confirm
  <2>3. ASSUME NEW c \in Ended PROVE c \in Ended'
    <3>1. c \in Calls /\ c \in Granted /\ c \notin InForce /\ pc[c] # "confirming"
      BY DEF Granted
    <3>2. c \in Granted'
      BY <3>1, GrantedStep DEF Confirm
    <3>3. c \notin InForce'
      BY <2>1, <3>1
    <3> QED
      BY <3>2, <3>3
  <2>4. InForce' = InForce \ S
    BY <2>1, <2>2
  <2>5. Ended' = Ended \cup S
    BY <2>3
  <2>6. PICK T \in SUBSET (Calls \ Ended) : T = S
    BY DEF Granted
  <2>7. Lock!End(T)
    BY <2>2, <2>4, <2>5, <2>6 DEF Lock!End, Lock!KeepHeld, Granted
  <2> QED
    BY <2>6, <2>7 DEF Lock!LockNext, Granted
<1> QED
  BY <1>1, <1>2

(* The guard with its rows, renewals and watchdogs is a lock: calls in force
   hold disjoint resources, all or none, and end once. *)
THEOREM GuardIsLock == Spec => ImplementsLock
<1>1. Init => Lock!LockInit
  BY LockInitial
<1>2. Inv /\ [Next]_vars => [Lock!LockNext]_Lock!lockVars
  BY LockStep
<1> QED
  BY <1>1, <1>2, InvHolds, PTL DEF Spec, ImplementsLock, Lock!LockSpec
=============================================================================

---------------------------- MODULE MutationLease ----------------------------
(***************************************************************************)
(* backend/internal/mutationguard/guard.go over the lease rows of          *)
(* backend/internal/business/mutation_lease.go: Acquire, the renewal loop  *)
(* with its expiry watchdog, preemption of automatic inspections, release. *)
(*                                                                         *)
(* A call is one execution of Acquire, with its own random owner ID, so    *)
(* that a call is also the owner of the rows it writes.  Every database    *)
(* transaction is one action; reading the clock, calling the database and  *)
(* using its answer are different actions, and time may pass between any   *)
(* two of them: nothing assumes that a goroutine, a timer or the database  *)
(* is prompt.  The ticker of the renewal loop may fire at any moment.      *)
(***************************************************************************)
EXTENDS Integers

CONSTANTS
    Calls,        (* executions of Acquire                                 *)
    Automatic,    (* those made on behalf of an automatic inspection       *)
    Requests,     (* what a caller names                                   *)
    Resources,    (* what ResolveMutationResources turns requests into     *)
    Accounts,     (* those of them that are accounts ("account/" and an ID) *)
    Resolutions,  (* the ways it may do so, as identities and accounts     *)
                  (* change                                                *)
    RequestOf,    (* what each call asks for                               *)
    NoCall,       (* the owner of an absent row                            *)
    TTL,          (* leaseTTL                                              *)
    Interval,     (* renewalInterval                                       *)
    CallTimeout,  (* leaseCallTimeout                                      *)
    StoreFails,   (* whether database calls may fail, or their context end  *)
    MaxClock      (* bound: the clock stops there                          *)

ASSUME LeaseAssumption ==
    /\ Automatic \subseteq Calls
    /\ NoCall \notin Calls
    /\ RequestOf \in [Calls -> Requests]
    /\ Accounts \subseteq Resources
    /\ Resolutions \subseteq [Requests -> (SUBSET Resources) \ {{}}]
    \* only hosts and the catalogue are translated, into more than accounts
    /\ \A f, g \in Resolutions, q \in Requests : f[q] \subseteq Accounts => g[q] \subseteq Accounts
    /\ TTL \in Nat /\ Interval \in Nat /\ CallTimeout \in Nat /\ MaxClock \in Nat
    /\ StoreFails \in BOOLEAN

VARIABLES
    clock,
    rows,       (* scheduler_leases: owner and expiry of each resource      *)
    resolution, (* what requests resolve to now                             *)
    pc,         (* where each call is                                       *)
    want,       (* resolved: the resources it is taking or holds            *)
    deadline,   (* expiresAt: of the attempt, then of leaseDeadline         *)
    attempt,    (* leaseDeadline.attempt and its renewalAttempt             *)
    renewing,   (* the renewal loop has not closed done                     *)
    cancelled,  (* the guarded context is done                              *)
    registry    (* automaticLeases: the calls that can be preempted         *)

renewal == <<attempt, renewing>>
vars == <<clock, rows, resolution, pc, want, deadline, renewal, cancelled, registry>>

NoRow == [owner |-> NoCall, expires |-> 0]

(* state: none, calling, returned, published (ready is closed), applied. *)
NoAttempt == [state |-> "none", now |-> 0, result |-> "none", completed |-> 0,
              accepted |-> FALSE]
-----------------------------------------------------------------------------
Init ==
    /\ clock = 0
    /\ rows = [r \in Resources |-> NoRow]
    /\ resolution \in Resolutions
    /\ pc = [c \in Calls |-> "idle"]
    /\ want = [c \in Calls |-> {}]
    /\ deadline = [c \in Calls |-> 0]
    /\ attempt = [c \in Calls |-> NoAttempt]
    /\ renewing = [c \in Calls |-> FALSE]
    /\ cancelled = [c \in Calls |-> FALSE]
    /\ registry = {}

Go(c, from, to) == pc[c] = from /\ pc' = [pc EXCEPT ![c] = to]

Mine(c)  == {r \in Resources : rows[r].owner = c}
Taken(c) == [r \in Resources |-> IF r \in want[c] THEN [owner |-> c, expires |-> deadline[c]]
                                 ELSE rows[r]]
Freed(c) == [r \in Resources |-> IF r \in want[c] \cap Mine(c) THEN NoRow ELSE rows[r]]

(* The operators whose comment begins with "Bug" are not part of the model:
   each is a mistake that one of the properties below would find. *)

Resolve(c) ==
    /\ Go(c, "idle", "trying")
    /\ want' = [want EXCEPT ![c] = resolution[RequestOf[c]]]
    /\ UNCHANGED <<clock, rows, resolution, deadline, renewal, cancelled, registry>>

(* Bug: a manual call waits like an automatic one. *)
StampPatiently(c) ==
    /\ Go(c, "trying", "calling")
    /\ deadline' = [deadline EXCEPT ![c] = clock + TTL]
    /\ UNCHANGED <<clock, rows, resolution, want, renewal, cancelled, registry>>

(* A manual call first cancels the automatic inspections registered for what
   it wants; then attemptedAt is read. *)
Stamp(c) ==
    /\ Go(c, "trying", "calling")
    /\ cancelled' = [d \in Calls |->
            cancelled[d] \/ (c \notin Automatic /\ d \in registry /\ want[d] \cap want[c] # {})]
    /\ deadline' = [deadline EXCEPT ![c] = clock + TTL]
    /\ UNCHANGED <<clock, rows, resolution, want, renewal, registry>>

(* Bug: expiry is compared with the end of the new lease. *)
BlockedAtEnd(c) ==
    \E r \in want[c] : rows[r].owner \notin {c, NoCall} /\ rows[r].expires > deadline[c]

Blocked(c) ==
    \E r \in want[c] : rows[r].owner \notin {c, NoCall} /\ rows[r].expires > deadline[c] - TTL

(* AcquireMutationLease: every resource or none. *)
TxAcquire(c) ==
    /\ ~Blocked(c)
    /\ Go(c, "calling", "leased")
    /\ rows' = Taken(c)
    /\ UNCHANGED <<clock, resolution, want, deadline, renewal, cancelled, registry>>

TxBlocked(c) ==
    /\ Blocked(c)
    /\ Go(c, "calling", "trying")
    /\ UNCHANGED <<clock, rows, resolution, want, deadline, renewal, cancelled, registry>>

(* The transaction fails, or commits and the answer is lost: Acquire returns
   the error and releases nothing. *)
TxFails(c) ==
    /\ StoreFails
    /\ Go(c, "calling", "failed")
    /\ \/ rows' = rows
       \/ ~Blocked(c) /\ rows' = Taken(c)
    /\ UNCHANGED <<clock, resolution, want, deadline, renewal, cancelled, registry>>

(* Give the rows back and go to `next`; a failing release ends the call. *)
GiveBack(c, from, next) ==
    /\ \/ Go(c, from, next) /\ rows' = Freed(c)
       \/ StoreFails /\ Go(c, from, "failed") /\ rows' \in {rows, Freed(c)}
    /\ UNCHANGED <<clock, resolution, want, deadline, renewal, cancelled, registry>>

MarginLeft(c) == clock + Interval + CallTimeout < deadline[c]

CheckMargin(c) ==
    \/ /\ MarginLeft(c)
       /\ Go(c, "leased", "confirming")
       /\ UNCHANGED <<clock, rows, resolution, want, deadline, renewal, cancelled, registry>>
    \/ /\ ~MarginLeft(c)
       /\ GiveBack(c, "leased", "trying")

(* Bug: what the request resolves to is not looked at again. *)
ConfirmUnchecked(c) ==
    /\ Go(c, "confirming", IF c \in Automatic THEN "granting" ELSE "held")
    /\ renewing' = [renewing EXCEPT ![c] = TRUE]
    /\ UNCHANGED <<clock, rows, resolution, want, deadline, attempt, cancelled, registry>>

(* The request still resolves to what was leased: maintainLease starts the
   renewal loop.  An automatic call has yet to register.  (leaseDeadline.expired
   is left out: it is set with the cancellation, and a cancelled call makes no
   use of its deadline.) *)
Confirm(c) ==
    /\ want[c] = resolution[RequestOf[c]]
    /\ Go(c, "confirming", IF c \in Automatic THEN "granting" ELSE "held")
    /\ renewing' = [renewing EXCEPT ![c] = TRUE]
    /\ UNCHANGED <<clock, rows, resolution, want, deadline, attempt, cancelled, registry>>

(* It resolves to something else: start again.  Or resolving fails: give up,
   the rows given back or, if that fails too, left to expire. *)
ConfirmFails(c) ==
    \/ /\ want[c] # resolution[RequestOf[c]]
       /\ GiveBack(c, "confirming", "idle")
    \/ /\ StoreFails
       /\ Go(c, "confirming", "failed") /\ rows' \in {rows, Freed(c)}
       /\ UNCHANGED <<clock, resolution, want, deadline, renewal, cancelled, registry>>

Register(c) ==
    /\ Go(c, "granting", "held")
    /\ registry' = registry \cup {c}
    /\ UNCHANGED <<clock, rows, resolution, want, deadline, renewal, cancelled>>

(* The caller's own context ends: Acquire returns its error while it resolves
   or waits for the rows; a guarded context ends with its parent. *)
ParentCancel(c) ==
    /\ \/ (Go(c, "idle", "failed") \/ Go(c, "trying", "failed")) /\ UNCHANGED cancelled
       \/ /\ pc[c] \in {"granting", "held"} /\ ~cancelled[c]
          /\ cancelled' = [cancelled EXCEPT ![c] = TRUE]
          /\ UNCHANGED pc
    /\ UNCHANGED <<clock, rows, resolution, want, deadline, renewal, registry>>
-----------------------------------------------------------------------------
(* Bug: release does not stop the loop. *)
LoopGuardedContextDone(c) == cancelled[c]

(* The renewal loop, its context being the guarded one until release stops it. *)
LoopContextDone(c) == cancelled[c] \/ pc[c] = "stopping"

Attempt(c, fields) == attempt' = [attempt EXCEPT ![c] = fields]
LoopOnly == UNCHANGED <<clock, resolution, pc, want, registry>>

(* A tick: an expired deadline cancels, else an attempt begins. *)
RenewBegin(c) ==
    /\ renewing[c] /\ attempt[c].state = "none" /\ ~LoopContextDone(c)
    /\ IF clock >= deadline[c]
       THEN /\ cancelled' = [cancelled EXCEPT ![c] = TRUE]
            /\ renewing' = [renewing EXCEPT ![c] = FALSE]
            /\ UNCHANGED attempt
       ELSE /\ Attempt(c, [NoAttempt EXCEPT !.state = "calling", !.now = clock])
            /\ UNCHANGED <<cancelled, renewing>>
    /\ UNCHANGED <<rows, deadline>>
    /\ LoopOnly

(* RenewMutationLease: every row present, owned and, at the instant read
   before the call, unexpired; else nothing is renewed. *)
Renewable(c) ==
    \A r \in want[c] : rows[r].owner = c /\ rows[r].expires > attempt[c].now
Renewed(c) ==
    [r \in Resources |-> IF r \in want[c] THEN [rows[r] EXCEPT !.expires = attempt[c].now + TTL]
                         ELSE rows[r]]

(* The call fails when the database does, or when its context has ended: by a
   cancellation, or at the earlier of leaseCallTimeout and the deadline. *)
RenewTx(c) ==
    /\ attempt[c].state = "calling"
    /\ \/ /\ Renewable(c)
          /\ rows' = Renewed(c)
          /\ Attempt(c, [attempt[c] EXCEPT !.state = "returned", !.result = "renewed"])
       \/ /\ ~Renewable(c)
          /\ UNCHANGED rows
          /\ Attempt(c, [attempt[c] EXCEPT !.state = "returned", !.result = "refused"])
       \/ /\ StoreFails \/ LoopContextDone(c) \/ clock >= deadline[c]
             \/ clock >= attempt[c].now + CallTimeout
          /\ rows' = rows \/ (Renewable(c) /\ rows' = Renewed(c))
          /\ Attempt(c, [attempt[c] EXCEPT !.state = "returned", !.result = "error"])
    /\ UNCHANGED <<deadline, renewing, cancelled>>
    /\ LoopOnly

(* attempt.complete: the result is published with the time it was seen. *)
RenewPublish(c) ==
    /\ attempt[c].state = "returned"
    /\ Attempt(c, [attempt[c] EXCEPT !.state = "published", !.completed = clock])
    /\ UNCHANGED <<rows, deadline, renewing, cancelled>>
    /\ LoopOnly

(* Bug: a renewal seen after the deadline is accepted. *)
AcceptableLate(c) == attempt[c].state = "published" /\ attempt[c].result = "renewed"

(* applyRenewalLocked accepts a published renewal seen before the deadline. *)
Acceptable(c) ==
    /\ attempt[c].state = "published"
    /\ attempt[c].result = "renewed"
    /\ attempt[c].completed < deadline[c]
Accepted(c) == attempt[c].accepted \/ Acceptable(c)
(* Bug: the new lease is counted from the answer. *)
EffectiveFromAnswer(c) == IF Acceptable(c) THEN attempt[c].completed + TTL ELSE deadline[c]
Effective(c) == IF Acceptable(c) THEN attempt[c].now + TTL ELSE deadline[c]

(* finishRenewal, and what the loop makes of the result. *)
RenewFinish(c) ==
    /\ attempt[c].state \in {"published", "applied"}
    /\ deadline' = [deadline EXCEPT ![c] = Effective(c)]
    /\ Attempt(c, NoAttempt)
    /\ LET retry == attempt[c].result = "error" /\ attempt[c].completed < deadline[c] - Interval
           goOn  == ~LoopContextDone(c) /\ (retry \/ Accepted(c))
       IN  /\ renewing' = [renewing EXCEPT ![c] = goOn]
           /\ cancelled' = [cancelled EXCEPT ![c] =
                                @ \/ (~goOn /\ ~LoopContextDone(c))]
    /\ UNCHANGED rows
    /\ LoopOnly

(* The loop and its watchdog end with their context. *)
RenewStop(c) ==
    /\ renewing[c] /\ attempt[c].state = "none" /\ LoopContextDone(c)
    /\ renewing' = [renewing EXCEPT ![c] = FALSE]
    /\ UNCHANGED <<rows, deadline, attempt, cancelled>>
    /\ LoopOnly

(* The watchdog's timer: adopt a result already published, else cancel. *)
WatchExpiry(c) ==
    /\ renewing[c] /\ ~cancelled[c] /\ clock >= deadline[c]
    /\ deadline' = [deadline EXCEPT ![c] = Effective(c)]
    /\ IF attempt[c].state = "published"
       THEN Attempt(c, [attempt[c] EXCEPT !.state = "applied", !.accepted = Accepted(c)])
       ELSE UNCHANGED attempt
    /\ cancelled' = [cancelled EXCEPT ![c] = clock >= Effective(c)]
    /\ UNCHANGED <<rows, renewing>>
    /\ LoopOnly
-----------------------------------------------------------------------------
(* release: leave the registry, stop the loop ... *)
ReleaseBegin(c) ==
    /\ Go(c, "held", "stopping")
    /\ registry' = registry \ {c}
    /\ UNCHANGED <<clock, rows, resolution, want, deadline, renewal, cancelled>>

(* Bug: the loop is not waited for. *)
ReleaseTxAtOnce(c) ==
    /\ Go(c, "stopping", "done")
    /\ cancelled' = [cancelled EXCEPT ![c] = TRUE]
    /\ rows' = Freed(c) \/ (StoreFails /\ rows' = rows)
    /\ UNCHANGED <<clock, resolution, want, deadline, renewal, registry>>

(* ... wait for it, cancel the guarded context, delete the rows. *)
ReleaseTx(c) ==
    /\ ~renewing[c]
    /\ Go(c, "stopping", "done")
    /\ cancelled' = [cancelled EXCEPT ![c] = TRUE]
    /\ rows' = Freed(c) \/ (StoreFails /\ rows' = rows)
    /\ UNCHANGED <<clock, resolution, want, deadline, renewal, registry>>

(* What a request resolves to beside accounts: the catalogue, hosts, identities. *)
Hosts(resolved) == resolved \ Accounts

(* Identities change under a lease on them before and after (reconciliation and
   configuration acquire, write and release). *)
Reidentify(f) ==
    /\ \E q \in Requests : Hosts(f[q]) # Hosts(resolution[q])
    /\ \A q \in Requests : Hosts(f[q]) # Hosts(resolution[q]) =>
          \A r \in Hosts(resolution[q]) \cup Hosts(f[q]) :
              rows[r].owner = NoCall \/ rows[r].expires <= clock
    /\ resolution' = f
    /\ UNCHANGED <<clock, rows, pc, want, deadline, renewal, cancelled, registry>>

(* Accounts and bindings of a host come and go without a lease on the host:
   onboarding inserts them, synchronisations insert, move and remove them. *)
Attach(f) ==
    /\ \A q \in Requests : Hosts(f[q]) = Hosts(resolution[q])
    /\ resolution' = f
    /\ UNCHANGED <<clock, rows, pc, want, deadline, renewal, cancelled, registry>>

Tick ==
    /\ clock < MaxClock
    /\ clock' = clock + 1
    /\ UNCHANGED <<rows, resolution, pc, want, deadline, renewal, cancelled, registry>>

Acquiring(c) ==
    \/ Resolve(c) \/ Stamp(c) \/ TxAcquire(c) \/ TxBlocked(c) \/ TxFails(c)
    \/ CheckMargin(c) \/ Confirm(c) \/ ConfirmFails(c) \/ Register(c)
Renewing(c) ==
    \/ RenewTx(c) \/ RenewPublish(c) \/ RenewFinish(c) \/ RenewStop(c)

Next ==
    \/ \E c \in Calls : \/ Acquiring(c) \/ ParentCancel(c)
                        \/ RenewBegin(c) \/ Renewing(c) \/ WatchExpiry(c)
                        \/ ReleaseBegin(c) \/ ReleaseTx(c)
    \/ \E f \in Resolutions \ {resolution} : Reidentify(f)
    \/ \E f \in Resolutions \ {resolution} : Attach(f)
    \/ Tick

Spec == Init /\ [][Next]_vars

(* Goroutines run.  A caller releases, at the latest, when its guarded context
   ends; nothing makes it end by itself, and nothing makes a tick happen. *)
Fairness ==
    \A c \in Calls :
        /\ WF_vars(Acquiring(c))
        /\ WF_vars(Renewing(c))
        /\ WF_vars(cancelled[c] /\ ReleaseBegin(c))
        /\ WF_vars(ReleaseTx(c))

FairSpec == Spec /\ Fairness
-----------------------------------------------------------------------------
Phases == {"idle", "trying", "calling", "leased", "confirming", "granting", "held",
           "stopping", "done", "failed"}
Attempts == [state: {"none", "calling", "returned", "published", "applied"}, now: Nat,
             result: {"none", "renewed", "refused", "error"}, completed: Nat,
             accepted: BOOLEAN]

TypeOK ==
    /\ clock \in Nat
    /\ rows \in [Resources -> [owner: Calls \cup {NoCall}, expires: Nat]]
    /\ resolution \in Resolutions
    /\ pc \in [Calls -> Phases]
    /\ want \in [Calls -> SUBSET Resources]
    /\ deadline \in [Calls -> Nat]
    /\ attempt \in [Calls -> Attempts]
    /\ renewing \in [Calls -> BOOLEAN]
    /\ cancelled \in [Calls -> BOOLEAN]
    /\ registry \subseteq Automatic

(* The guarded contexts that may be used: granted, not cancelled, and not past
   the deadline at which the watchdog is due. *)
Guarded == {c \in Calls : pc[c] \in {"granting", "held", "stopping"}}
InForce == {c \in Guarded : ~cancelled[c] /\ clock < Effective(c)}

(* Whatever a guarded context believes about its time, the database agrees: all
   its rows are its own until then, through retries, lost answers, slow renewals
   and results adopted late by the watchdog. *)
DeadlineFenced ==
    \A c \in InForce, r \in Resources :
        r \in want[c] => rows[r].owner = c /\ rows[r].expires >= Effective(c)

(* Two operations that may write at the same time have leased nothing in common,
   and what their requests resolve to now, not only once, has no host and no
   identity in common either.  An account may be: one that was attached to their
   hosts (Attach) when one of them was already granted. *)
MutualExclusion ==
    \A c, d \in InForce : c # d =>
        /\ want[c] \cap want[d] = {}
        /\ resolution[RequestOf[c]] \cap resolution[RequestOf[d]] \subseteq Accounts

(* An unexpired row changes hands only through its owner's release. *)
NoTheft ==
    [][\A r \in Resources :
        rows[r].expires > clock => rows'[r].owner \in {rows[r].owner, NoCall}]_vars

(* After its call has ended, no row comes back to it, and a row it left behind
   because its release failed is not extended: an answer on its way revives
   nothing, and what is left frees itself within a TTL. *)
NoResurrection ==
    [][\A r \in Resources, c \in Calls :
        pc[c] \in {"done", "failed"} /\ rows'[r].owner = c => rows'[r] = rows[r]]_vars

(* A manual operation waits for automatic inspections only until they notice
   that they were preempted, even if one is granted between two attempts. *)
ManualNotBlocked ==
    \A c \in Calls \ Automatic : pc[c] = "trying" ~> pc[c] \in {"held", "failed"}

(* A release ends, although it waits for the renewal in flight. *)
ReleaseEnds == \A c \in Calls : pc[c] = "stopping" ~> pc[c] = "done"

(* The guard implements the lock. *)
Lock == INSTANCE LeaseLock WITH
            inForce <- InForce,
            held <- want,
            ended <- {c \in Calls : pc[c] \in {"granting", "held", "stopping", "done"}} \ InForce
ImplementsLock == Lock!LockSpec
=============================================================================

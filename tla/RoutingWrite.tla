---------------------------- MODULE RoutingWrite ----------------------------
(***************************************************************************)
(* backend/internal/routingwrite: one console writes the targets that a    *)
(* routing round calculated to the accounts of a Sub2API server, round     *)
(* after round.  The accounts share the concurrency of one upstream.       *)
(*                                                                         *)
(* Accounts are prepared in parallel: each is read, checked, given its     *)
(* part of the capacity, then queued or skipped.  Only when all have       *)
(* arrived does the batch write, then reads everything back once, and only *)
(* then is each result recorded.  People change accounts at any moment,    *)
(* calls fail before or after they took effect, the policy changes, the    *)
(* task is cancelled and the process dies.                                 *)
(*                                                                         *)
(* An account is what the capacity is about: whether it takes traffic and  *)
(* its concurrency.  Priority and load factor are left out, and so are the *)
(* global budget, a second one of the same kind, the cleanup targets, and  *)
(* stops for cost or health, whose capacity is given away as that of an    *)
(* account which waits for capacity.                                       *)
(* The leases of MutationLease keep other consoles' writers away.          *)
(***************************************************************************)
EXTENDS Integers, FiniteSetsExt

CONSTANTS
    Accounts,
    Concurrencies,  (* what a target may set                               *)
    FirstSettings,  (* what the accounts may start with                    *)
    Limit,          (* the upstream's UpstreamConcurrencyLimit, finite     *)
    ManageAll,      (* policy: scope.manage_all_accounts                   *)
    Verify,         (* policy: verify after write                          *)
    Null,           (* a field that is not set                             *)
    MaxRounds,      (* bounds: rounds, human edits and incidents together  *)
    MaxDisturbances

ASSUME WriteAssumption ==
    /\ IsFiniteSet(Accounts)
    /\ Concurrencies \subseteq Nat \ {0}
    /\ FirstSettings \subseteq [on : BOOLEAN, conc : Concurrencies]
    /\ Limit \in Nat \ {0}
    /\ Null \notin BOOLEAN /\ Null \notin Concurrencies \cup {0}
    /\ ManageAll \in BOOLEAN /\ Verify \in BOOLEAN
    /\ MaxRounds \in Nat /\ MaxDisturbances \in Nat

VARIABLES
    remote,     (* the accounts at Sub2API                                 *)
    stored,     (* the accounts table: settings as last confirmed          *)
    waiting,    (* those whose routing_state is concurrency_limited        *)
    baseline,   (* routing_baselines: who owns each account, its values    *)
                (* before the console took it and those the console set    *)
    target,     (* what the round wants of each account                    *)
    stage,      (* where each account is in the round                      *)
    phase,      (* where the round is                                      *)
    released,   (* paused accounts whose capacity may be given away        *)
    current,    (* the fresh individual read of each account               *)
    desired,    (* the fields to write                                     *)
    budget,     (* upstreamCapacityGuard: the one list read, what is       *)
                (* reserved for each account                               *)
    remaining,  (* batchWriteCoordinator.remaining                         *)
    outcome,    (* coordinatedWriteOutcome of each account                 *)
    authorized, (* mode and policy are still those of the calculation      *)
    ended,      (* the context of the task is done                         *)
    rounds, edits, incidents,
    edited,     (* accounts a person has changed, ever                     *)
    disturbed   (* a person has changed an account during this round       *)

durable == <<stored, waiting, baseline>>
plan    == <<target, released>>
prepare == <<current, desired, budget, remaining>>
bounds  == <<rounds, edits, incidents>>
history == <<edited, disturbed>>
vars == <<remote, durable, plan, prepare, stage, phase, outcome, authorized, ended, bounds, history>>

(* A setting; 0 is Sub2API's unlimited. *)
Settings == [on : BOOLEAN, conc : Concurrencies \cup {0}]
Fields   == [on : BOOLEAN \cup {Null}, conc : Concurrencies \cup {0, Null}]
Nothing  == [on |-> Null, conc |-> Null]

(* Targets: a setting to reach, control to hand back (ReleaseControl), or
   control to give up because a person has taken it (AbandonControl). *)
NoTarget == [kind |-> "none", want |-> Nothing, waits |-> FALSE, shared |-> FALSE]
Release  == [NoTarget EXCEPT !.kind = "release"]
Abandon  == [NoTarget EXCEPT !.kind = "abandon"]

Unowned   == [owner |-> "none", before |-> Nothing, managed |-> Nothing]
NoOutcome == [confirmed |-> FALSE, readback |-> FALSE, failed |-> FALSE, after |-> Nothing]
NoBudget  == [read |-> FALSE, failed |-> FALSE, known |-> TRUE,
              snapshot |-> [a \in Accounts |-> Nothing],
              reserved |-> [a \in Accounts |-> 0]]
-----------------------------------------------------------------------------
(* valuesWithDesired, changedFields, verifyReadback *)
With(s, d)    == [on   |-> IF d.on = Null THEN s.on ELSE d.on,
                  conc |-> IF d.conc = Null THEN s.conc ELSE d.conc]
Changes(d, s) == [on   |-> IF d.on = s.on THEN Null ELSE d.on,
                  conc |-> IF d.conc = s.conc THEN Null ELSE d.conc]
Agrees(d, s)  == d.on \in {Null, s.on} /\ d.conc \in {Null, s.conc}

(* Bug: compares with the values before the takeover. *)
DiffersFromBefore(a, s) == baseline[a].owner = "console" /\ ~Agrees(baseline[a].before, s)

(* externallyModifiedBaseline *)
ExternallyModified(a, s) == baseline[a].owner = "console" /\ ~Agrees(baseline[a].managed, s)

(* activeCapacity: what an account may use; an unlimited one is not known. *)
Known(s)  == s.on => s.conc > 0
Active(s) == IF s.on THEN s.conc ELSE 0

(* capacityReservation *)
Keeps(a, s)        == s.on \/ a \notin released
Reservation(a, s)  == IF Keeps(a, s) THEN s.conc ELSE 0
ReservationKnown(a, s) == Keeps(a, s) => s.conc > 0

Total(f) == MapThenSumSet(LAMBDA a : f[a], Accounts)
Positive(n) == IF n > 0 THEN n ELSE 0
Larger(m, n) == IF m > n THEN m ELSE n

(* confirmedManagedIntent: the fields of the target that took effect. *)
Confirmed(d, s) == [on   |-> IF d.on = s.on THEN s.on ELSE Null,
                    conc |-> IF d.conc = s.conc THEN s.conc ELSE Null]
Overlay(old, new) == [on   |-> IF new.on = Null THEN old.on ELSE new.on,
                      conc |-> IF new.conc = Null THEN old.conc ELSE new.conc]

(* Bug: the concurrency is not restored. *)
RestorableTraffic(a, s) ==
    LET b == baseline[a]
    IN  Changes([on |-> IF b.managed.on = s.on THEN b.before.on ELSE Null, conc |-> Null], s)

(* restorableBaselineValues: what the console set, and nobody changed since. *)
Restorable(a, s) ==
    LET b == baseline[a] IN
    Changes([on   |-> IF b.managed.on = s.on THEN b.before.on ELSE Null,
             conc |-> IF b.managed.conc = s.conc THEN b.before.conc ELSE Null], s)

(* desiredValues, with every field written automatically *)
DesiredValues(a) ==
    IF target[a].kind = "release" THEN Restorable(a, current[a])
    ELSE Changes(target[a].want, current[a])
-----------------------------------------------------------------------------
Init ==
    /\ remote \in [Accounts -> FirstSettings]
    /\ Total([a \in Accounts |-> Active(remote[a])]) <= Limit
    /\ stored = remote
    /\ waiting = {}
    /\ baseline = [a \in Accounts |-> Unowned]
    /\ target = [a \in Accounts |-> NoTarget]
    /\ stage = [a \in Accounts |-> "out"]
    /\ phase = "idle"
    /\ released = {}
    /\ current = [a \in Accounts |-> Nothing]
    /\ desired = [a \in Accounts |-> Nothing]
    /\ budget = NoBudget
    /\ remaining = 0
    /\ outcome = [a \in Accounts |-> NoOutcome]
    /\ authorized = TRUE /\ ended = FALSE
    /\ rounds = 0 /\ edits = 0 /\ incidents = 0
    /\ edited = {} /\ disturbed = FALSE

Goes(a, to) == stage' = [stage EXCEPT ![a] = to]

(* Something goes wrong: a call fails, a commit is refused.  Once its context
   is done, every call of a task fails. *)
Bounded == edits + incidents < MaxDisturbances
Incident == Bounded /\ incidents' = incidents + 1 /\ UNCHANGED <<rounds, edits>>
CallFails == (ended /\ UNCHANGED bounds) \/ Incident

(* The catalogue is synchronised between rounds. *)
Sync ==
    /\ phase = "idle" /\ stored # remote
    /\ stored' = remote
    /\ UNCHANGED <<remote, waiting, baseline, plan, prepare, stage, phase, outcome, authorized, ended,
                   bounds, history>>

(* What Calculate may want of an account.  An active one is kept, resized or
   stopped; a paused one is left, resumed, or made smaller while it waits for
   capacity (prepareRecovery). *)
Wanted(a, shared) ==
    LET s == stored[a]
        Want(o, c, w, sh) == [NoTarget EXCEPT !.kind = "set", !.want = [on |-> o, conc |-> c],
                                              !.waits = w, !.shared = sh]
        splits == shared /\ (s.on \/ a \in waiting)
        sizes  == {Null} \cup Concurrencies
    IN  IF s.on
        THEN {Want(TRUE, c, FALSE, splits) : c \in sizes}
                \cup {Want(FALSE, Null, w, splits) : w \in IF splits THEN {TRUE} ELSE BOOLEAN}
        ELSE {Want(TRUE, c, FALSE, splits) : c \in IF splits THEN {Null} ELSE sizes}
                \cup {Want(FALSE, c, TRUE, splits) : c \in {n \in Concurrencies : s.conc = 0 \/ n < s.conc}}
                \cup {Want(FALSE, Null, a \in waiting, splits)}

TargetsOf(a, shared) ==
    IF ManageAll \/ ~(baseline[a].owner = "person" \/ ExternallyModified(a, stored[a]))
    THEN {NoTarget} \cup Wanted(a, shared)
            \cup (IF baseline[a].owner = "none" THEN {} ELSE {Release})
    ELSE IF baseline[a].owner = "person" THEN {NoTarget} ELSE {Abandon}

Calculate ==
    /\ phase = "idle" /\ rounds < MaxRounds
    /\ \E shared \in BOOLEAN :
          \E f \in [Accounts -> UNION {TargetsOf(a, shared) : a \in Accounts}] :
             /\ \A a \in Accounts : f[a] \in TargetsOf(a, shared)
             /\ \E a \in Accounts : f[a] # NoTarget
             /\ target' = f
    /\ phase' = "calculated"
    /\ rounds' = rounds + 1
    /\ authorized' = TRUE /\ ended' = FALSE /\ disturbed' = FALSE
    /\ UNCHANGED <<remote, durable, released, prepare, stage, outcome, edits, incidents, edited>>

Targeted == {a \in Accounts : target[a].kind # "none"}

(* Nothing of a round is remembered. *)
Idle ==
    /\ phase' = "idle"
    /\ target' = [a \in Accounts |-> NoTarget]
    /\ stage' = [a \in Accounts |-> "out"]
    /\ released' = {}
    /\ current' = [a \in Accounts |-> Nothing]
    /\ desired' = [a \in Accounts |-> Nothing]
    /\ budget' = NoBudget
    /\ remaining' = 0
    /\ outcome' = [a \in Accounts |-> NoOutcome]

(* Apply, once it has its leases: the authorization is checked again, and
   recheck finds out which paused accounts only wait for capacity and whether
   the upstream's limit is confirmed. *)
Apply ==
    /\ phase = "calculated" /\ authorized /\ ~ended
    /\ phase' = "preparing"
    /\ stage' = [a \in Accounts |-> IF a \in Targeted THEN "todo" ELSE "out"]
    /\ released' = {a \in waiting : ~stored[a].on}
    /\ remaining' = Cardinality(Targeted)
    /\ \E known \in BOOLEAN : budget' = [NoBudget EXCEPT !.known = known]
    /\ UNCHANGED <<remote, durable, target, current, desired, outcome, authorized, ended, bounds, history>>

ApplyRefused ==
    /\ phase = "calculated" /\ ~(authorized /\ ~ended)
    /\ Idle
    /\ UNCHANGED <<remote, durable, authorized, ended, bounds, history>>
-----------------------------------------------------------------------------
(* prepareAccount, one account of the batch.  What leaves the account out is
   one and the same to the others: it arrives without a request. *)
Arrives == remaining' = remaining - 1

(* Bug: an account that is skipped does not arrive. *)
SkipSilently(a) == UNCHANGED remaining /\ Goes(a, "done")

Skip(a) == Arrives /\ Goes(a, "done")

ReadAccount(a) ==
    /\ stage[a] = "todo"
    /\ \/ /\ ~ended
          /\ current' = [current EXCEPT ![a] = remote[a]]
          /\ Goes(a, "read")
          /\ UNCHANGED <<remaining, bounds>>
       \/ CallFails /\ Skip(a) /\ UNCHANGED current
    /\ UNCHANGED <<remote, durable, plan, desired, budget, phase, outcome, authorized, ended, history>>

GivesUp(a) ==
    \/ target[a].kind = "abandon"
    \/ ~ManageAll /\ target[a].kind = "set" /\ ExternallyModified(a, current[a])

(* AbandonRoutingControl: a person has changed the account. *)
AbandonControl(a) ==
    /\ stage[a] = "read" /\ GivesUp(a)
    /\ \/ /\ ~ended
          /\ stored' = [stored EXCEPT ![a] = current[a]]
          /\ waiting' = waiting \ {a}
          /\ baseline' = [baseline EXCEPT ![a].owner = "person", ![a].managed = Nothing]
          /\ UNCHANGED bounds
       \/ CallFails /\ UNCHANGED durable
    /\ Skip(a)
    /\ UNCHANGED <<remote, plan, current, desired, budget, phase, outcome, authorized, ended, history>>

(* checkAllocation: before the batch's list read and after it. *)
NotShareable(a) == ~budget.known \/ (~current[a].on /\ a \notin released)
AllocationStale(a) == budget.failed \/ budget.snapshot[a] # current[a]

(* reserve: what needs no capacity.  A paused account needs none; reducing an
   unlimited one is always possible. *)
After(a) == With(current[a], DesiredValues(a))
NoGrowth(a) ==
    /\ Known(After(a))
    /\ \/ Known(current[a]) /\ Active(After(a)) <= Active(current[a])
       \/ Active(After(a)) = 0
       \/ current[a].on /\ current[a].conc = 0
Uncertain(a) == ~Known(After(a)) \/ ~budget.known

Grows(a) == DesiredValues(a) # Nothing /\ ~NoGrowth(a)

Decides(a) == stage[a] = "read" /\ ~GivesUp(a)
NeedsBudget(a) ==
    IF target[a].shared THEN ~NotShareable(a) ELSE Grows(a) /\ ~Uncertain(a)

(* loadRemoteCapacity, once for the batch: one list read, before any write. *)
LoadRemoteCapacity ==
    /\ \E a \in Accounts : Decides(a) /\ NeedsBudget(a)
    /\ ~budget.read
    /\ \/ /\ ~ended
          /\ budget' = [budget EXCEPT !.read = TRUE, !.snapshot = remote,
                           !.reserved = [a \in Accounts |-> Reservation(a, remote[a])]]
          /\ UNCHANGED bounds
       \/ CallFails /\ budget' = [budget EXCEPT !.read = TRUE, !.failed = TRUE]
    /\ UNCHANGED <<remote, durable, plan, current, desired, remaining, stage, phase, outcome, authorized,
                   ended, history>>

Ready(a) == Decides(a) /\ (NeedsBudget(a) => budget.read)
Refused(a) == target[a].shared /\ (NotShareable(a) \/ AllocationStale(a))

(* What reserve finds reserved: at least what the account was read to use. *)
Reserved(a) == [budget.reserved EXCEPT ![a] = Larger(@, Active(current[a]))]
(* Resuming without a concurrency uses the one the list read saw, if larger. *)
Use(a) == IF DesiredValues(a).conc = Null
          THEN Larger(Active(After(a)), budget.snapshot[a].conc) ELSE Active(After(a))
BudgetFails(a) ==
    IF budget.read /\ ~budget.failed
    THEN \/ \E b \in Accounts : ~ReservationKnown(b, budget.snapshot[b])
         \/ DesiredValues(a).conc = Null /\ budget.snapshot[a].conc = 0
    ELSE budget.failed

(* Bug: what this batch has reserved for the others is overlooked. *)
RoomAtFirst(a) ==
    Positive(Limit - Total([b \in Accounts |-> IF b = a THEN 0 ELSE Active(budget.snapshot[b])]))

(* The others keep what they have reserved, whatever this batch takes away. *)
Room(a) == Positive(Limit - (Total(Reserved(a)) - Reserved(a)[a]))

Wait(a) ==
    /\ Ready(a) /\ ~Refused(a) /\ Grows(a) /\ ~Uncertain(a) /\ ~BudgetFails(a)
    /\ Use(a) > Room(a)
    /\ budget' = [budget EXCEPT !.reserved = Reserved(a)]
    /\ Skip(a)
    /\ UNCHANGED <<remote, durable, plan, current, desired, phase, outcome, authorized, ended, bounds, history>>

Refuse(a) ==
    /\ Ready(a)
    /\ Refused(a) \/ (Grows(a) /\ (Uncertain(a) \/ BudgetFails(a)))
    /\ Skip(a)
    /\ UNCHANGED <<remote, durable, plan, current, desired, budget, phase, outcome, authorized, ended, bounds,
                   history>>

(* Bug: the values are captured again each time. *)
CapturedAgain(a) ==
    IF target[a].kind = "set" THEN [owner |-> "console", before |-> current[a], managed |-> Nothing]
    ELSE baseline[a]

(* captureRoutingBaseline: the values before the console took the account. *)
Captured(a) ==
    IF target[a].kind = "set" /\ baseline[a].owner # "console"
    THEN [owner |-> "console", before |-> current[a], managed |-> Nothing]
    ELSE baseline[a]

(* CommitRoutingReadback: the settings read back, the target's fields among
   them as managed; the baseline goes when control has been handed back. *)
Commit(a, b, s, complete) ==
    /\ stored' = [stored EXCEPT ![a] = s]
    /\ waiting' = IF target[a].kind = "set" /\ target[a].want.on = s.on /\ target[a].waits
                  THEN waiting \cup {a}
                  ELSE IF complete \/ target[a].want.on = s.on THEN waiting \ {a} ELSE waiting
    /\ baseline' = [baseline EXCEPT ![a] =
          IF complete THEN Unowned
          ELSE [b EXCEPT !.managed = Overlay(@, Confirmed(target[a].want, s))]]

(* Nothing to write: the account is as wanted. *)
Matches(a) ==
    /\ Ready(a) /\ ~Refused(a) /\ DesiredValues(a) = Nothing
    /\ \/ /\ ~ended
          /\ Commit(a, Captured(a), current[a], target[a].kind = "release")
          /\ UNCHANGED bounds
       \/ /\ CallFails
          /\ \E b \in {baseline[a], Captured(a)} : baseline' = [baseline EXCEPT ![a] = b]
          /\ UNCHANGED <<stored, waiting>>
    /\ Skip(a)
    /\ UNCHANGED <<remote, plan, current, desired, budget, phase, outcome, authorized, ended, history>>

(* The request waits for the rest of the batch, its capacity reserved. *)
Enqueue(a) ==
    /\ Ready(a) /\ ~Refused(a) /\ DesiredValues(a) # Nothing
    /\ IF NoGrowth(a) THEN UNCHANGED budget
       ELSE /\ ~Uncertain(a) /\ ~BudgetFails(a) /\ Use(a) <= Room(a)
            /\ budget' = [budget EXCEPT !.reserved = [Reserved(a) EXCEPT ![a] = Larger(@, Use(a))]]
    /\ \/ /\ ~ended \/ target[a].kind = "release"
          /\ baseline' = [baseline EXCEPT ![a] = Captured(a)]
          /\ desired' = [desired EXCEPT ![a] = DesiredValues(a)]
          /\ Goes(a, "queued") /\ Arrives
          /\ UNCHANGED bounds
       \/ CallFails /\ target[a].kind = "set" /\ Skip(a) /\ UNCHANGED <<baseline, desired>>
    /\ UNCHANGED <<remote, stored, waiting, plan, current, phase, outcome, authorized, ended, history>>
-----------------------------------------------------------------------------
(* batchWriteCoordinator: only when every account has arrived.  Equal requests
   go out together, but an account that is resumed with a concurrency is
   written on its own, and so is a lone one.  A pending request is "bulk",
   "fields", "confirm", "switch", "unclear" or "partial" until it is "wrote". *)
Resumes(d)  == d.on = TRUE /\ d.conc # Null
Alone(a)    == IF desired[a].conc # Null THEN "fields" ELSE "switch"
Together(a) == ~Resumes(desired[a])
                 /\ \E b \in Accounts \ {a} : stage[b] = "queued" /\ desired[b] = desired[a]
Queued == {a \in Accounts : stage[a] = "queued"}

Execute ==
    /\ phase = "preparing" /\ remaining = 0
    /\ \/ /\ authorized /\ ~ended
          /\ phase' = "writing"
          /\ stage' = [a \in Accounts |-> IF a \notin Queued THEN stage[a]
                                          ELSE IF Together(a) THEN "bulk" ELSE Alone(a)]
          /\ UNCHANGED outcome
       \/ /\ ~authorized \/ ended
          /\ phase' = "finishing"
          /\ stage' = [a \in Accounts |-> IF a \in Queued THEN "wrote" ELSE stage[a]]
          /\ outcome' = [a \in Accounts |-> [outcome[a] EXCEPT !.failed = a \in Queued]]
    /\ UNCHANGED <<remote, durable, plan, prepare, authorized, ended, bounds, history>>

(* A write is authorized each time it is sent.  It takes effect and is
   answered, or it is refused, or it fails with or without effect. *)
Sent   == authorized /\ ~ended
Denied == ~Sent /\ UNCHANGED <<remote, bounds>>
Answered(s, d) == Sent /\ remote' = [a \in Accounts |-> IF a \in s THEN With(remote[a], d) ELSE remote[a]]
Unanswered(s, d) ==
    \/ Denied
    \/ Incident /\ \E t \in SUBSET s : Answered(t, d)

Failed(o) == [o EXCEPT !.failed = TRUE]

(* Members of a bulk update are acknowledged one by one, as done or as failed;
   those the answer says nothing about are read back. *)
BulkWrite(d) ==
    LET group == {a \in Accounts : stage[a] = "bulk" /\ desired[a] = d}
    IN  /\ phase = "writing" /\ group # {}
        /\ \/ \E done, unclear \in SUBSET group :
                 /\ Answered(done, d)
                 /\ IF done = group /\ unclear = {} THEN UNCHANGED bounds ELSE Incident
                 /\ stage' = [a \in Accounts |-> IF a \in unclear THEN "unclear"
                                                 ELSE IF a \in group THEN "wrote" ELSE stage[a]]
                 /\ outcome' = [a \in Accounts |->
                       IF a \in group \ unclear
                       THEN [outcome[a] EXCEPT !.confirmed = a \in done, !.failed = a \notin done,
                                               !.after = IF a \in done THEN With(current[a], d) ELSE Nothing]
                       ELSE outcome[a]]
           \/ /\ Unanswered(group, d)
              /\ stage' = [a \in Accounts |-> IF a \in group THEN "wrote" ELSE stage[a]]
              /\ outcome' = [a \in Accounts |-> IF a \in group THEN Failed(outcome[a]) ELSE outcome[a]]
           \/ /\ Sent  \* an older server has no such route
              /\ stage' = [a \in Accounts |-> IF a \in group THEN Alone(a) ELSE stage[a]]
              /\ UNCHANGED <<remote, outcome, bounds>>
    /\ UNCHANGED <<durable, plan, prepare, phase, authorized, ended, history>>

(* Bug: the read is not compared with the request. *)
ReadUnclearTrusting(a) ==
    /\ stage[a] = "unclear"
    /\ \/ /\ ~ended /\ UNCHANGED bounds
          /\ outcome' = [outcome EXCEPT ![a] = [@ EXCEPT !.confirmed = TRUE, !.readback = TRUE,
                                                         !.after = With(current[a], desired[a])]]
       \/ CallFails /\ outcome' = [outcome EXCEPT ![a] = Failed(@)]
    /\ Goes(a, "wrote")
    /\ UNCHANGED <<remote, durable, plan, prepare, phase, authorized, ended, history>>

(* confirmAmbiguousBatchWrite *)
ReadUnclear(a) ==
    /\ stage[a] = "unclear"
    /\ \/ /\ ~ended /\ UNCHANGED bounds
          /\ outcome' = [outcome EXCEPT ![a] =
                IF Agrees(desired[a], remote[a])
                THEN [@ EXCEPT !.confirmed = TRUE, !.readback = TRUE, !.after = remote[a]]
                ELSE Failed(@)]
       \/ CallFails /\ outcome' = [outcome EXCEPT ![a] = Failed(@)]
    /\ Goes(a, "wrote")
    /\ UNCHANGED <<remote, durable, plan, prepare, phase, authorized, ended, history>>

(* writeRoutingValues: the concurrency, then whether it takes traffic.  An
   account is not resumed before its concurrency is set and read back. *)
PutFields(a) ==
    LET d == [desired[a] EXCEPT !.on = Null]
        next == IF desired[a].on = Null THEN "wrote" ELSE "switch"
    IN  /\ stage[a] = "fields"
        /\ \/ /\ Answered({a}, d) /\ UNCHANGED bounds
              /\ \E s \in {With(current[a], d), With(remote[a], d)} :
                    outcome' = [outcome EXCEPT ![a].confirmed = TRUE, ![a].after = s]
              /\ Goes(a, IF Resumes(desired[a]) THEN "confirm" ELSE next)
           \/ /\ Unanswered({a}, d)
              /\ outcome' = [outcome EXCEPT ![a] = Failed(@)]
              /\ Goes(a, IF Resumes(desired[a]) THEN "wrote" ELSE next)
    /\ UNCHANGED <<durable, plan, prepare, phase, authorized, ended, history>>

ConfirmConcurrency(a) ==
    /\ stage[a] = "confirm"
    /\ \/ /\ ~ended /\ remote[a].conc = desired[a].conc
          /\ Goes(a, "switch")
          /\ UNCHANGED <<outcome, bounds>>
       \/ /\ (~ended /\ remote[a].conc # desired[a].conc /\ UNCHANGED bounds) \/ CallFails
          /\ outcome' = [outcome EXCEPT ![a] = Failed(@)]
          /\ Goes(a, "partial")
    /\ UNCHANGED <<remote, durable, plan, prepare, phase, authorized, ended, history>>

SwitchTraffic(a) ==
    LET d == [desired[a] EXCEPT !.conc = Null]
        after == [outcome[a] EXCEPT !.confirmed = TRUE]
    IN  /\ stage[a] = "switch"
        /\ \/ /\ Answered({a}, d) /\ UNCHANGED bounds
              /\ \E s \in {With(current[a], desired[a]), With(remote[a], d)} :
                    outcome' = [outcome EXCEPT ![a] = [after EXCEPT !.after = s]]
              /\ Goes(a, IF outcome[a].failed THEN "partial" ELSE "wrote")
           \/ /\ Unanswered({a}, d)
              /\ outcome' = [outcome EXCEPT ![a] = Failed(@)]
              /\ Goes(a, IF outcome[a].confirmed THEN "partial" ELSE "wrote")
    /\ UNCHANGED <<durable, plan, prepare, phase, authorized, ended, history>>

(* executeSingle: only a part of the write is known to have taken effect. *)
ReadPartial(a) ==
    /\ stage[a] = "partial"
    /\ \/ /\ ~ended /\ UNCHANGED bounds
          /\ outcome' = [outcome EXCEPT ![a].after = remote[a], ![a].readback = TRUE]
       \/ CallFails /\ UNCHANGED outcome
    /\ Goes(a, "wrote")
    /\ UNCHANGED <<remote, durable, plan, prepare, phase, authorized, ended, history>>

(* verifySuccessfulWrites: one list read of what is only known by its answer. *)
ToVerify == {a \in Accounts : stage[a] = "wrote" /\ outcome[a].confirmed
                                /\ ~outcome[a].readback /\ ~outcome[a].failed}
Verified(a) ==
    LET ok == Agrees(desired[a], remote[a])
    IN  [outcome[a] EXCEPT !.after = remote[a], !.readback = ok, !.failed = ~ok]

VerifyWrites ==
    /\ phase = "writing"
    /\ \A a \in Accounts : stage[a] \in {"out", "done", "wrote"}
    /\ IF ToVerify = {} \/ ~(Verify \/ \E a \in Accounts : target[a].shared)
       THEN UNCHANGED <<outcome, bounds>>
       ELSE \/ /\ ~ended /\ UNCHANGED bounds
               /\ outcome' = [a \in Accounts |-> IF a \in ToVerify THEN Verified(a) ELSE outcome[a]]
            \/ /\ CallFails
               /\ outcome' = [a \in Accounts |-> IF a \in ToVerify THEN Failed(outcome[a]) ELSE outcome[a]]
    /\ phase' = "finishing"
    /\ UNCHANGED <<remote, durable, plan, prepare, stage, authorized, ended, history>>

(* The rest of prepareAccount: what is known of the account is recorded. *)
Knows(o) == o.confirmed /\ (o.failed => o.readback)

Finish(a) ==
    LET o == outcome[a] IN
    /\ phase = "finishing" /\ stage[a] = "wrote"
    /\ \/ /\ ~ended /\ Knows(o)
          /\ Commit(a, baseline[a], o.after, target[a].kind = "release" /\ ~o.failed)
          /\ UNCHANGED bounds
       \/ /\ (~ended /\ ~Knows(o) /\ UNCHANGED bounds) \/ CallFails
          /\ UNCHANGED durable
    /\ Goes(a, "done")
    /\ UNCHANGED <<remote, plan, prepare, phase, outcome, authorized, ended, history>>

EndRound ==
    /\ phase = "finishing" /\ \A a \in Accounts : stage[a] # "wrote"
    /\ Idle
    /\ UNCHANGED <<remote, durable, authorized, ended, bounds, history>>
-----------------------------------------------------------------------------
(* The task is cancelled or loses its lease; the policy or the mode changes;
   the process dies and forgets the round; a person edits an account, one
   field at a time. *)
EndContext ==
    /\ phase # "idle" /\ ~ended /\ Incident
    /\ ended' = TRUE
    /\ UNCHANGED <<remote, durable, plan, prepare, stage, phase, outcome, authorized, history>>

Withdraw ==
    /\ phase # "idle" /\ authorized /\ Incident
    /\ authorized' = FALSE
    /\ UNCHANGED <<remote, durable, plan, prepare, stage, phase, outcome, ended, history>>

Crash ==
    /\ phase # "idle" /\ Incident
    /\ Idle
    /\ UNCHANGED <<remote, durable, authorized, ended, history>>

HumanEdit(a) ==
    /\ Bounded /\ edits' = edits + 1
    /\ \E s \in Settings \ {remote[a]} :
          /\ s.on = remote[a].on \/ s.conc = remote[a].conc
          /\ remote' = [remote EXCEPT ![a] = s]
    /\ edited' = edited \cup {a} /\ disturbed' = TRUE
    /\ UNCHANGED <<durable, plan, prepare, stage, phase, outcome, authorized, ended, rounds, incidents>>

Prepare(a) == ReadAccount(a) \/ AbandonControl(a) \/ Wait(a) \/ Refuse(a) \/ Matches(a) \/ Enqueue(a)
Write(a) == PutFields(a) \/ ConfirmConcurrency(a) \/ SwitchTraffic(a) \/ ReadUnclear(a) \/ ReadPartial(a)

Round ==
    \/ Apply \/ ApplyRefused \/ LoadRemoteCapacity
    \/ \E a \in Accounts : Prepare(a)
    \/ Execute
    \/ \E d \in Fields : BulkWrite(d)
    \/ \E a \in Accounts : Write(a)
    \/ VerifyWrites
    \/ \E a \in Accounts : Finish(a)
    \/ EndRound

Console == Sync \/ Calculate \/ Round
Disturbance == EndContext \/ Withdraw \/ Crash \/ \E a \in Accounts : HumanEdit(a)
Next == Console \/ Disturbance

Spec == Init /\ [][Next]_vars
-----------------------------------------------------------------------------
Targets == [kind : {"none", "set", "release", "abandon"}, want : Fields, waits : BOOLEAN,
            shared : BOOLEAN]
Baselines == [owner : {"none", "console", "person"}, before : Settings \cup {Nothing}, managed : Fields]
Outcomes == [confirmed : BOOLEAN, readback : BOOLEAN, failed : BOOLEAN, after : Settings \cup {Nothing}]
Budgets == [read : BOOLEAN, failed : BOOLEAN, known : BOOLEAN,
            snapshot : [Accounts -> Settings \cup {Nothing}], reserved : [Accounts -> Nat]]
Pending == {"queued", "bulk", "fields", "confirm", "switch", "unclear", "partial", "wrote"}
Stages  == {"out", "todo", "read", "done"} \cup Pending

(* The variables have their types.  Only what the console owns has values the
   console set, only what has been read is decided on, and only what differs
   is written; before a round nothing of one is left. *)
TypeOK ==
    /\ remote \in [Accounts -> Settings] /\ stored \in [Accounts -> Settings]
    /\ waiting \subseteq Accounts /\ released \subseteq Accounts /\ edited \subseteq Accounts
    /\ baseline \in [Accounts -> Baselines] /\ target \in [Accounts -> Targets]
    /\ stage \in [Accounts -> Stages]
    /\ current \in [Accounts -> Settings \cup {Nothing}] /\ desired \in [Accounts -> Fields]
    /\ outcome \in [Accounts -> Outcomes] /\ budget \in Budgets /\ remaining \in Int
    /\ budget.read /\ ~budget.failed => budget.snapshot \in [Accounts -> Settings]
    /\ phase \in {"idle", "calculated", "preparing", "writing", "finishing"}
    /\ authorized \in BOOLEAN /\ ended \in BOOLEAN /\ disturbed \in BOOLEAN
    /\ rounds \in Nat /\ edits \in Nat /\ incidents \in Nat
    /\ \A a \in Accounts :
          /\ baseline[a].owner # "console" => baseline[a].managed = Nothing
          /\ baseline[a].owner # "none" => baseline[a].before \in Settings
          /\ stage[a] \in Pending \cup {"read"} => current[a] \in Settings
          /\ stage[a] \in Pending => desired[a] # Nothing
    /\ phase = "idle" => Targeted = {}
    /\ phase \in {"idle", "calculated"} => \A a \in Accounts : stage[a] = "out"

(* What the accounts may use of the upstream together; 0 is unlimited. *)
WithinLimit(r) ==
    /\ \A a \in Accounts : Known(r[a])
    /\ Total([a \in Accounts |-> Active(r[a])]) <= Limit
Raised == \E a \in Accounts :
    /\ remote'[a] # remote[a]
    /\ ~(Known(remote'[a]) /\ (Known(remote[a]) => Active(remote'[a]) <= Active(remote[a])))

(* A request that stops an account and gives it back a larger concurrency,
   which is written first. *)
StopRaises(a) ==
    /\ desired[a].on = FALSE /\ desired[a].conc # Null
    /\ desired[a].conc = 0 \/ desired[a].conc > current[a].conc

(* A step of the console that gives an account more traffic never takes the
   accounts together above the limit of their upstream, unless a person has
   changed one during the round: neither when several are resumed or raised in
   parallel, when a request that was to free capacity fails, nor when a bulk
   update has half an effect.  Rounds in which StopRaises are the exception:
   reserve returns before it reserves anything when the account ends paused. *)
CapacityKept ==
    [][Raised /\ ~disturbed' /\ (\A a \in Accounts : ~StopRaises(a)) => WithinLimit(remote')]_vars

(* What is recorded as an account's settings is what Sub2API holds, although
   it was read or answered earlier, after others' writes, failures and partial
   effects; edits during the round apart. *)
ProjectionConfirmed ==
    [][\A a \in Accounts : stored'[a] # stored[a] /\ ~disturbed => stored'[a] = remote[a]]_vars

(* As long as nothing fails, the console takes no write of its own for the
   change of a person: it gives up only accounts a person has edited. *)
OwnWritesRecognised ==
    [][\A a \in Accounts : baseline'[a].owner = "person" /\ incidents = 0 =>
          baseline[a].owner = "person" \/ a \in edited]_vars

(* Whoever hands back an account that nobody else has changed leaves it as it
   was before the console took it, over all rounds in between. *)
RestoresOriginal ==
    [][\A a \in Accounts :
          baseline[a].owner = "console" /\ baseline'[a].owner = "none" /\ incidents = 0 /\ a \notin edited
             => remote[a] = baseline[a].before]_vars

(* Round after round, whatever fails, the accounts are taken, written, given up
   and handed back as AccountCustody says. *)
Custody == INSTANCE AccountCustody
    WITH TakesOver <- ManageAll, settings <- remote,
         owner  <- [a \in Accounts |-> baseline[a].owner],
         before <- [a \in Accounts |-> baseline[a].before]
ImplementsCustody == Custody!CustodySpec

(* What a round needs to go on, action by action: each line is the guard of the
   action beside it, and says so without ENABLED. *)
CanPrepare(a) ==
    \/ stage[a] = "todo"                                                          \* ReadAccount
    \/ stage[a] = "read" /\ GivesUp(a)                                            \* AbandonControl
    \/ Decides(a) /\ NeedsBudget(a) /\ ~budget.read                               \* LoadRemoteCapacity
    \/ Ready(a) /\ (Refused(a) \/ (Grows(a) /\ (Uncertain(a) \/ BudgetFails(a)))) \* Refuse
    \/ Ready(a) /\ ~Refused(a) /\ DesiredValues(a) = Nothing                      \* Matches
    \/ /\ Ready(a) /\ ~Refused(a) /\ Grows(a) /\ ~Uncertain(a) /\ ~BudgetFails(a) \* Wait
       /\ Use(a) > Room(a)
    \/ /\ Ready(a) /\ ~Refused(a) /\ DesiredValues(a) # Nothing                   \* Enqueue
       /\ NoGrowth(a) \/ (~Uncertain(a) /\ ~BudgetFails(a) /\ Use(a) <= Room(a))
       /\ ~ended \/ target[a].kind \in {"set", "release"}
CanMove ==
    \/ phase = "calculated"                                                       \* Apply, ApplyRefused
    \/ phase = "finishing"                                                        \* Finish, EndRound
    \/ phase = "preparing" /\ remaining = 0                                       \* Execute
    \/ phase = "writing" /\ \E a \in Accounts : stage[a] = "bulk"                 \* BulkWrite
    \/ phase = "writing" /\ \A a \in Accounts : stage[a] \in {"out", "done", "wrote"}  \* VerifyWrites
    \/ \E a \in Accounts : stage[a] \in Pending \ {"queued", "bulk", "wrote"}      \* Write
    \/ \E a \in Accounts : CanPrepare(a)
RoundsProceed == phase # "idle" => CanMove /\ ENABLED Round

(* The steps an account and the batch have before them at most.  A step of a
   round moves one of them on, and none back. *)
Left(s) ==
    CASE s = "todo" -> 9 [] s = "read" -> 8 [] s = "queued" -> 7 [] s = "bulk" -> 6 [] s = "fields" -> 5
      [] s = "confirm" -> 4 [] s = "switch" -> 3 [] s \in {"partial", "unclear"} -> 2 [] s = "wrote" -> 1
      [] OTHER -> 0
PhasesLeft ==
    CASE phase = "preparing" -> IF budget.read THEN 3 ELSE 4
      [] phase = "writing" -> 2 [] phase = "finishing" -> 1 [] OTHER -> 0
Moves ==
    /\ PhasesLeft' <= PhasesLeft /\ \A a \in Accounts : Left(stage'[a]) <= Left(stage[a])
    /\ PhasesLeft' < PhasesLeft \/ \E a \in Accounts : Left(stage'[a]) < Left(stage[a])
StepsOnce == [][phase # "calculated" /\ ~Moves => ~Round]_vars

(* Every round ends.  None waits for ever, whichever accounts are skipped,
   refused or fail: the batch waits for each of them (the done channel in
   Apply).  And no step of a round, once it is applied, is taken again, neither
   after a failure nor after a partial effect: the list is read once, a bulk
   update that the server does not know falls back to single ones. *)
RoundsEnd == [][RoundsProceed' /\ (phase # "calculated" /\ ~Moves => ~Round)]_vars

(* What the program says of itself: it gives up an account only when a person
   has changed it ("人工修改", routingwrite/service.go and App.tsx). *)
OnlyHumanReleasesControl ==
    [][\A a \in Accounts : baseline'[a].owner = "person" => baseline[a].owner = "person" \/ a \in edited]_vars
=============================================================================

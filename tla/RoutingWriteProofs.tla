------------------------- MODULE RoutingWriteProofs -------------------------
(* What RoutingWrite records, recognises as its own and restores is right for
   any accounts, settings and limits, any number of rounds and disturbances.

   A write is recorded long after its account was read.  The invariant follows
   each account through the round (AccountInv): what is wanted of it stays what
   was decided (WantsInv); how much of the request is known to have taken
   effect (OutcomeInv); what the account then is at Sub2API, unless a person
   interferes (RemoteInv); and, while nothing has failed, that its baseline
   tells both what the console has set and what was there before (OwnInv).
   A step touches the accounts it is about; the others keep their invariant
   (Untouched).

   What the accounts use together is bounded by what is reserved for them.  The
   second invariant says that the batch waits for all (ArrivalInv), that the
   list read is what the accounts still are (SnapshotInv), what a request may
   have made of its account (FlightInv), and that whoever needs capacity finds
   room beside all that is reserved (BudgetInv); sums are compared by induction
   over sets of accounts (TotalMonotone, TotalExcept).

   Custody needs that a person's claim stands through a round (ClaimsInv), and
   progress that a round is only about accounts it wants something of
   (StagedInv). *)
EXTENDS RoutingWrite, FiniteSetTheorems, NaturalsInduction, WellFoundedInduction, TLAPS

InHand == Pending \cup {"read"}

(* Nothing has begun to be written while the batch is prepared, and a round
   without failure ends with every request written. *)
PhaseInv ==
    /\ phase \in {"idle", "calculated"} => \A a \in Accounts : outcome[a] = NoOutcome
    /\ phase = "preparing" => \A a \in Accounts : stage[a] \in {"out", "todo", "read", "queued", "done"}
    /\ incidents = 0 =>
          /\ authorized /\ ~ended
          /\ phase = "finishing" => \A a \in Accounts : stage[a] \in {"out", "done", "wrote"}

(* A request is what was wanted when it was made, a request to set values has a
   baseline to return to, and only control that was taken is given up. *)
WantsInv(a) ==
    /\ stage[a] \in Pending =>
          /\ desired[a] = DesiredValues(a)
          /\ target[a].kind = "set" => baseline[a].owner = "console"
    /\ target[a].kind = "abandon" => baseline[a].owner # "none"
    /\ target[a].kind # "set" => target[a].want = Nothing

(* How much is known of the request: nothing before it is sent, not that it has
   failed before it is to be confirmed, not how the account is before it is read,
   but something before it is recorded. *)
OutcomeInv(a) ==
    /\ stage[a] \in {"todo", "read", "queued", "bulk", "fields", "unclear"} => outcome[a] = NoOutcome
    /\ stage[a] = "confirm" => ~outcome[a].failed /\ ~outcome[a].readback /\ desired[a].conc # Null
    /\ stage[a] = "switch" => ~outcome[a].readback
    /\ stage[a] = "partial" => outcome[a].failed /\ ~outcome[a].readback
    /\ stage[a] = "wrote" /\ Knows(outcome[a]) => outcome[a].after # Nothing

(* Nobody else has written the account since it was read. *)
Quiet(a) == ~disturbed \/ a \notin edited
RemoteInv(a) ==
    Quiet(a) =>
      /\ stage[a] \in {"read", "queued", "bulk", "fields"} => current[a] = remote[a]
      /\ stage[a] = "confirm" \/ (stage[a] = "switch" /\ ~outcome[a].failed)
            => remote[a] = With(current[a], [desired[a] EXCEPT !.on = Null])
      /\ stage[a] = "wrote" /\ Knows(outcome[a]) => outcome[a].after = remote[a]

(* Each value was set by the console or is still that of before. *)
Kept(a, s) ==
    /\ Agrees(baseline[a].managed, s)
    /\ baseline[a].managed.on = Null => baseline[a].before.on = s.on
    /\ baseline[a].managed.conc = Null => baseline[a].before.conc = s.conc

Clean(a) == a \notin edited /\ incidents = 0
OwnInv(a) ==
    Clean(a) =>
      /\ target[a].kind # "abandon"
      /\ stage[a] \notin {"unclear", "partial"}
      /\ stage[a] = "switch" => ~outcome[a].failed
      /\ stage[a] = "wrote" =>
            /\ outcome[a].confirmed /\ ~outcome[a].failed
            /\ remote[a] = With(current[a], desired[a])
      /\ stage[a] \in {"out", "todo", "done"} =>
            /\ stored[a] = remote[a]
            /\ baseline[a].owner = "console" => Kept(a, remote[a])
      /\ stage[a] \in InHand =>
            /\ stored[a] = current[a]
            /\ baseline[a].owner = "console" => Kept(a, current[a])

AccountInv(a) == WantsInv(a) /\ OutcomeInv(a) /\ RemoteInv(a) /\ OwnInv(a)
IInv == TypeOK /\ PhaseInv /\ \A a \in Accounts : AccountInv(a)
-----------------------------------------------------------------------------
(* Settings and requests *)

LEMMA WithType == ASSUME NEW s \in Settings, NEW d \in Fields PROVE With(s, d) \in Settings
  BY WriteAssumption DEF With, Settings, Fields

LEMMA ChangesType ==
  ASSUME NEW s \in Settings, NEW d \in Fields PROVE Changes(d, s) \in Fields
  BY WriteAssumption DEF Changes, Settings, Fields

LEMMA PartType ==
  ASSUME NEW d \in Fields
  PROVE  [d EXCEPT !.on = Null] \in Fields /\ [d EXCEPT !.conc = Null] \in Fields
  BY WriteAssumption DEF Fields

LEMMA NothingIsFields == Nothing \in Fields
  BY DEF Nothing, Fields

(* A request that has been carried out is agreed with. *)
LEMMA WithAgrees ==
  ASSUME NEW s \in Settings, NEW d \in Fields PROVE Agrees(d, With(s, d))
  BY WriteAssumption DEF With, Agrees, Settings, Fields

(* A request may be carried out in two parts, concurrency first. *)
LEMMA WithParts ==
  ASSUME NEW s \in Settings, NEW d \in Fields
  PROVE  /\ With(With(s, [d EXCEPT !.on = Null]), [d EXCEPT !.conc = Null]) = With(s, d)
         /\ d.on = Null => [d EXCEPT !.on = Null] = d
         /\ d.conc = Null => With(s, [d EXCEPT !.on = Null]) = s
         /\ With(s, Nothing) = s
  BY WriteAssumption DEF With, Settings, Fields, Nothing

LEMMA ConfirmedType ==
  ASSUME NEW s \in Settings, NEW d \in Fields PROVE Confirmed(d, s) \in Fields
  BY WriteAssumption DEF Confirmed, Settings, Fields

LEMMA OverlayType ==
  ASSUME NEW d \in Fields, NEW e \in Fields
  PROVE  Overlay(d, e) \in Fields /\ Overlay(Nothing, Nothing) = Nothing
  BY WriteAssumption DEF Overlay, Fields, Nothing

LEMMA RestorableType ==
  ASSUME NEW a \in Accounts, NEW s \in Settings, baseline[a] \in Baselines
  PROVE  Restorable(a, s) \in Fields
  BY WriteAssumption DEF Restorable, Changes, Baselines, Settings, Fields, Nothing

LEMMA DesiredType ==
  ASSUME NEW a \in Accounts, TypeOK, current[a] \in Settings
  PROVE  DesiredValues(a) \in Fields
  <1>1. baseline[a] \in Baselines /\ target[a].want \in Fields
    BY DEF TypeOK, Targets
  <1> QED
    BY <1>1, RestorableType, ChangesType DEF DesiredValues

(* What is restorable of an account in which nothing but what the console set
   differs from before leads back to before. *)
LEMMA RestorableRestores ==
  ASSUME NEW a \in Accounts, NEW s \in Settings, baseline[a] \in Baselines,
         baseline[a].before \in Settings, Kept(a, s)
  PROVE  With(s, Restorable(a, s)) = baseline[a].before
  BY WriteAssumption DEF Restorable, Changes, With, Kept, Agrees, Baselines, Settings, Fields, Nothing

(* What has been set and recorded keeps the baseline true. *)
LEMMA RecordKeeps ==
  ASSUME NEW s \in Settings, NEW w \in Fields, NEW m \in Fields, NEW b \in Settings,
         Agrees(m, s), m.on = Null => b.on = s.on, m.conc = Null => b.conc = s.conc,
         NEW t, t = With(s, Changes(w, s)),
         NEW n, n = Overlay(m, Confirmed(w, t))
  PROVE  /\ Agrees(n, t)
         /\ n.on = Null => b.on = t.on
         /\ n.conc = Null => b.conc = t.conc
  BY WriteAssumption DEF With, Changes, Overlay, Confirmed, Agrees, Settings, Fields
-----------------------------------------------------------------------------
(* The accounts a step is not about *)

Same(a) ==
    /\ remote'[a] = remote[a] /\ stored'[a] = stored[a] /\ baseline'[a] = baseline[a]
    /\ target'[a] = target[a] /\ stage'[a] = stage[a] /\ current'[a] = current[a]
    /\ desired'[a] = desired[a] /\ outcome'[a] = outcome[a]

(* What may have happened to spoil a round is not forgotten during it. *)
Later ==
    /\ edited \subseteq edited' /\ (disturbed => disturbed')
    /\ incidents' = 0 => incidents = 0

LEMMA Untouched ==
  ASSUME NEW a \in Accounts, AccountInv(a), Same(a), Later
  PROVE  AccountInv(a)'
  <1>1. Quiet(a)' => Quiet(a)
    BY DEF Quiet, Later
  <1>2. Clean(a)' => Clean(a)
    BY DEF Clean, Later
  <1>3. DesiredValues(a)' = DesiredValues(a)
    BY DEF DesiredValues, Restorable, Same
  <1>4. /\ Kept(a, remote[a]) => Kept(a, remote[a])'
        /\ Kept(a, current[a]) => Kept(a, current[a])'
    BY DEF Kept, Agrees, Same
  <1>5. WantsInv(a)'
    BY <1>3 DEF AccountInv, WantsInv, Same
  <1>6. OutcomeInv(a)'
    BY DEF AccountInv, OutcomeInv, Same, Knows
  <1>7. RemoteInv(a)'
    BY <1>1 DEF AccountInv, RemoteInv, Same, With, Knows
  <1>8. OwnInv(a)'
    BY <1>2, <1>4 DEF AccountInv, OwnInv, Same, With
  <1> QED
    BY <1>5, <1>6, <1>7, <1>8 DEF AccountInv

(* An incident is counted. *)
LEMMA BoundsCount ==
  ASSUME TypeOK, UNCHANGED bounds \/ CallFails \/ Incident
  PROVE  /\ rounds' \in Nat /\ edits' \in Nat /\ incidents' \in Nat
         /\ incidents' = 0 => incidents = 0
         /\ Incident => incidents' # 0
         /\ CallFails /\ PhaseInv => incidents' # 0
  BY DEF TypeOK, bounds, CallFails, Incident, PhaseInv

(* Nothing is left of a round, and nothing is lost of what was known. *)
LEMMA IdleTypes ==
  ASSUME TypeOK, Idle
  PROVE  /\ target' \in [Accounts -> Targets] /\ stage' \in [Accounts -> Stages]
         /\ released' \subseteq Accounts
         /\ current' \in [Accounts -> Settings \cup {Nothing}] /\ desired' \in [Accounts -> Fields]
         /\ outcome' \in [Accounts -> Outcomes] /\ budget' \in Budgets /\ ~budget'.read
         /\ remaining' \in Int
  <1>1. /\ NoTarget \in Targets /\ NoOutcome \in Outcomes /\ "out" \in Stages
        /\ Nothing \in Settings \cup {Nothing} /\ Nothing \in Fields
    BY NothingIsFields DEF NoTarget, Targets, NoOutcome, Outcomes, Stages
  <1>2. NoBudget \in Budgets /\ ~NoBudget.read
    BY DEF NoBudget, Budgets
  <1> QED
    BY <1>1, <1>2 DEF Idle

LEMMA IdleInv ==
  ASSUME IInv, Idle, UNCHANGED <<remote, durable, authorized, ended, history>>,
         UNCHANGED bounds \/ Incident,
         \/ \A a \in Accounts : stage[a] \in {"out", "done"}
         \/ incidents' # 0
  PROVE  IInv'
  <1> USE DEF durable, history
  <1>1. TypeOK'
    <2>1. /\ rounds' \in Nat /\ edits' \in Nat /\ incidents' \in Nat
      BY BoundsCount DEF IInv
    <2>2. \A a \in Accounts : target'[a] = NoTarget /\ stage'[a] = "out"
      BY DEF Idle
    <2> HIDE DEF durable, history
    <2>3. /\ remote' \in [Accounts -> Settings] /\ stored' \in [Accounts -> Settings]
          /\ waiting' \subseteq Accounts /\ edited' \subseteq Accounts
          /\ baseline' \in [Accounts -> Baselines]
          /\ authorized' \in BOOLEAN /\ ended' \in BOOLEAN /\ disturbed' \in BOOLEAN
      BY DEF IInv, TypeOK, durable, history
    <2>4. \A a \in Accounts :
            /\ baseline'[a].owner # "console" => baseline'[a].managed = Nothing
            /\ baseline'[a].owner # "none" => baseline'[a].before \in Settings
            /\ stage'[a] \notin Pending \cup {"read"}
      BY <2>2 DEF IInv, TypeOK, durable, Pending
    <2>5. phase' = "idle" /\ Targeted' = {}
      BY <2>2 DEF Idle, Targeted, NoTarget
    <2> QED
      BY <2>1, <2>2, <2>3, <2>4, <2>5, IdleTypes DEF IInv, TypeOK
  <1>2. PhaseInv'
    <2>1. phase' = "idle" /\ \A a \in Accounts : outcome'[a] = NoOutcome
      BY DEF Idle
    <2>2. incidents' = 0 => authorized' /\ ~ended'
      BY BoundsCount DEF IInv, PhaseInv
    <2> QED
      BY <2>1, <2>2 DEF PhaseInv
  <1>3. ASSUME NEW a \in Accounts PROVE AccountInv(a)'
    <2>1. stage'[a] = "out" /\ target'[a] = NoTarget
      BY DEF Idle
    <2>2. WantsInv(a)' /\ OutcomeInv(a)' /\ RemoteInv(a)'
      BY <2>1 DEF WantsInv, OutcomeInv, RemoteInv, Pending, NoTarget
    <2>3. ASSUME Clean(a)' PROVE stage[a] \in {"out", "done"} /\ Clean(a)
      BY <2>3, BoundsCount DEF IInv, Clean
    <2>4. Kept(a, remote[a])' <=> Kept(a, remote[a])
      BY DEF Kept, Agrees
    <2>5. OwnInv(a)'
      BY <2>1, <2>3, <2>4 DEF IInv, AccountInv, OwnInv, NoTarget, InHand, Pending
    <2> QED
      BY <2>2, <2>5 DEF AccountInv
  <1> QED
    BY <1>1, <1>2, <1>3 DEF IInv
-----------------------------------------------------------------------------
(* Between rounds *)

LEMMA SyncStep == ASSUME IInv, Sync PROVE IInv'
  <1>1. TypeOK'
    BY DEF IInv, Sync, TypeOK, Targeted, plan, prepare, bounds, history
  <1>2. PhaseInv'
    BY DEF IInv, Sync, PhaseInv, bounds
  <1>3. ASSUME NEW a \in Accounts PROVE AccountInv(a)'
    <2>1. stage[a] = "out" /\ stage'[a] = "out"
      BY DEF IInv, TypeOK, Sync
    <2>2. WantsInv(a)' /\ OutcomeInv(a)' /\ RemoteInv(a)'
      BY <2>1 DEF IInv, AccountInv, WantsInv, OutcomeInv, RemoteInv, Pending, Sync, plan
    <2>3. Clean(a)' => Clean(a)
      BY DEF Sync, Clean, bounds, history
    <2>4. Kept(a, remote[a]) => Kept(a, remote[a])'
      BY DEF Kept, Agrees, Sync
    <2>5. stored'[a] = remote'[a] /\ baseline'[a] = baseline[a] /\ target'[a] = target[a]
      BY DEF Sync, plan
    <2>6. OwnInv(a)'
      BY <2>1, <2>3, <2>4, <2>5 DEF IInv, AccountInv, OwnInv, InHand, Pending
    <2> QED
      BY <2>2, <2>6 DEF AccountInv
  <1> QED
    BY <1>1, <1>2, <1>3 DEF IInv

LEMMA WantedType ==
  ASSUME NEW a \in Accounts, NEW shared \in BOOLEAN, NEW t \in Wanted(a, shared)
  PROVE  t \in Targets /\ t.kind = "set"
  <1> DEFINE Want(o, c, w, sh) == [NoTarget EXCEPT !.kind = "set", !.want = [on |-> o, conc |-> c],
                                                  !.waits = w, !.shared = sh]
  <1>1. ASSUME NEW o \in BOOLEAN, NEW c \in Concurrencies \cup {Null}, NEW w \in BOOLEAN, NEW sh \in BOOLEAN
        PROVE  Want(o, c, w, sh) \in Targets /\ Want(o, c, w, sh).kind = "set"
    BY DEF NoTarget, Targets, Fields
  <1>2. (shared /\ (stored[a].on \/ a \in waiting)) \in BOOLEAN /\ (a \in waiting) \in BOOLEAN
    OBVIOUS
  <1>3. \E o \in BOOLEAN, c \in Concurrencies \cup {Null}, w \in BOOLEAN, sh \in BOOLEAN :
           t = Want(o, c, w, sh)
    BY <1>2 DEF Wanted
  <1> HIDE DEF Want
  <1>4. PICK o \in BOOLEAN, c \in Concurrencies \cup {Null}, w \in BOOLEAN, sh \in BOOLEAN :
           t = Want(o, c, w, sh)
    BY <1>3
  <1> QED
    BY <1>1, <1>4

LEMMA TargetsOfType ==
  ASSUME NEW a \in Accounts, NEW shared \in BOOLEAN, NEW t \in TargetsOf(a, shared)
  PROVE  /\ t \in Targets
         /\ t.kind = "abandon" => ExternallyModified(a, stored[a])
         /\ t.kind # "set" => t.want = Nothing
  <1>1. /\ NoTarget \in Targets /\ Release \in Targets /\ Abandon \in Targets
        /\ NoTarget.kind = "none" /\ Release.kind = "release"
        /\ NoTarget.want = Nothing /\ Release.want = Nothing /\ Abandon.want = Nothing
    BY NothingIsFields DEF NoTarget, Release, Abandon, Targets
  <1> QED
    BY <1>1, WantedType DEF TargetsOf

LEMMA CalculateStep == ASSUME IInv, Calculate PROVE IInv'
  <1>1. \A a \in Accounts : \E shared \in BOOLEAN : target'[a] \in TargetsOf(a, shared)
    BY DEF Calculate
  <1>2. target' \in [Accounts -> Targets]
    <2>1. PICK shared \in BOOLEAN : target' \in [Accounts -> UNION {TargetsOf(a, shared) : a \in Accounts}]
      BY DEF Calculate
    <2> QED
      BY <1>1, <2>1, TargetsOfType
  <1>3. TypeOK'
    <2>1. /\ phase' = "calculated" /\ authorized' \in BOOLEAN /\ ended' \in BOOLEAN
          /\ disturbed' \in BOOLEAN /\ rounds' \in Nat
      <3>1. rounds \in Nat
        BY DEF IInv, TypeOK
      <3>2. rounds' \in Nat
        BY <3>1, WriteAssumption DEF Calculate
      <3>3. authorized' \in BOOLEAN /\ ended' \in BOOLEAN /\ disturbed' \in BOOLEAN
        BY DEF Calculate
      <3>4. phase' = "calculated"
        BY DEF Calculate
      <3> QED
        BY <3>2, <3>3, <3>4
    <2>2. UNCHANGED <<remote, stored, waiting, baseline, released, current, desired, budget, remaining,
                      stage, outcome, edits, incidents, edited>>
      BY DEF Calculate, durable, prepare
    <2>3. \A a \in Accounts :
            /\ stage'[a] = "out"
            /\ baseline'[a].owner # "console" => baseline'[a].managed = Nothing
            /\ baseline'[a].owner # "none" => baseline'[a].before \in Settings
      BY <2>2 DEF IInv, TypeOK, Calculate
    <2>4. /\ remote' \in [Accounts -> Settings] /\ stored' \in [Accounts -> Settings]
          /\ waiting' \subseteq Accounts /\ released' \subseteq Accounts /\ edited' \subseteq Accounts
          /\ baseline' \in [Accounts -> Baselines] /\ stage' \in [Accounts -> Stages]
          /\ current' \in [Accounts -> Settings \cup {Nothing}] /\ desired' \in [Accounts -> Fields]
          /\ outcome' \in [Accounts -> Outcomes] /\ budget' \in Budgets /\ remaining' \in Int
          /\ budget'.read /\ ~budget'.failed => budget'.snapshot \in [Accounts -> Settings]
          /\ edits' \in Nat /\ incidents' \in Nat
      BY <2>2 DEF IInv, TypeOK
    <2> QED
      BY <1>2, <2>1, <2>3, <2>4 DEF TypeOK, Pending
  <1>4. PhaseInv'
    BY DEF IInv, Calculate, PhaseInv
  <1>5. ASSUME NEW a \in Accounts PROVE AccountInv(a)'
    <2>1. stage[a] = "out" /\ stage'[a] = "out"
      BY DEF IInv, TypeOK, Calculate
    <2>2. /\ target'[a].kind = "abandon" => baseline'[a].owner = "console"
          /\ target'[a].kind # "set" => target'[a].want = Nothing
      BY <1>1, TargetsOfType DEF ExternallyModified, Calculate, durable
    <2>3. WantsInv(a)' /\ OutcomeInv(a)' /\ RemoteInv(a)'
      BY <2>1, <2>2 DEF WantsInv, OutcomeInv, RemoteInv, Pending
    <2>4. Clean(a)' => Clean(a)
      BY DEF Calculate, Clean
    <2>5. /\ Kept(a, remote[a]) => Kept(a, remote[a])'
          /\ stored'[a] = stored[a] /\ remote'[a] = remote[a] /\ baseline'[a] = baseline[a]
      BY DEF Kept, Agrees, Calculate, durable
    <2>6. Clean(a)' => ~ExternallyModified(a, stored[a])
      BY <2>1, <2>4 DEF IInv, AccountInv, OwnInv, ExternallyModified, Kept
    <2>7. Clean(a)' => target'[a].kind # "abandon"
      BY <1>1, <2>6, TargetsOfType
    <2>8. OwnInv(a)'
      BY <2>1, <2>4, <2>5, <2>7 DEF IInv, AccountInv, OwnInv, InHand, Pending
    <2> QED
      BY <2>3, <2>8 DEF AccountInv
  <1> QED
    BY <1>3, <1>4, <1>5 DEF IInv

LEMMA ApplyStep == ASSUME IInv, Apply PROVE IInv'
  <1>1. stage' \in [Accounts -> Stages] /\ \A a \in Accounts : stage'[a] \in {"todo", "out"}
    BY DEF Apply, Stages
  <1>2. budget' \in Budgets /\ ~budget'.read
    <2>1. NoBudget \in Budgets /\ ~NoBudget.read
      BY DEF NoBudget, Budgets
    <2> QED
      BY <2>1 DEF Apply, Budgets
  <1>3. remaining' \in Int
    <2>1. IsFiniteSet(Targeted)
      BY FS_Subset, WriteAssumption DEF Targeted
    <2> QED
      BY <2>1, FS_CardinalityType DEF Apply
  <1>4. TypeOK'
    BY <1>1, <1>2, <1>3 DEF IInv, Apply, TypeOK, durable, bounds, history, Pending
  <1>5. PhaseInv'
    BY <1>1 DEF IInv, Apply, PhaseInv, bounds
  <1>6. ASSUME NEW a \in Accounts PROVE AccountInv(a)'
    <2>1. stage[a] = "out" /\ stage'[a] \in {"todo", "out"} /\ outcome'[a] = NoOutcome
      BY <1>1 DEF IInv, TypeOK, PhaseInv, Apply
    <2>2. WantsInv(a)' /\ OutcomeInv(a)' /\ RemoteInv(a)'
      BY <2>1 DEF IInv, AccountInv, WantsInv, OutcomeInv, RemoteInv, Pending, Apply, durable
    <2>3. Clean(a)' => Clean(a)
      BY DEF Apply, Clean, bounds, history
    <2>4. /\ Kept(a, remote[a]) => Kept(a, remote[a])'
          /\ stored'[a] = stored[a] /\ remote'[a] = remote[a] /\ baseline'[a] = baseline[a]
          /\ target'[a] = target[a]
      BY DEF Kept, Agrees, Apply, durable
    <2>5. OwnInv(a)'
      BY <2>1, <2>3, <2>4 DEF IInv, AccountInv, OwnInv, InHand, Pending
    <2> QED
      BY <2>2, <2>5 DEF AccountInv
  <1> QED
    BY <1>4, <1>5, <1>6 DEF IInv

LEMMA ApplyRefusedStep == ASSUME IInv, ApplyRefused PROVE IInv'
  <1>1. \A a \in Accounts : stage[a] \in {"out", "done"}
    BY DEF IInv, TypeOK, ApplyRefused
  <1> QED
    BY <1>1, IdleInv DEF ApplyRefused

LEMMA EndRoundStep == ASSUME IInv, EndRound PROVE IInv'
  <1>1. incidents' # 0 \/ \A a \in Accounts : stage[a] \in {"out", "done"}
    BY DEF IInv, PhaseInv, EndRound, bounds
  <1> QED
    BY <1>1, IdleInv DEF EndRound

LEMMA CrashStep == ASSUME IInv, Crash PROVE IInv'
  <1>1. incidents' # 0
    BY BoundsCount DEF IInv, Crash
  <1> QED
    BY <1>1, IdleInv DEF Crash
-----------------------------------------------------------------------------
(* The preparation of an account *)

LEMMA OneAccount ==
  ASSUME IInv, NEW a \in Accounts, TypeOK', PhaseInv', AccountInv(a)', Later,
         \A b \in Accounts \ {a} : Same(b)
  PROVE  IInv'
  <1>1. ASSUME NEW b \in Accounts PROVE AccountInv(b)'
    BY Untouched DEF IInv
  <1> QED
    BY <1>1 DEF IInv

LEMMA ReadAccountStep == ASSUME IInv, NEW a \in Accounts, ReadAccount(a) PROVE IInv'
  <1>1. /\ stage[a] = "todo"
        /\ \/ ~ended /\ current' = [current EXCEPT ![a] = remote[a]]
                /\ stage' = [stage EXCEPT ![a] = "read"] /\ UNCHANGED <<remaining, bounds>>
           \/ CallFails /\ remaining' = remaining - 1
                /\ stage' = [stage EXCEPT ![a] = "done"] /\ UNCHANGED current
        /\ UNCHANGED <<remote, stored, waiting, baseline, target, released, desired, budget, phase,
                       outcome, authorized, ended, edited, disturbed>>
    BY DEF ReadAccount, Goes, Skip, Arrives, durable, plan, history
  <1>2. /\ rounds' \in Nat /\ edits' \in Nat /\ incidents' \in Nat
        /\ incidents' = 0 => incidents = 0
        /\ incidents' = 0 => stage'[a] = "read"
    BY <1>1, BoundsCount DEF IInv, TypeOK
  <1>3. TypeOK'
    <2>1. /\ stage' \in [Accounts -> Stages] /\ stage'[a] \in {"read", "done"}
          /\ \A b \in Accounts \ {a} : stage'[b] = stage[b]
      BY <1>1 DEF IInv, TypeOK, Stages
    <2>2. /\ current' \in [Accounts -> Settings \cup {Nothing}]
          /\ stage'[a] = "read" => current'[a] \in Settings
          /\ \A b \in Accounts \ {a} : current'[b] = current[b]
      BY <1>1 DEF IInv, TypeOK
    <2>3. remaining' \in Int
      BY <1>1 DEF IInv, TypeOK
    <2>4. phase \notin {"idle", "calculated"}
      BY <1>1 DEF IInv, TypeOK
    <2> QED
      BY <1>1, <1>2, <2>1, <2>2, <2>3, <2>4 DEF IInv, TypeOK, Pending
  <1>4. PhaseInv'
    BY <1>1, <1>2 DEF IInv, TypeOK, PhaseInv
  <1>5. AccountInv(a)'
    <2>1. stage'[a] \in {"read", "done"}
      BY <1>1 DEF IInv, TypeOK
    <2>2. WantsInv(a)' /\ OutcomeInv(a)'
      BY <1>1, <2>1 DEF IInv, AccountInv, WantsInv, OutcomeInv, Pending
    <2>3. stage'[a] = "read" => current'[a] = remote[a]
      BY <1>1 DEF IInv, TypeOK
    <2>4. RemoteInv(a)'
      BY <1>1, <2>1, <2>3 DEF RemoteInv
    <2>5. /\ Clean(a)' => Clean(a)
          /\ Kept(a, remote[a]) => Kept(a, remote[a])'
          /\ stage'[a] = "read" /\ Kept(a, remote[a]) => Kept(a, current[a])'
      BY <1>1, <1>2, <2>3 DEF Clean, Kept, Agrees
    <2>6. OwnInv(a)'
      BY <1>1, <1>2, <2>1, <2>3, <2>5 DEF IInv, AccountInv, OwnInv, InHand, Pending
    <2> QED
      BY <2>2, <2>4, <2>6 DEF AccountInv
  <1>6. Later /\ \A b \in Accounts \ {a} : Same(b)
    BY <1>1, <1>2 DEF IInv, TypeOK, Later, Same
  <1> QED
    BY <1>3, <1>4, <1>5, <1>6, OneAccount

(* An account that is left out: read, but nothing is done about it. *)
LEMMA SkipStep ==
  ASSUME IInv, NEW a \in Accounts, stage[a] = "read", Skip(a),
         UNCHANGED <<remote, stored, waiting, baseline, plan, current, desired, phase, outcome,
                     authorized, ended, history>>,
         budget' \in Budgets, budget'.read = budget.read, budget'.failed = budget.failed,
         budget'.snapshot = budget.snapshot, UNCHANGED bounds \/ CallFails
  PROVE  IInv'
  <1>1. remaining' = remaining - 1 /\ stage' = [stage EXCEPT ![a] = "done"]
    BY DEF Skip, Arrives, Goes
  <1>2. /\ rounds' \in Nat /\ edits' \in Nat /\ incidents' \in Nat
        /\ incidents' = 0 => incidents = 0
    BY BoundsCount DEF IInv
  <1>3. TypeOK'
    <2>1. /\ stage' \in [Accounts -> Stages] /\ stage'[a] = "done"
          /\ \A b \in Accounts \ {a} : stage'[b] = stage[b]
      BY <1>1 DEF IInv, TypeOK, Stages
    <2>2. remaining' \in Int
      BY <1>1 DEF IInv, TypeOK
    <2>3. phase \notin {"idle", "calculated"}
      BY DEF IInv, TypeOK
    <2> QED
      BY <1>2, <2>1, <2>2, <2>3 DEF IInv, TypeOK, Pending, plan, history
  <1>4. PhaseInv'
    BY <1>1, <1>2 DEF IInv, TypeOK, PhaseInv
  <1>5. AccountInv(a)'
    <2>1. stage'[a] = "done"
      BY <1>1 DEF IInv, TypeOK
    <2>2. WantsInv(a)' /\ OutcomeInv(a)' /\ RemoteInv(a)'
      BY <2>1 DEF IInv, AccountInv, WantsInv, OutcomeInv, RemoteInv, Pending, plan
    <2>3. Clean(a)' => Clean(a) /\ Quiet(a)
      BY <1>2 DEF Clean, Quiet, history
    <2>4. Clean(a)' => current[a] = remote[a]
      BY <2>3 DEF IInv, AccountInv, RemoteInv
    <2>5. Kept(a, remote[a]) => Kept(a, remote[a])'
      BY DEF Kept, Agrees
    <2>6. OwnInv(a)'
      BY <2>1, <2>3, <2>4, <2>5 DEF IInv, AccountInv, OwnInv, InHand, Pending, plan
    <2> QED
      BY <2>2, <2>6 DEF AccountInv
  <1>6. Later /\ \A b \in Accounts \ {a} : Same(b)
    BY <1>1, <1>2 DEF IInv, TypeOK, Later, Same, plan, history
  <1> QED
    BY <1>3, <1>4, <1>5, <1>6, OneAccount

LEMMA LargerType ==
  ASSUME NEW f \in [Accounts -> Nat], NEW a \in Accounts, NEW n \in Nat
  PROVE  [f EXCEPT ![a] = Larger(@, n)] \in [Accounts -> Nat]
  BY DEF Larger

LEMMA ActiveType == ASSUME NEW s \in Settings PROVE Active(s) \in Nat
  <1>1. s.conc \in Concurrencies \cup {0}
    BY DEF Settings
  <1>2. \A c \in Concurrencies : c \in Nat
    BY WriteAssumption
  <1>3. s.conc \in Nat
    BY <1>1, <1>2
  <1> QED
    BY <1>3 DEF Active

LEMMA ReservedType ==
  ASSUME TypeOK, NEW a \in Accounts, current[a] \in Settings
  PROVE  Reserved(a) \in [Accounts -> Nat]
  <1>1. budget.reserved \in [Accounts -> Nat]
    BY DEF TypeOK, Budgets
  <1>2. Active(current[a]) \in Nat
    BY ActiveType
  <1> QED
    BY <1>1, <1>2, LargerType DEF Reserved

LEMMA WaitStep == ASSUME IInv, NEW a \in Accounts, Wait(a) PROVE IInv'
  <1>1. stage[a] = "read"
    BY DEF Wait, Ready, Decides
  <1>2. current[a] \in Settings
    BY <1>1 DEF IInv, TypeOK
  <1>3. /\ budget' \in Budgets /\ budget'.read = budget.read /\ budget'.failed = budget.failed
        /\ budget'.snapshot = budget.snapshot
    BY <1>2, ReservedType DEF Wait, IInv, TypeOK, Budgets
  <1> QED
    BY <1>1, <1>3, SkipStep DEF Wait, durable

LEMMA RefuseStep == ASSUME IInv, NEW a \in Accounts, Refuse(a) PROVE IInv'
  <1>1. stage[a] = "read"
    BY DEF Refuse, Ready, Decides
  <1>2. budget' \in Budgets /\ UNCHANGED budget
    BY DEF Refuse, IInv, TypeOK
  <1> QED
    BY <1>1, <1>2, SkipStep DEF Refuse, durable

(* captureRoutingBaseline makes a baseline that is kept by what was read. *)
LEMMA CapturedFacts ==
  ASSUME TypeOK, NEW a \in Accounts, current[a] \in Settings
  PROVE  /\ Captured(a) \in Baselines
         /\ Captured(a).owner # "console" => Captured(a).managed = Nothing
         /\ Captured(a).owner # "none" => Captured(a).before \in Settings
         /\ baseline[a].owner # "none" => Captured(a).owner # "none"
         /\ target[a].kind = "set" => Captured(a).owner = "console"
         /\ target[a].kind # "set" => Captured(a) = baseline[a]
         /\ \/ Captured(a) = baseline[a]
            \/ Captured(a).before = current[a] /\ Captured(a).managed = Nothing
  BY NothingIsFields DEF TypeOK, Captured, Baselines

LEMMA CommitTypes ==
  ASSUME TypeOK, NEW a \in Accounts, WantsInv(a),
         NEW b \in Baselines, NEW s \in Settings, NEW complete \in BOOLEAN,
         b.owner # "console" => b.managed = Nothing,
         b.owner # "none" => b.before \in Settings,
         target[a].kind = "set" => b.owner = "console",
         Commit(a, b, s, complete)
  PROVE  /\ stored' \in [Accounts -> Settings] /\ waiting' \subseteq Accounts
         /\ baseline' \in [Accounts -> Baselines]
         /\ baseline'[a].owner # "console" => baseline'[a].managed = Nothing
         /\ baseline'[a].owner # "none" => baseline'[a].before \in Settings
         /\ stored'[a] = s
         /\ baseline'[a] = IF complete THEN Unowned
                           ELSE [b EXCEPT !.managed = Overlay(@, Confirmed(target[a].want, s))]
         /\ \A c \in Accounts \ {a} : stored'[c] = stored[c] /\ baseline'[c] = baseline[c]
  <1> DEFINE new == [b EXCEPT !.managed = Overlay(@, Confirmed(target[a].want, s))]
  <1>1. target[a].want \in Fields /\ b.managed \in Fields
    BY DEF TypeOK, Targets, Baselines
  <1>2. Overlay(b.managed, Confirmed(target[a].want, s)) \in Fields
    BY <1>1, ConfirmedType, OverlayType
  <1>3. new \in Baselines /\ new.owner = b.owner /\ new.before = b.before
        /\ new.managed = Overlay(b.managed, Confirmed(target[a].want, s))
    BY <1>2 DEF Baselines
  <1>4. b.owner # "console" => new.managed = Nothing
    <2>1. Confirmed(Nothing, s) = Nothing
      BY WriteAssumption DEF Confirmed, Nothing, Settings
    <2> QED
      BY <1>3, <2>1, OverlayType, NothingIsFields DEF WantsInv
  <1>5. Unowned \in Baselines /\ Unowned.owner = "none" /\ Unowned.managed = Nothing
    BY NothingIsFields DEF Unowned, Baselines
  <1>6. /\ stored' = [stored EXCEPT ![a] = s]
        /\ baseline' = [baseline EXCEPT ![a] = IF complete THEN Unowned ELSE new]
    BY DEF Commit
  <1>7. waiting' \subseteq Accounts
    BY DEF Commit, TypeOK
  <1> HIDE DEF new
  <1>8. /\ baseline'[a] = IF complete THEN Unowned ELSE new
        /\ stored'[a] = s
        /\ \A c \in Accounts \ {a} : stored'[c] = stored[c] /\ baseline'[c] = baseline[c]
    BY <1>6 DEF TypeOK
  <1>9. stored' \in [Accounts -> Settings] /\ baseline' \in [Accounts -> Baselines]
    BY <1>3, <1>5, <1>6 DEF TypeOK
  <1> QED
    BY <1>3, <1>4, <1>5, <1>7, <1>8, <1>9 DEF new

LEMMA MatchesStep == ASSUME IInv, NEW a \in Accounts, Matches(a) PROVE IInv'
  <1>1. /\ stage[a] = "read" /\ ~GivesUp(a) /\ DesiredValues(a) = Nothing
        /\ remaining' = remaining - 1 /\ stage' = [stage EXCEPT ![a] = "done"]
        /\ UNCHANGED <<remote, target, released, current, desired, budget, phase, outcome, authorized,
                       ended, edited, disturbed>>
    BY DEF Matches, Ready, Decides, Skip, Arrives, Goes, plan, history
  <1>2. /\ current[a] \in Settings /\ baseline[a] \in Baselines /\ target[a] \in Targets
        /\ AccountInv(a)
    BY <1>1 DEF IInv, TypeOK
  <1>3. \/ /\ Commit(a, Captured(a), current[a], target[a].kind = "release")
           /\ UNCHANGED bounds
        \/ /\ CallFails
           /\ \E b \in {baseline[a], Captured(a)} : baseline' = [baseline EXCEPT ![a] = b]
           /\ UNCHANGED <<stored, waiting>>
    BY DEF Matches
  <1>4. /\ rounds' \in Nat /\ edits' \in Nat /\ incidents' \in Nat
        /\ incidents' = 0 => incidents = 0
        /\ incidents' = 0 => Commit(a, Captured(a), current[a], target[a].kind = "release")
    BY <1>3, BoundsCount DEF IInv
  <1>5. /\ stored' \in [Accounts -> Settings] /\ waiting' \subseteq Accounts
        /\ baseline' \in [Accounts -> Baselines]
        /\ baseline'[a].owner # "console" => baseline'[a].managed = Nothing
        /\ baseline'[a].owner # "none" => baseline'[a].before \in Settings
        /\ target[a].kind = "abandon" => baseline'[a].owner # "none"
        /\ \A c \in Accounts \ {a} : stored'[c] = stored[c] /\ baseline'[c] = baseline[c]
    <2>1. target[a].kind # "abandon"
      BY <1>1 DEF GivesUp
    <2>2. CASE Commit(a, Captured(a), current[a], target[a].kind = "release")
      BY <1>2, <2>1, <2>2, CapturedFacts, CommitTypes DEF IInv, AccountInv
    <2>3. CASE /\ \E b \in {baseline[a], Captured(a)} : baseline' = [baseline EXCEPT ![a] = b]
               /\ UNCHANGED <<stored, waiting>>
      <3>1. PICK b \in {baseline[a], Captured(a)} : baseline' = [baseline EXCEPT ![a] = b]
        BY <2>3
      <3>2. /\ b \in Baselines /\ (b.owner # "console" => b.managed = Nothing)
            /\ (b.owner # "none" => b.before \in Settings)
        BY <1>2, CapturedFacts DEF IInv, TypeOK
      <3> QED
        BY <2>1, <2>3, <3>1, <3>2 DEF IInv, TypeOK
    <2> QED
      BY <1>3, <2>2, <2>3
  <1>6. TypeOK'
    <2>1. /\ stage' \in [Accounts -> Stages] /\ stage'[a] = "done"
          /\ \A b \in Accounts \ {a} : stage'[b] = stage[b]
      BY <1>1 DEF IInv, TypeOK, Stages
    <2>2. remaining' \in Int
      BY <1>1 DEF IInv, TypeOK
    <2>3. phase \notin {"idle", "calculated"}
      BY <1>1 DEF IInv, TypeOK
    <2> QED
      BY <1>1, <1>4, <1>5, <2>1, <2>2, <2>3 DEF IInv, TypeOK, Pending
  <1>7. PhaseInv'
    BY <1>1, <1>4 DEF IInv, TypeOK, PhaseInv
  <1>8. AccountInv(a)'
    <2>1. stage'[a] = "done"
      BY <1>1 DEF IInv, TypeOK
    <2>2. WantsInv(a)' /\ OutcomeInv(a)' /\ RemoteInv(a)'
      BY <1>1, <1>2, <1>5, <2>1 DEF AccountInv, WantsInv, OutcomeInv, RemoteInv, Pending
    <2>3. ASSUME Clean(a)' PROVE Clean(a) /\ current[a] = remote[a]
      BY <1>1, <1>2, <1>4, <2>3 DEF Clean, Quiet, AccountInv, RemoteInv
    <2>4. ASSUME Clean(a)', baseline'[a].owner = "console" PROVE Kept(a, remote[a])'
      <3>1. /\ baseline'[a] = [Captured(a) EXCEPT !.managed =
                                  Overlay(@, Confirmed(target[a].want, current[a]))]
            /\ target[a].kind # "release"
        <4>1. Commit(a, Captured(a), current[a], target[a].kind = "release")
          BY <1>4, <2>4 DEF Clean
        <4>2. baseline'[a] = IF target[a].kind = "release" THEN Unowned
                             ELSE [Captured(a) EXCEPT !.managed =
                                     Overlay(@, Confirmed(target[a].want, current[a]))]
          <5>1. a \in DOMAIN baseline
            BY DEF IInv, TypeOK
          <5> QED
            BY <4>1, <5>1 DEF Commit
        <4>3. target[a].kind # "release"
          BY <2>4, <4>2 DEF Unowned
        <4> QED
          BY <4>2, <4>3
      <3>2. /\ Captured(a) \in Baselines /\ Captured(a).owner = "console"
        BY <1>2, <2>4, <3>1, CapturedFacts DEF IInv, Baselines
      <3>3. /\ Agrees(Captured(a).managed, current[a])
            /\ Captured(a).managed.on = Null => Captured(a).before.on = current[a].on
            /\ Captured(a).managed.conc = Null => Captured(a).before.conc = current[a].conc
        BY <1>1, <1>2, <2>3, <2>4, <3>2, CapturedFacts
           DEF IInv, AccountInv, OwnInv, Kept, InHand, Agrees, Nothing
      <3>4. Changes(target[a].want, current[a]) = Nothing
        BY <1>1, <3>1 DEF DesiredValues
      <3>5. current[a] = With(current[a], Changes(target[a].want, current[a]))
        BY <1>2, <3>4, WithParts, NothingIsFields
      <3>6. Captured(a).before \in Settings /\ Captured(a).managed \in Fields
            /\ target[a].want \in Fields
        BY <1>2, <3>2, CapturedFacts DEF IInv, Baselines, Targets
      <3>7. /\ baseline'[a].managed = Overlay(Captured(a).managed, Confirmed(target[a].want, current[a]))
            /\ baseline'[a].before = Captured(a).before
        BY <3>1, <3>2 DEF Baselines
      <3>8. /\ Agrees(baseline'[a].managed, current[a])
            /\ baseline'[a].managed.on = Null => baseline'[a].before.on = current[a].on
            /\ baseline'[a].managed.conc = Null => baseline'[a].before.conc = current[a].conc
        BY <1>2, <3>3, <3>5, <3>6, <3>7, RecordKeeps
      <3>9. remote'[a] = current[a]
        BY <1>1, <2>3, <2>4
      <3> QED
        BY <3>8, <3>9 DEF Kept, Agrees
    <2>5. ASSUME Clean(a)' PROVE stored'[a] = current[a]
      <3>1. Commit(a, Captured(a), current[a], target[a].kind = "release")
        BY <1>4, <2>5 DEF Clean
      <3>2. stored' = [stored EXCEPT ![a] = current[a]]
        BY <3>1 DEF Commit
      <3> QED
        BY <3>2 DEF IInv, TypeOK
    <2>6. OwnInv(a)'
      BY <1>1, <1>2, <2>1, <2>3, <2>4, <2>5 DEF AccountInv, OwnInv, InHand, Pending
    <2> QED
      BY <2>2, <2>6 DEF AccountInv
  <1>9. Later /\ \A b \in Accounts \ {a} : Same(b)
    BY <1>1, <1>4, <1>5 DEF IInv, TypeOK, Later, Same
  <1> QED
    BY <1>6, <1>7, <1>8, <1>9, OneAccount

LEMMA AbandonStep == ASSUME IInv, NEW a \in Accounts, AbandonControl(a) PROVE IInv'
  <1>1. /\ stage[a] = "read" /\ GivesUp(a)
        /\ remaining' = remaining - 1 /\ stage' = [stage EXCEPT ![a] = "done"]
        /\ UNCHANGED <<remote, target, released, current, desired, budget, phase, outcome, authorized,
                       ended, edited, disturbed>>
        /\ \/ /\ stored' = [stored EXCEPT ![a] = current[a]] /\ waiting' = waiting \ {a}
              /\ baseline' = [baseline EXCEPT ![a].owner = "person", ![a].managed = Nothing]
              /\ UNCHANGED bounds
           \/ CallFails /\ UNCHANGED <<stored, waiting, baseline>>
    BY DEF AbandonControl, Skip, Arrives, Goes, plan, history, durable
  <1>2. /\ current[a] \in Settings /\ baseline[a] \in Baselines /\ AccountInv(a)
    BY <1>1 DEF IInv, TypeOK
  <1>3. /\ rounds' \in Nat /\ edits' \in Nat /\ incidents' \in Nat
        /\ incidents' = 0 => incidents = 0
    BY <1>1, BoundsCount DEF IInv
  <1>4. baseline[a].owner # "none" /\ baseline[a].before \in Settings
    BY <1>1, <1>2 DEF IInv, TypeOK, AccountInv, WantsInv, GivesUp, ExternallyModified
  <1>5. /\ stored' \in [Accounts -> Settings] /\ waiting' \subseteq Accounts
        /\ baseline' \in [Accounts -> Baselines]
        /\ baseline'[a].owner # "console" => baseline'[a].managed = Nothing
        /\ baseline'[a].before \in Settings /\ baseline'[a].owner # "none"
        /\ \A c \in Accounts \ {a} : stored'[c] = stored[c] /\ baseline'[c] = baseline[c]
    <2>1. [baseline[a] EXCEPT !.owner = "person", !.managed = Nothing] \in Baselines
      BY <1>2, NothingIsFields DEF Baselines
    <2>2. CASE UNCHANGED <<stored, waiting, baseline>>
      BY <1>4, <2>2 DEF IInv, TypeOK
    <2>3. CASE /\ stored' = [stored EXCEPT ![a] = current[a]] /\ waiting' = waiting \ {a}
               /\ baseline' = [baseline EXCEPT ![a].owner = "person", ![a].managed = Nothing]
      <3>1. /\ baseline'[a] = [baseline[a] EXCEPT !.owner = "person", !.managed = Nothing]
            /\ \A c \in Accounts \ {a} : baseline'[c] = baseline[c]
        BY <2>3 DEF IInv, TypeOK
      <3>2. baseline' \in [Accounts -> Baselines]
        BY <2>1, <2>3, <3>1 DEF IInv, TypeOK
      <3>3. baseline'[a].owner = "person" /\ baseline'[a].managed = Nothing
            /\ baseline'[a].before = baseline[a].before
        BY <1>2, <3>1 DEF Baselines
      <3> QED
        BY <1>2, <1>4, <2>3, <3>1, <3>2, <3>3 DEF IInv, TypeOK
    <2> QED
      BY <1>1, <2>2, <2>3
  <1>6. TypeOK'
    <2>1. /\ stage' \in [Accounts -> Stages] /\ stage'[a] = "done"
          /\ \A b \in Accounts \ {a} : stage'[b] = stage[b]
      BY <1>1 DEF IInv, TypeOK, Stages
    <2>2. remaining' \in Int
      BY <1>1 DEF IInv, TypeOK
    <2>3. phase \notin {"idle", "calculated"}
      BY <1>1 DEF IInv, TypeOK
    <2> QED
      BY <1>1, <1>3, <1>5, <2>1, <2>2, <2>3 DEF IInv, TypeOK, Pending
  <1>7. PhaseInv'
    BY <1>1, <1>3 DEF IInv, TypeOK, PhaseInv
  <1>8. AccountInv(a)'
    <2>1. stage'[a] = "done"
      BY <1>1 DEF IInv, TypeOK
    <2>2. WantsInv(a)' /\ OutcomeInv(a)' /\ RemoteInv(a)'
      BY <1>1, <1>2, <1>5, <2>1 DEF AccountInv, WantsInv, OutcomeInv, RemoteInv, Pending
    <2>3. ~Clean(a)'
      <3>1. ASSUME Clean(a) PROVE FALSE
        BY <1>1, <1>2, <3>1 DEF AccountInv, OwnInv, GivesUp, ExternallyModified, Kept, InHand
      <3> QED
        BY <1>1, <1>3, <3>1 DEF Clean
    <2> QED
      BY <2>2, <2>3 DEF AccountInv, OwnInv
  <1>9. Later /\ \A b \in Accounts \ {a} : Same(b)
    BY <1>1, <1>3, <1>5 DEF IInv, TypeOK, Later, Same
  <1> QED
    BY <1>6, <1>7, <1>8, <1>9, OneAccount

LEMMA LoadStep == ASSUME IInv, LoadRemoteCapacity PROVE IInv'
  <1>1. /\ \/ /\ ~ended
              /\ budget' = [budget EXCEPT !.read = TRUE, !.snapshot = remote,
                               !.reserved = [a \in Accounts |-> Reservation(a, remote[a])]]
              /\ UNCHANGED bounds
           \/ CallFails /\ budget' = [budget EXCEPT !.read = TRUE, !.failed = TRUE]
        /\ UNCHANGED <<remote, stored, waiting, baseline, target, released, current, desired, remaining,
                       stage, phase, outcome, authorized, ended, edited, disturbed>>
    BY DEF LoadRemoteCapacity, plan, history, durable
  <1>2. /\ rounds' \in Nat /\ edits' \in Nat /\ incidents' \in Nat
        /\ incidents' = 0 => incidents = 0
    BY <1>1, BoundsCount DEF IInv
  <1>3. /\ budget' \in Budgets
        /\ budget'.read /\ ~budget'.failed => budget'.snapshot \in [Accounts -> Settings]
    <2>1. [a \in Accounts |-> Reservation(a, remote[a])] \in [Accounts -> Nat]
      <3>1. \A c \in Concurrencies : c \in Nat
        BY WriteAssumption
      <3>2. \A a \in Accounts : remote[a].conc \in Concurrencies \cup {0}
        BY DEF IInv, TypeOK, Settings
      <3>3. \A a \in Accounts : remote[a].conc \in Nat
        BY <3>1, <3>2
      <3> QED
        BY <3>3 DEF Reservation
    <2>2. budget \in Budgets /\ remote \in [Accounts -> Settings]
      BY DEF IInv, TypeOK
    <2>3. CASE budget' = [budget EXCEPT !.read = TRUE, !.snapshot = remote,
                             !.reserved = [a \in Accounts |-> Reservation(a, remote[a])]]
      BY <2>1, <2>2, <2>3 DEF Budgets
    <2>4. CASE budget' = [budget EXCEPT !.read = TRUE, !.failed = TRUE]
      BY <2>2, <2>4 DEF Budgets
    <2> QED
      BY <1>1, <2>3, <2>4
  <1>4. TypeOK'
    BY <1>1, <1>2, <1>3 DEF IInv, TypeOK, Targeted
  <1>5. PhaseInv'
    BY <1>1, <1>2 DEF IInv, PhaseInv
  <1>6. Later /\ \A a \in Accounts : Same(a)
    BY <1>1, <1>2 DEF Later, Same
  <1> QED
    BY <1>4, <1>5, <1>6, Untouched DEF IInv

LEMMA EnqueueStep == ASSUME IInv, NEW a \in Accounts, Enqueue(a) PROVE IInv'
  <1>1. /\ stage[a] = "read" /\ ~GivesUp(a) /\ DesiredValues(a) # Nothing
        /\ IF NoGrowth(a) THEN UNCHANGED budget
           ELSE /\ ~Uncertain(a) /\ ~BudgetFails(a)
                /\ budget' = [budget EXCEPT !.reserved = [Reserved(a) EXCEPT ![a] = Larger(@, Use(a))]]
        /\ UNCHANGED <<remote, stored, waiting, target, released, current, phase, outcome, authorized,
                       ended, edited, disturbed>>
    BY DEF Enqueue, Ready, Decides, plan, history
  <1>2. /\ current[a] \in Settings /\ baseline[a] \in Baselines /\ target[a] \in Targets
        /\ AccountInv(a)
    BY <1>1 DEF IInv, TypeOK
  <1>3. DesiredValues(a) \in Fields
    BY <1>2, DesiredType DEF IInv
  <1>4. /\ budget' \in Budgets /\ budget'.read = budget.read /\ budget'.failed = budget.failed
        /\ budget'.snapshot = budget.snapshot
    <2>1. budget \in Budgets
      BY DEF IInv, TypeOK
    <2>2. ASSUME ~NoGrowth(a) PROVE Use(a) \in Nat
      <3>1. Active(After(a)) \in Nat
        BY <1>2, <1>3, WithType, ActiveType DEF After
      <3>2. NeedsBudget(a)
        BY <1>1, <2>2 DEF Enqueue, NeedsBudget, Grows, Refused
      <3>3. budget.read
        BY <3>2 DEF Enqueue, Ready
      <3>4. ~budget.failed
        BY <1>1, <2>2, <3>3 DEF BudgetFails
      <3>5. budget.snapshot[a].conc \in Concurrencies \cup {0}
        BY <3>3, <3>4 DEF IInv, TypeOK, Settings
      <3>6. \A c \in Concurrencies : c \in Nat
        BY WriteAssumption
      <3>7. budget.snapshot[a].conc \in Nat
        BY <3>5, <3>6
      <3> QED
        BY <3>1, <3>7 DEF Use, Larger
    <2>3. Reserved(a) \in [Accounts -> Nat]
      BY <1>2, ReservedType DEF IInv
    <2>4. ASSUME ~NoGrowth(a) PROVE [Reserved(a) EXCEPT ![a] = Larger(@, Use(a))] \in [Accounts -> Nat]
      BY <2>2, <2>3, <2>4, LargerType
    <2> QED
      BY <1>1, <2>1, <2>4 DEF Budgets
  <1>5. CASE CallFails /\ target[a].kind = "set" /\ Skip(a) /\ UNCHANGED <<baseline, desired>>
    BY <1>1, <1>4, <1>5, SkipStep DEF plan, history
  <1>6. CASE /\ baseline' = [baseline EXCEPT ![a] = Captured(a)]
             /\ desired' = [desired EXCEPT ![a] = DesiredValues(a)]
             /\ Goes(a, "queued") /\ Arrives
             /\ UNCHANGED bounds
    <2>1. /\ stage' = [stage EXCEPT ![a] = "queued"] /\ remaining' = remaining - 1
          /\ UNCHANGED <<rounds, edits, incidents>>
      BY <1>6 DEF Goes, Arrives, bounds
    <2>2. /\ stage' \in [Accounts -> Stages] /\ stage'[a] = "queued"
          /\ baseline' \in [Accounts -> Baselines] /\ baseline'[a] = Captured(a)
          /\ desired' \in [Accounts -> Fields] /\ desired'[a] = DesiredValues(a)
          /\ \A b \in Accounts \ {a} :
                stage'[b] = stage[b] /\ baseline'[b] = baseline[b] /\ desired'[b] = desired[b]
      BY <1>2, <1>3, <1>6, <2>1, CapturedFacts DEF IInv, TypeOK, Stages, Pending
    <2>3. TypeOK'
      <3>1. remaining' \in Int
        BY <2>1 DEF IInv, TypeOK
      <3>2. phase \notin {"idle", "calculated"}
        BY <1>1 DEF IInv, TypeOK
      <3>3. /\ baseline'[a].owner # "console" => baseline'[a].managed = Nothing
            /\ baseline'[a].owner # "none" => baseline'[a].before \in Settings
        BY <1>2, <2>2, CapturedFacts DEF IInv
      <3> QED
        BY <1>1, <1>2, <1>4, <2>1, <2>2, <3>1, <3>2, <3>3 DEF IInv, TypeOK, Pending
    <2>4. PhaseInv'
      BY <1>1, <2>1, <2>2 DEF IInv, PhaseInv
    <2>5. AccountInv(a)'
      <3>1. DesiredValues(a)' = DesiredValues(a)
        BY <1>1, <1>2, <2>2, CapturedFacts DEF IInv, DesiredValues, Restorable
      <3>2. WantsInv(a)'
        BY <1>1, <1>2, <2>2, <3>1, CapturedFacts DEF IInv, AccountInv, WantsInv
      <3>3. OutcomeInv(a)' /\ RemoteInv(a)'
        BY <1>1, <1>2, <2>2 DEF AccountInv, OutcomeInv, RemoteInv, Quiet
      <3>4. Clean(a)' => Clean(a)
        BY <1>1, <2>1 DEF Clean
      <3>5. ASSUME Clean(a), Captured(a).owner = "console" PROVE Kept(a, current[a])'
        <4>1. CASE Captured(a) = baseline[a]
          BY <1>1, <1>2, <2>2, <3>5, <4>1 DEF AccountInv, OwnInv, InHand, Kept, Agrees
        <4>2. CASE Captured(a).before = current[a] /\ Captured(a).managed = Nothing
          BY <1>1, <2>2, <4>2 DEF Kept, Agrees, Nothing
        <4> QED
          BY <1>2, <4>1, <4>2, CapturedFacts DEF IInv
      <3>6. OwnInv(a)'
        BY <1>1, <1>2, <2>2, <3>4, <3>5 DEF AccountInv, OwnInv, InHand, Pending
      <3> QED
        BY <3>2, <3>3, <3>6 DEF AccountInv
    <2>6. Later /\ \A b \in Accounts \ {a} : Same(b)
      BY <1>1, <2>1, <2>2 DEF Later, Same
    <2> QED
      BY <2>3, <2>4, <2>5, <2>6, OneAccount
  <1> QED
    BY <1>5, <1>6 DEF Enqueue
-----------------------------------------------------------------------------
(* Disturbances *)

LEMMA EndContextStep == ASSUME IInv, EndContext PROVE IInv'
  <1>1. /\ ended' = TRUE /\ Incident
        /\ UNCHANGED <<remote, stored, waiting, baseline, target, released, current, desired, budget,
                       remaining, stage, phase, outcome, authorized, edited, disturbed>>
    BY DEF EndContext, durable, plan, prepare, history
  <1>2. rounds' \in Nat /\ edits' \in Nat /\ incidents' \in Nat /\ incidents' # 0
    BY <1>1, BoundsCount DEF IInv
  <1>3. ended' \in BOOLEAN
    BY <1>1
  <1>4. TypeOK'
    BY <1>1, <1>2, <1>3 DEF IInv, TypeOK, Targeted
  <1>5. PhaseInv'
    BY <1>1, <1>2 DEF IInv, PhaseInv
  <1>6. Later /\ \A a \in Accounts : Same(a)
    BY <1>1, <1>2 DEF Later, Same
  <1> QED
    BY <1>4, <1>5, <1>6, Untouched DEF IInv

LEMMA WithdrawStep == ASSUME IInv, Withdraw PROVE IInv'
  <1>1. /\ authorized' = FALSE /\ Incident
        /\ UNCHANGED <<remote, stored, waiting, baseline, target, released, current, desired, budget,
                       remaining, stage, phase, outcome, ended, edited, disturbed>>
    BY DEF Withdraw, durable, plan, prepare, history
  <1>2. rounds' \in Nat /\ edits' \in Nat /\ incidents' \in Nat /\ incidents' # 0
    BY <1>1, BoundsCount DEF IInv
  <1>3. authorized' \in BOOLEAN
    BY <1>1
  <1>4. TypeOK'
    BY <1>1, <1>2, <1>3 DEF IInv, TypeOK, Targeted
  <1>5. PhaseInv'
    BY <1>1, <1>2 DEF IInv, PhaseInv
  <1>6. Later /\ \A a \in Accounts : Same(a)
    BY <1>1, <1>2 DEF Later, Same
  <1> QED
    BY <1>4, <1>5, <1>6, Untouched DEF IInv

(* Of an account that a person has edited during the round nothing is claimed
   but what does not depend on what it is now. *)
LEMMA HumanEditStep == ASSUME IInv, NEW a \in Accounts, HumanEdit(a) PROVE IInv'
  <1>1. /\ \E s \in Settings : remote' = [remote EXCEPT ![a] = s]
        /\ edits' = edits + 1 /\ edited' = edited \cup {a} /\ disturbed' = TRUE
        /\ UNCHANGED <<stored, waiting, baseline, target, released, current, desired, budget, remaining,
                       stage, phase, outcome, authorized, ended, rounds, incidents>>
    BY DEF HumanEdit, durable, plan, prepare
  <1>2. /\ remote' \in [Accounts -> Settings]
        /\ \A b \in Accounts \ {a} : remote'[b] = remote[b]
    BY <1>1 DEF IInv, TypeOK
  <1>3. disturbed' \in BOOLEAN /\ disturbed'
    BY <1>1
  <1>4. edits' \in Nat
    BY <1>1 DEF IInv, TypeOK
  <1>5. TypeOK'
    BY <1>1, <1>2, <1>3, <1>4 DEF IInv, TypeOK, Targeted
  <1>6. PhaseInv'
    BY <1>1 DEF IInv, PhaseInv
  <1>7. AccountInv(a)'
    <2>1. ~Quiet(a)' /\ ~Clean(a)'
      BY <1>1, <1>3 DEF Quiet, Clean
    <2>2. DesiredValues(a)' = DesiredValues(a)
      BY <1>1 DEF DesiredValues, Restorable
    <2>3. WantsInv(a)' /\ OutcomeInv(a)'
      BY <1>1, <2>2 DEF IInv, AccountInv, WantsInv, OutcomeInv
    <2> QED
      BY <2>1, <2>3 DEF AccountInv, RemoteInv, OwnInv
  <1>8. Later /\ \A b \in Accounts \ {a} : Same(b)
    BY <1>1, <1>2, <1>3 DEF Later, Same
  <1> QED
    BY <1>5, <1>6, <1>7, <1>8, OneAccount
-----------------------------------------------------------------------------
(* The writes *)

LEMMA AnsweredFacts ==
  ASSUME TypeOK, NEW s \in SUBSET Accounts, NEW d \in Fields, Answered(s, d)
  PROVE  /\ remote' \in [Accounts -> Settings]
         /\ \A b \in s : remote'[b] = With(remote[b], d)
         /\ \A b \in Accounts \ s : remote'[b] = remote[b]
  <1>1. \A b \in Accounts : With(remote[b], d) \in Settings
    BY WithType DEF TypeOK
  <1> QED
    BY <1>1 DEF Answered, TypeOK

(* A write without an answer counts, at the latest as what ended the context or
   withdrew the authorization. *)
LEMMA UnansweredFacts ==
  ASSUME IInv, NEW s \in SUBSET Accounts, NEW d \in Fields, Unanswered(s, d)
  PROVE  /\ remote' \in [Accounts -> Settings]
         /\ \A b \in Accounts \ s : remote'[b] = remote[b]
         /\ rounds' \in Nat /\ edits' \in Nat /\ incidents' \in Nat /\ incidents' # 0
  <1>1. CASE Denied
    <2>1. incidents # 0
      BY <1>1 DEF Denied, Sent, IInv, PhaseInv
    <2> QED
      BY <1>1, <2>1 DEF Denied, bounds, IInv, TypeOK
  <1>2. CASE Incident /\ \E t \in SUBSET s : Answered(t, d)
    <2>1. PICK t \in SUBSET s : Answered(t, d)
      BY <1>2
    <2>2. t \in SUBSET Accounts
      OBVIOUS
    <2>3. /\ remote' \in [Accounts -> Settings]
          /\ \A b \in Accounts \ t : remote'[b] = remote[b]
      BY <2>1, <2>2, AnsweredFacts DEF IInv
    <2> QED
      BY <1>2, <2>3, BoundsCount DEF IInv
  <1> QED
    BY <1>1, <1>2 DEF Unanswered

InFlight == {"bulk", "fields", "confirm", "switch", "unclear", "partial"}

(* A step of one request leaves it pending. *)
LEMMA OneRequest ==
  ASSUME IInv, NEW a \in Accounts, stage[a] \in InFlight,
         NEW to \in InFlight \cup {"wrote"}, Goes(a, to),
         UNCHANGED <<durable, plan, prepare, phase, authorized, ended, history>>,
         remote' \in [Accounts -> Settings], NEW o \in Outcomes, outcome' = [outcome EXCEPT ![a] = o],
         \A b \in Accounts \ {a} : remote'[b] = remote[b],
         rounds' \in Nat /\ edits' \in Nat /\ incidents' \in Nat,
         incidents' = 0 => incidents = 0,
         OutcomeInv(a)', RemoteInv(a)', OwnInv(a)'
  PROVE  IInv'
  <1>1. /\ stage' = [stage EXCEPT ![a] = to]
        /\ UNCHANGED <<stored, waiting, baseline, target, released, current, desired, budget, remaining,
                       phase, authorized, ended, edited, disturbed>>
    BY DEF Goes, durable, plan, prepare, history
  <1>2. /\ stage' \in [Accounts -> Stages] /\ stage'[a] = to
        /\ outcome' \in [Accounts -> Outcomes]
        /\ \A b \in Accounts \ {a} : stage'[b] = stage[b] /\ outcome'[b] = outcome[b]
    BY <1>1 DEF IInv, TypeOK, Stages, InFlight, Pending
  <1>3. /\ phase \notin {"idle", "calculated", "preparing"}
        /\ phase = "finishing" => incidents # 0
    BY DEF IInv, TypeOK, PhaseInv, InFlight
  <1>4. TypeOK'
    BY <1>1, <1>2, <1>3 DEF IInv, TypeOK, Pending, InFlight
  <1>5. PhaseInv'
    BY <1>1, <1>3 DEF IInv, PhaseInv
  <1>6. AccountInv(a)'
    <2>1. DesiredValues(a)' = DesiredValues(a)
      BY <1>1 DEF DesiredValues, Restorable
    <2>2. WantsInv(a)'
      BY <1>1, <2>1 DEF IInv, AccountInv, WantsInv, InFlight, Pending
    <2> QED
      BY <2>2 DEF AccountInv
  <1>7. Later /\ \A b \in Accounts \ {a} : Same(b)
    BY <1>1, <1>2 DEF Later, Same
  <1> QED
    BY <1>4, <1>5, <1>6, <1>7, OneAccount

LEMMA FailedType ==
  ASSUME NEW o \in Outcomes
  PROVE  /\ Failed(o) \in Outcomes /\ Failed(o).failed /\ Failed(o).confirmed = o.confirmed
         /\ Failed(o).readback = o.readback
  BY DEF Outcomes, Failed

LEMMA NoOutcomeType == NoOutcome \in Outcomes /\ ~NoOutcome.confirmed /\ ~NoOutcome.readback
  BY DEF NoOutcome, Outcomes

(* What the invariant says of a request that is being written. *)
LEMMA FlightFacts ==
  ASSUME IInv, NEW a \in Accounts, stage[a] \in InFlight
  PROVE  /\ current[a] \in Settings /\ remote[a] \in Settings /\ desired[a] \in Fields
         /\ desired[a] # Nothing /\ outcome[a] \in Outcomes
         /\ OutcomeInv(a) /\ RemoteInv(a) /\ OwnInv(a)
  BY DEF IInv, TypeOK, AccountInv, InFlight, Pending

LEMMA PutFieldsStep == ASSUME IInv, NEW a \in Accounts, PutFields(a) PROVE IInv'
  <1> DEFINE d == [desired[a] EXCEPT !.on = Null]
             next == IF desired[a].on = Null THEN "wrote" ELSE "switch"
  <1>1. /\ stage[a] = "fields"
        /\ UNCHANGED <<durable, plan, prepare, phase, authorized, ended, history>>
        /\ UNCHANGED <<stored, baseline, target, current, desired, edited, disturbed>>
    BY DEF PutFields, durable, plan, prepare, history
  <1>2. /\ current[a] \in Settings /\ remote[a] \in Settings /\ desired[a] \in Fields
        /\ outcome[a] = NoOutcome /\ (Quiet(a) => current[a] = remote[a]) /\ OwnInv(a)
    BY <1>1, FlightFacts DEF InFlight, OutcomeInv, RemoteInv
  <1>3. d \in Fields /\ {a} \in SUBSET Accounts
    BY <1>2, PartType
  <1>4. ASSUME Answered({a}, d), UNCHANGED bounds,
               NEW s \in {With(current[a], d), With(remote[a], d)},
               outcome' = [outcome EXCEPT ![a].confirmed = TRUE, ![a].after = s],
               Goes(a, IF Resumes(desired[a]) THEN "confirm" ELSE next)
        PROVE  IInv'
    <2> DEFINE o == [NoOutcome EXCEPT !.confirmed = TRUE, !.after = s]
               to == IF Resumes(desired[a]) THEN "confirm" ELSE next
    <2>1. s \in Settings
      BY <1>2, <1>3, <1>4, WithType
    <2>2. /\ o \in Outcomes /\ o.confirmed /\ ~o.failed /\ ~o.readback /\ o.after = s
      BY <2>1 DEF NoOutcome, Outcomes
    <2>3. s # Nothing
      BY <2>1, WriteAssumption DEF Settings, Nothing
    <2>4. outcome' = [outcome EXCEPT ![a] = o] /\ outcome'[a] = o
      BY <1>2, <1>4 DEF IInv, TypeOK
    <2>5. /\ remote' \in [Accounts -> Settings] /\ remote'[a] = With(remote[a], d)
          /\ \A b \in Accounts \ {a} : remote'[b] = remote[b]
      BY <1>3, <1>4, AnsweredFacts DEF IInv
    <2>6. to \in InFlight \cup {"wrote"} /\ stage'[a] = to
      BY <1>4 DEF IInv, TypeOK, Goes, InFlight
    <2>7. rounds' \in Nat /\ edits' \in Nat /\ incidents' \in Nat /\ incidents' = incidents
      BY <1>4 DEF bounds, IInv, TypeOK
    <2>8. to = "confirm" => desired[a].conc # Null
      BY DEF Resumes
    <2>9. to = "wrote" => d = desired[a]
      BY <1>2, WithParts
    <2>10. to \in {"confirm", "switch", "wrote"}
      OBVIOUS
    <2> HIDE DEF o, d, to
    <2>11. OutcomeInv(a)'
      BY <1>1, <2>2, <2>3, <2>4, <2>6, <2>8, <2>10 DEF OutcomeInv
    <2>12. Quiet(a)' => remote'[a] = With(current[a], d) /\ s = remote'[a]
      BY <1>1, <1>2, <1>4, <2>5 DEF Quiet
    <2>13. RemoteInv(a)'
      BY <1>1, <2>2, <2>4, <2>6, <2>10, <2>12 DEF RemoteInv, d
    <2>14. Clean(a)' => Clean(a) /\ Quiet(a)'
      BY <1>1, <2>7 DEF Clean, Quiet
    <2>15. Kept(a, current[a]) => Kept(a, current[a])'
      BY <1>1 DEF Kept, Agrees
    <2>16. OwnInv(a)'
      BY <1>1, <1>2, <2>2, <2>4, <2>6, <2>9, <2>10, <2>12, <2>14, <2>15 DEF OwnInv, InHand, Pending
    <2> QED
      BY <1>1, <1>4, <2>2, <2>4, <2>5, <2>6, <2>7, <2>11, <2>13, <2>16, OneRequest DEF InFlight, to
  <1>5. ASSUME Unanswered({a}, d), outcome' = [outcome EXCEPT ![a] = Failed(@)],
               Goes(a, IF Resumes(desired[a]) THEN "wrote" ELSE next)
        PROVE  IInv'
    <2> DEFINE o == Failed(outcome[a])
               to == IF Resumes(desired[a]) THEN "wrote" ELSE next
    <2>1. o \in Outcomes /\ o.failed /\ ~o.confirmed /\ ~o.readback
      BY <1>2, NoOutcomeType, FailedType
    <2>2. outcome' = [outcome EXCEPT ![a] = o] /\ outcome'[a] = o
      BY <1>5 DEF IInv, TypeOK
    <2>3. /\ remote' \in [Accounts -> Settings]
          /\ \A b \in Accounts \ {a} : remote'[b] = remote[b]
          /\ rounds' \in Nat /\ edits' \in Nat /\ incidents' \in Nat /\ incidents' # 0
      BY <1>3, <1>5, UnansweredFacts
    <2>4. to \in InFlight \cup {"wrote"} /\ to \in {"switch", "wrote"} /\ stage'[a] = to
      BY <1>5 DEF IInv, TypeOK, Goes, InFlight
    <2> HIDE DEF o, to
    <2>5. OutcomeInv(a)' /\ RemoteInv(a)' /\ OwnInv(a)'
      BY <2>1, <2>2, <2>3, <2>4 DEF OutcomeInv, RemoteInv, OwnInv, Clean, Knows
    <2> QED
      BY <1>1, <1>5, <2>1, <2>2, <2>3, <2>4, <2>5, OneRequest DEF InFlight, to
  <1> QED
    BY <1>4, <1>5 DEF PutFields

LEMMA ConfirmStep == ASSUME IInv, NEW a \in Accounts, ConfirmConcurrency(a) PROVE IInv'
  <1>1. /\ stage[a] = "confirm"
        /\ UNCHANGED <<remote, durable, plan, prepare, phase, authorized, ended, history>>
        /\ UNCHANGED <<stored, baseline, target, current, desired, edited, disturbed>>
    BY DEF ConfirmConcurrency, durable, plan, prepare, history
  <1>2. /\ current[a] \in Settings /\ remote[a] \in Settings /\ desired[a] \in Fields
        /\ outcome[a] \in Outcomes /\ ~outcome[a].failed /\ ~outcome[a].readback
        /\ desired[a].conc # Null /\ RemoteInv(a) /\ OwnInv(a)
    BY <1>1, FlightFacts DEF InFlight, OutcomeInv
  <1>3. CASE Goes(a, "switch") /\ UNCHANGED <<outcome, bounds>>
    <2>1. outcome' = [outcome EXCEPT ![a] = outcome[a]] /\ remote' \in [Accounts -> Settings]
      BY <1>1, <1>3 DEF IInv, TypeOK
    <2>2. stage'[a] = "switch"
      BY <1>3 DEF IInv, TypeOK, Goes
    <2>3. rounds' \in Nat /\ edits' \in Nat /\ incidents' \in Nat /\ incidents' = incidents
      BY <1>3 DEF bounds, IInv, TypeOK
    <2>4. /\ Quiet(a)' => Quiet(a)
          /\ Clean(a)' => Clean(a)
          /\ Kept(a, current[a]) => Kept(a, current[a])'
      BY <1>1, <2>3 DEF Quiet, Clean, Kept, Agrees
    <2>5. OutcomeInv(a)' /\ RemoteInv(a)'
      BY <1>1, <1>2, <1>3, <2>2, <2>4 DEF OutcomeInv, RemoteInv, With
    <2>6. OwnInv(a)'
      BY <1>1, <1>2, <1>3, <2>2, <2>4 DEF OwnInv, InHand, Pending
    <2> QED
      BY <1>1, <1>2, <1>3, <2>1, <2>3, <2>5, <2>6, OneRequest DEF InFlight
  <1>4. CASE /\ (~ended /\ remote[a].conc # desired[a].conc /\ UNCHANGED bounds) \/ CallFails
             /\ outcome' = [outcome EXCEPT ![a] = Failed(@)]
             /\ Goes(a, "partial")
    <2>1. /\ outcome' = [outcome EXCEPT ![a] = Failed(outcome[a])]
          /\ outcome'[a] = Failed(outcome[a]) /\ remote' \in [Accounts -> Settings]
          /\ Failed(outcome[a]) \in Outcomes
          /\ outcome'[a].failed /\ ~outcome'[a].readback
      BY <1>1, <1>2, <1>4, FailedType DEF IInv, TypeOK
    <2>2. stage'[a] = "partial"
      BY <1>4 DEF IInv, TypeOK, Goes
    <2>3. /\ rounds' \in Nat /\ edits' \in Nat /\ incidents' \in Nat
          /\ incidents' = 0 => incidents = 0
          /\ incidents' = 0 => remote[a].conc # desired[a].conc
      BY <1>4, BoundsCount DEF IInv
    <2>4. OutcomeInv(a)' /\ RemoteInv(a)'
      BY <2>1, <2>2 DEF OutcomeInv, RemoteInv
    <2>5. ~Clean(a)'
      <3>1. ASSUME Clean(a) PROVE remote[a].conc = desired[a].conc
        <4>1. remote[a] = With(current[a], [desired[a] EXCEPT !.on = Null])
          BY <1>1, <1>2, <3>1 DEF RemoteInv, Quiet, Clean
        <4> QED
          BY <1>2, <4>1 DEF With, Fields
      <3> QED
        BY <1>1, <2>3, <3>1 DEF Clean
    <2>6. OwnInv(a)'
      BY <2>5 DEF OwnInv
    <2> QED
      BY <1>1, <1>4, <2>1, <2>3, <2>4, <2>6, OneRequest DEF InFlight
  <1> QED
    BY <1>3, <1>4 DEF ConfirmConcurrency

LEMMA SwitchStep == ASSUME IInv, NEW a \in Accounts, SwitchTraffic(a) PROVE IInv'
  <1> DEFINE d == [desired[a] EXCEPT !.conc = Null]
  <1>1. /\ stage[a] = "switch"
        /\ UNCHANGED <<durable, plan, prepare, phase, authorized, ended, history>>
        /\ UNCHANGED <<stored, baseline, target, current, desired, edited, disturbed>>
    BY DEF SwitchTraffic, durable, plan, prepare, history
  <1>2. /\ current[a] \in Settings /\ remote[a] \in Settings /\ desired[a] \in Fields
        /\ outcome[a] \in Outcomes /\ ~outcome[a].readback /\ RemoteInv(a) /\ OwnInv(a)
    BY <1>1, FlightFacts DEF InFlight, OutcomeInv
  <1>3. d \in Fields /\ {a} \in SUBSET Accounts
    BY <1>2, PartType
  <1>4. ASSUME Answered({a}, d), UNCHANGED bounds,
               NEW s \in {With(current[a], desired[a]), With(remote[a], d)},
               outcome' = [outcome EXCEPT ![a] = [outcome[a] EXCEPT !.confirmed = TRUE, !.after = s]],
               Goes(a, IF outcome[a].failed THEN "partial" ELSE "wrote")
        PROVE  IInv'
    <2> DEFINE o == [outcome[a] EXCEPT !.confirmed = TRUE, !.after = s]
               to == IF outcome[a].failed THEN "partial" ELSE "wrote"
    <2>1. s \in Settings /\ s # Nothing
      BY <1>2, <1>3, <1>4, WithType, WriteAssumption DEF Settings, Nothing
    <2>2. /\ o \in Outcomes /\ o.confirmed /\ (o.failed <=> outcome[a].failed) /\ ~o.readback
          /\ o.after = s
      BY <1>2, <2>1 DEF Outcomes
    <2>3. outcome' = [outcome EXCEPT ![a] = o] /\ outcome'[a] = o
      BY <1>4 DEF IInv, TypeOK
    <2>4. /\ remote' \in [Accounts -> Settings] /\ remote'[a] = With(remote[a], d)
          /\ \A b \in Accounts \ {a} : remote'[b] = remote[b]
      BY <1>3, <1>4, AnsweredFacts DEF IInv
    <2>5. to \in {"partial", "wrote"} /\ stage'[a] = to
      BY <1>4 DEF IInv, TypeOK, Goes
    <2>6. (to = "wrote" => ~outcome[a].failed) /\ (to = "partial" => outcome[a].failed)
      OBVIOUS
    <2>7. rounds' \in Nat /\ edits' \in Nat /\ incidents' \in Nat /\ incidents' = incidents
      BY <1>4 DEF bounds, IInv, TypeOK
    <2>8. ASSUME Quiet(a)', to = "wrote" PROVE remote'[a] = With(current[a], desired[a])
      <3>1. remote[a] = With(current[a], [desired[a] EXCEPT !.on = Null])
        BY <1>1, <1>2, <2>6, <2>8 DEF RemoteInv, Quiet
      <3> QED
        BY <1>2, <2>4, <3>1, WithParts
    <2> HIDE DEF o, to
    <2>9. Quiet(a)' /\ to = "wrote" => s = remote'[a]
      BY <1>4, <2>4, <2>8
    <2>10. OutcomeInv(a)'
      BY <2>1, <2>2, <2>3, <2>5, <2>6 DEF OutcomeInv
    <2>11. RemoteInv(a)'
      BY <2>2, <2>3, <2>5, <2>9 DEF RemoteInv
    <2>12. /\ Clean(a)' => Clean(a) /\ Quiet(a)'
           /\ Kept(a, current[a]) => Kept(a, current[a])'
      BY <1>1, <2>7 DEF Clean, Quiet, Kept, Agrees
    <2>13. Clean(a) => to = "wrote"
      BY <1>1, <1>2, <2>5, <2>6 DEF OwnInv
    <2>14. OwnInv(a)'
      BY <1>1, <1>2, <2>2, <2>3, <2>5, <2>6, <2>8, <2>12, <2>13 DEF OwnInv, InHand, Pending
    <2> QED
      BY <1>1, <1>4, <2>2, <2>3, <2>4, <2>5, <2>7, <2>10, <2>11, <2>14, OneRequest DEF InFlight, to
  <1>5. ASSUME Unanswered({a}, d), outcome' = [outcome EXCEPT ![a] = Failed(@)],
               Goes(a, IF outcome[a].confirmed THEN "partial" ELSE "wrote")
        PROVE  IInv'
    <2> DEFINE o == Failed(outcome[a])
               to == IF outcome[a].confirmed THEN "partial" ELSE "wrote"
    <2>1. o \in Outcomes /\ o.failed /\ ~o.readback
      BY <1>2 DEF Outcomes, Failed
    <2>2. outcome' = [outcome EXCEPT ![a] = o] /\ outcome'[a] = o
      BY <1>5 DEF IInv, TypeOK
    <2>3. /\ remote' \in [Accounts -> Settings]
          /\ \A b \in Accounts \ {a} : remote'[b] = remote[b]
          /\ rounds' \in Nat /\ edits' \in Nat /\ incidents' \in Nat /\ incidents' # 0
      BY <1>3, <1>5, UnansweredFacts
    <2>4. to \in {"partial", "wrote"} /\ stage'[a] = to
      BY <1>5 DEF IInv, TypeOK, Goes
    <2> HIDE DEF o, to
    <2>5. OutcomeInv(a)' /\ RemoteInv(a)' /\ OwnInv(a)'
      BY <2>1, <2>2, <2>3, <2>4 DEF OutcomeInv, RemoteInv, OwnInv, Clean, Knows
    <2> QED
      BY <1>1, <1>5, <2>1, <2>2, <2>3, <2>4, <2>5, OneRequest DEF InFlight, to
  <1> QED
    BY <1>4, <1>5 DEF SwitchTraffic

(* Reading an account back, when it is unclear or partly known what became of it,
   is the end of a request in a round that is spoilt. *)
LEMMA ReadBackStep ==
  ASSUME IInv, NEW a \in Accounts, stage[a] \in {"unclear", "partial"}, Goes(a, "wrote"),
         UNCHANGED <<remote, durable, plan, prepare, phase, authorized, ended, history>>,
         UNCHANGED bounds \/ CallFails,
         NEW o \in Outcomes, outcome' = [outcome EXCEPT ![a] = o], Knows(o) => o.after = remote[a]
  PROVE  IInv'
  <1>1. /\ rounds' \in Nat /\ edits' \in Nat /\ incidents' \in Nat
        /\ incidents' = 0 => incidents = 0
    BY BoundsCount DEF IInv
  <1>2. stage'[a] = "wrote" /\ outcome'[a] = o
    BY DEF IInv, TypeOK, Goes
  <1>3. remote[a] \in Settings /\ remote[a] # Nothing /\ remote' \in [Accounts -> Settings]
    BY WriteAssumption DEF IInv, TypeOK, Settings, Nothing
  <1>4. OutcomeInv(a)' /\ RemoteInv(a)'
    BY <1>2, <1>3 DEF OutcomeInv, RemoteInv
  <1>5. ~Clean(a)'
    BY <1>1 DEF IInv, AccountInv, OwnInv, Clean, history
  <1>6. OwnInv(a)'
    BY <1>5 DEF OwnInv
  <1> QED
    BY <1>1, <1>3, <1>4, <1>6, OneRequest DEF InFlight

LEMMA ReadUnclearStep == ASSUME IInv, NEW a \in Accounts, ReadUnclear(a) PROVE IInv'
  <1>1. /\ stage[a] = "unclear" /\ Goes(a, "wrote") /\ (UNCHANGED bounds \/ CallFails)
        /\ UNCHANGED <<remote, durable, plan, prepare, phase, authorized, ended, history>>
        /\ \/ outcome' = [outcome EXCEPT ![a] = [outcome[a] EXCEPT
                             !.confirmed = TRUE, !.readback = TRUE, !.after = remote[a]]]
           \/ outcome' = [outcome EXCEPT ![a] = Failed(outcome[a])]
    BY DEF ReadUnclear
  <1>2. outcome[a] = NoOutcome /\ remote[a] \in Settings
    BY <1>1, FlightFacts DEF InFlight, OutcomeInv
  <1>3. /\ [NoOutcome EXCEPT !.confirmed = TRUE, !.readback = TRUE, !.after = remote[a]] \in Outcomes
        /\ [NoOutcome EXCEPT !.confirmed = TRUE, !.readback = TRUE, !.after = remote[a]].after = remote[a]
    BY <1>2, NoOutcomeType DEF Outcomes
  <1>4. Failed(NoOutcome) \in Outcomes /\ ~Knows(Failed(NoOutcome))
    BY DEF NoOutcome, Outcomes, Failed, Knows
  <1> QED
    BY <1>1, <1>2, <1>3, <1>4, ReadBackStep

LEMMA ReadPartialStep == ASSUME IInv, NEW a \in Accounts, ReadPartial(a) PROVE IInv'
  <1>1. /\ stage[a] = "partial" /\ Goes(a, "wrote") /\ (UNCHANGED bounds \/ CallFails)
        /\ UNCHANGED <<remote, durable, plan, prepare, phase, authorized, ended, history>>
        /\ \/ outcome' = [outcome EXCEPT ![a].after = remote[a], ![a].readback = TRUE]
           \/ UNCHANGED outcome
    BY DEF ReadPartial
  <1>2. /\ outcome[a] \in Outcomes /\ outcome[a].failed /\ ~outcome[a].readback
        /\ remote[a] \in Settings
    BY <1>1, FlightFacts DEF InFlight, OutcomeInv
  <1>3. CASE outcome' = [outcome EXCEPT ![a].after = remote[a], ![a].readback = TRUE]
    <2> DEFINE o == [outcome[a] EXCEPT !.after = remote[a], !.readback = TRUE]
    <2>1. o \in Outcomes /\ o.after = remote[a]
      BY <1>2 DEF Outcomes
    <2>2. outcome' = [outcome EXCEPT ![a] = o]
      BY <1>3 DEF IInv, TypeOK
    <2> HIDE DEF o
    <2> QED
      BY <1>1, <2>1, <2>2, ReadBackStep
  <1>4. CASE UNCHANGED outcome
    <2>1. outcome' = [outcome EXCEPT ![a] = outcome[a]]
      BY <1>4 DEF IInv, TypeOK
    <2>2. ~Knows(outcome[a])
      BY <1>2 DEF Knows
    <2> QED
      BY <1>1, <1>2, <2>1, <2>2, ReadBackStep
  <1> QED
    BY <1>1, <1>3, <1>4

(* A request that is about to be sent, together with others or alone. *)
LEMMA SendsOut ==
  ASSUME IInv, NEW a \in Accounts, stage[a] \in {"queued", "bulk"},
         stage'[a] \in {"bulk", "fields", "switch"}, stage'[a] = "switch" => desired[a].conc = Null,
         UNCHANGED <<remote, stored, baseline, target, current, desired, edited, disturbed>>,
         outcome'[a] = outcome[a], incidents' = 0 => incidents = 0
  PROVE  AccountInv(a)'
  <1>1. /\ current[a] \in Settings /\ desired[a] \in Fields /\ AccountInv(a)
        /\ outcome[a] = NoOutcome
    BY DEF IInv, TypeOK, AccountInv, OutcomeInv, Pending
  <1>2. WantsInv(a)'
    <2>1. DesiredValues(a)' = DesiredValues(a)
      BY DEF DesiredValues, Restorable
    <2> QED
      BY <1>1, <2>1 DEF AccountInv, WantsInv, Pending
  <1>3. OutcomeInv(a)'
    BY <1>1, NoOutcomeType DEF OutcomeInv
  <1>4. Quiet(a)' => current[a] = remote[a]
    BY <1>1 DEF AccountInv, RemoteInv, Quiet
  <1>5. RemoteInv(a)'
    BY <1>1, <1>4, WithParts DEF RemoteInv
  <1>6. /\ Clean(a)' => Clean(a)
        /\ Kept(a, current[a]) => Kept(a, current[a])'
    BY DEF Clean, Kept, Agrees
  <1>7. ~NoOutcome.failed
    BY DEF NoOutcome
  <1>8. OwnInv(a)'
    BY <1>1, <1>6, <1>7 DEF AccountInv, OwnInv, InHand, Pending
  <1> QED
    BY <1>2, <1>3, <1>5, <1>8 DEF AccountInv

LEMMA ExecuteStep == ASSUME IInv, Execute PROVE IInv'
  <1>1. /\ phase = "preparing"
        /\ UNCHANGED <<remote, stored, waiting, baseline, target, released, current, desired, budget,
                       remaining, authorized, ended, rounds, edits, incidents, edited, disturbed>>
    BY DEF Execute, durable, plan, prepare, bounds, history
  <1>2. \A a \in Accounts : stage[a] \in {"out", "todo", "read", "queued", "done"}
    BY <1>1 DEF IInv, PhaseInv
  <1>3. CASE /\ phase' = "writing"
             /\ stage' = [a \in Accounts |-> IF a \notin Queued THEN stage[a]
                                             ELSE IF Together(a) THEN "bulk" ELSE Alone(a)]
             /\ UNCHANGED outcome
    <2>1. \A a \in Accounts :
            \/ stage'[a] = stage[a]
            \/ /\ stage[a] = "queued" /\ stage'[a] \in {"bulk", "fields", "switch"}
               /\ stage'[a] = "switch" => desired[a].conc = Null
      BY <1>3 DEF Queued, Alone
    <2>2. stage' \in [Accounts -> Stages]
      BY <1>3, <2>1 DEF IInv, TypeOK, Stages, Pending
    <2>3. TypeOK'
      BY <1>1, <1>3, <2>1, <2>2 DEF IInv, TypeOK, Pending
    <2>4. PhaseInv'
      BY <1>1, <1>3 DEF IInv, PhaseInv
    <2>5. Later
      BY <1>1 DEF Later
    <2>6. ASSUME NEW a \in Accounts PROVE AccountInv(a)'
      <3>1. CASE stage'[a] = stage[a]
        BY <1>1, <1>3, <2>5, <3>1, Untouched DEF IInv, Same
      <3>2. CASE stage[a] = "queued" /\ stage'[a] \in {"bulk", "fields", "switch"}
                 /\ (stage'[a] = "switch" => desired[a].conc = Null)
        BY <1>1, <1>3, <3>2, SendsOut
      <3> QED
        BY <2>1, <3>1, <3>2
    <2> QED
      BY <2>3, <2>4, <2>6 DEF IInv
  <1>4. CASE /\ ~authorized \/ ended
             /\ phase' = "finishing"
             /\ stage' = [a \in Accounts |-> IF a \in Queued THEN "wrote" ELSE stage[a]]
             /\ outcome' = [a \in Accounts |-> [outcome[a] EXCEPT !.failed = a \in Queued]]
    <2>1. incidents # 0
      BY <1>4 DEF IInv, PhaseInv
    <2>2. \A a \in Accounts :
            \/ /\ stage[a] = "queued" /\ stage'[a] = "wrote"
               /\ outcome'[a].failed /\ ~outcome'[a].confirmed
            \/ /\ stage[a] # "queued" /\ stage'[a] = stage[a]
               /\ stage[a] \in {"todo", "read"} => outcome'[a] = NoOutcome
      <3>1. \A a \in Accounts : outcome'[a] = [outcome[a] EXCEPT !.failed = (stage[a] = "queued")]
        BY <1>4 DEF Queued
      <3>2. \A a \in Accounts : stage[a] \in {"todo", "read", "queued"} => outcome[a] = NoOutcome
        BY DEF IInv, AccountInv, OutcomeInv
      <3>3. /\ [NoOutcome EXCEPT !.failed = TRUE].failed
            /\ ~[NoOutcome EXCEPT !.failed = TRUE].confirmed
        BY NoOutcomeType DEF Outcomes
      <3>4. [NoOutcome EXCEPT !.failed = FALSE] = NoOutcome
        <4>1. ASSUME NEW o \in Outcomes, ~o.failed PROVE [o EXCEPT !.failed = FALSE] = o
          BY <4>1 DEF Outcomes
        <4>2. ~NoOutcome.failed
          BY DEF NoOutcome
        <4> QED
          BY <4>1, <4>2, NoOutcomeType
      <3>5. \A a \in Accounts : stage'[a] = IF stage[a] = "queued" THEN "wrote" ELSE stage[a]
        BY <1>4 DEF Queued
      <3>6. ASSUME NEW a \in Accounts, stage[a] = "queued"
            PROVE  outcome'[a].failed /\ ~outcome'[a].confirmed
        BY <3>1, <3>2, <3>3, <3>6
      <3>7. ASSUME NEW a \in Accounts, stage[a] \in {"todo", "read"} PROVE outcome'[a] = NoOutcome
        BY <3>1, <3>2, <3>7, <3>4
      <3> QED
        BY <3>5, <3>6, <3>7
    <2>3. stage' \in [Accounts -> Stages] /\ outcome' \in [Accounts -> Outcomes]
      <3> DEFINE new(a) == [outcome[a] EXCEPT !.failed = a \in Queued]
      <3>1. ASSUME NEW o \in Outcomes, NEW p \in BOOLEAN PROVE [o EXCEPT !.failed = p] \in Outcomes
        BY DEF Outcomes
      <3>2. ASSUME NEW a \in Accounts PROVE new(a) \in Outcomes
        <4>1. outcome[a] \in Outcomes /\ (a \in Queued) \in BOOLEAN
          BY DEF IInv, TypeOK
        <4> QED
          BY <3>1, <4>1
      <3>3. outcome' = [a \in Accounts |-> new(a)]
        BY <1>4
      <3> HIDE DEF new
      <3>4. outcome' \in [Accounts -> Outcomes]
        BY <3>2, <3>3
      <3> QED
        BY <1>4, <3>4 DEF IInv, TypeOK, Stages, Pending
    <2>4. TypeOK'
      BY <1>1, <1>4, <2>2, <2>3 DEF IInv, TypeOK, Pending
    <2>5. PhaseInv'
      BY <1>1, <1>4, <2>1 DEF PhaseInv
    <2>6. ASSUME NEW a \in Accounts PROVE AccountInv(a)'
      <3>1. DesiredValues(a)' = DesiredValues(a)
        BY <1>1 DEF DesiredValues, Restorable
      <3>2. WantsInv(a)'
        BY <1>1, <2>2, <3>1 DEF IInv, AccountInv, WantsInv, Pending
      <3>3. stage[a] \in {"out", "todo", "read", "queued", "done"}
        BY <1>2
      <3>4. OutcomeInv(a)' /\ RemoteInv(a)'
        BY <1>1, <2>2, <3>3 DEF IInv, AccountInv, OutcomeInv, RemoteInv, Quiet, Knows
      <3>5. OwnInv(a)'
        BY <1>1, <2>1 DEF OwnInv, Clean
      <3> QED
        BY <3>2, <3>4, <3>5 DEF AccountInv
    <2> QED
      BY <2>4, <2>5, <2>6 DEF IInv
  <1> QED
    BY <1>3, <1>4 DEF Execute

LEMMA BulkStep == ASSUME IInv, NEW d \in Fields, BulkWrite(d) PROVE IInv'
  <1> DEFINE group == {a \in Accounts : stage[a] = "bulk" /\ desired[a] = d}
  <1>1. /\ phase = "writing" /\ group \in SUBSET Accounts
        /\ UNCHANGED <<stored, waiting, baseline, target, released, current, desired, budget, remaining,
                       phase, authorized, ended, edited, disturbed>>
    BY DEF BulkWrite, durable, plan, prepare, history
  <1>2. \A a \in group : /\ stage[a] = "bulk" /\ desired[a] = d /\ outcome[a] = NoOutcome
                         /\ current[a] \in Settings /\ AccountInv(a)
                         /\ Quiet(a) => current[a] = remote[a]
    BY DEF IInv, TypeOK, AccountInv, OutcomeInv, RemoteInv, Pending
  <1>3. ASSUME NEW done \in SUBSET group, NEW unclear \in SUBSET group, Answered(done, d),
               IF done = group /\ unclear = {} THEN UNCHANGED bounds ELSE Incident,
               stage' = [a \in Accounts |-> IF a \in unclear THEN "unclear"
                                            ELSE IF a \in group THEN "wrote" ELSE stage[a]],
               outcome' = [a \in Accounts |->
                   IF a \in group \ unclear
                   THEN [outcome[a] EXCEPT !.confirmed = a \in done, !.failed = a \notin done,
                                           !.after = IF a \in done THEN With(current[a], d) ELSE Nothing]
                   ELSE outcome[a]]
        PROVE  IInv'
    <2> DEFINE new(a) == [outcome[a] EXCEPT !.confirmed = a \in done, !.failed = a \notin done,
                             !.after = IF a \in done THEN With(current[a], d) ELSE Nothing]
    <2>1. /\ remote' \in [Accounts -> Settings]
          /\ \A b \in done : remote'[b] = With(remote[b], d)
          /\ \A b \in Accounts \ done : remote'[b] = remote[b]
      BY <1>1, <1>3, AnsweredFacts DEF IInv
    <2>2. /\ rounds' \in Nat /\ edits' \in Nat /\ incidents' \in Nat
          /\ incidents' = 0 => incidents = 0
          /\ incidents' = 0 => done = group /\ unclear = {}
      BY <1>3, BoundsCount DEF IInv
    <2>3. ASSUME NEW a \in group
          PROVE  /\ new(a) \in Outcomes /\ ~new(a).readback
                 /\ a \in done => new(a).confirmed /\ ~new(a).failed /\ new(a).after = With(current[a], d)
                 /\ a \notin done => ~new(a).confirmed
      <3>1. ASSUME NEW o \in Outcomes, NEW p \in BOOLEAN, NEW q \in BOOLEAN,
                   NEW t \in Settings \cup {Nothing}
            PROVE  [o EXCEPT !.confirmed = p, !.failed = q, !.after = t] \in Outcomes
        BY DEF Outcomes
      <3>2. With(current[a], d) \in Settings
        BY <1>2, WithType
      <3>3. outcome[a] \in Outcomes /\ ~outcome[a].readback
        BY <1>2, NoOutcomeType
      <3>4. new(a) \in Outcomes
        <4>1. /\ (a \in done) \in BOOLEAN /\ (a \notin done) \in BOOLEAN
              /\ (IF a \in done THEN With(current[a], d) ELSE Nothing) \in Settings \cup {Nothing}
          BY <3>2
        <4> QED
          BY <3>1, <3>3, <4>1
      <3>5. ~new(a).readback
        BY <3>3 DEF Outcomes
      <3>6. new(a).confirmed = (a \in done) /\ new(a).failed = (a \notin done)
        BY <3>3 DEF Outcomes
      <3>7. a \in done => new(a).after = With(current[a], d)
        BY <3>3 DEF Outcomes
      <3> QED
        BY <3>4, <3>5, <3>6, <3>7
    <2>4. outcome' = [a \in Accounts |-> IF a \in group \ unclear THEN new(a) ELSE outcome[a]]
      BY <1>3
    <2> HIDE DEF new
    <2>5. \A a \in Accounts :
            \/ a \in unclear /\ stage'[a] = "unclear" /\ outcome'[a] = outcome[a]
            \/ a \in group \ unclear /\ stage'[a] = "wrote" /\ outcome'[a] = new(a)
            \/ a \notin group /\ stage'[a] = stage[a] /\ outcome'[a] = outcome[a]
      BY <1>3, <2>4
    <2>6. stage' \in [Accounts -> Stages] /\ outcome' \in [Accounts -> Outcomes]
      <3>1. outcome' \in [Accounts -> Outcomes]
        BY <2>3, <2>4 DEF IInv, TypeOK
      <3> QED
        BY <1>3, <3>1 DEF IInv, TypeOK, Stages, Pending
    <2> HIDE DEF group
    <2>7. TypeOK'
      <3>1. \A a \in Accounts : stage'[a] \in Pending => stage[a] \in Pending
        BY <1>2, <2>5 DEF Pending
      <3>2. \A a \in Accounts : stage'[a] = "read" => stage[a] = "read"
        BY <2>5
      <3> QED
        BY <1>1, <2>1, <2>2, <2>6, <3>1, <3>2 DEF IInv, TypeOK
    <2>8. PhaseInv'
      BY <1>1, <2>2 DEF IInv, PhaseInv
    <2>9. ASSUME NEW a \in Accounts PROVE AccountInv(a)'
      <3>1. CASE a \notin group
        BY <1>1, <2>1, <2>2, <2>5, <3>1, Untouched DEF IInv, Same, Later
      <3>2. CASE a \in group
        <4>1. DesiredValues(a)' = DesiredValues(a)
          BY <1>1 DEF DesiredValues, Restorable
        <4>2. WantsInv(a)'
          BY <1>1, <1>2, <2>5, <3>2, <4>1 DEF AccountInv, WantsInv, Pending
        <4>3. Quiet(a)' /\ a \in done => remote'[a] = With(current[a], d)
          BY <1>1, <1>2, <2>1, <3>2 DEF Quiet
        <4>4. a \in done => With(current[a], d) # Nothing
          BY <1>2, <3>2, WithType, WriteAssumption DEF Settings, Nothing
        <4>5. OutcomeInv(a)'
          BY <1>2, <2>3, <2>5, <3>2, <4>4 DEF OutcomeInv, Knows
        <4>6. RemoteInv(a)'
          BY <2>3, <2>5, <3>2, <4>3 DEF RemoteInv, Knows
        <4>7. /\ Clean(a)' => Clean(a) /\ Quiet(a)' /\ a \in done /\ a \notin unclear
              /\ Kept(a, current[a]) => Kept(a, current[a])'
          BY <1>1, <2>2, <3>2 DEF Clean, Quiet, Kept, Agrees
        <4>8. OwnInv(a)'
          BY <1>1, <1>2, <2>3, <2>5, <3>2, <4>3, <4>7 DEF AccountInv, OwnInv, InHand, Pending
        <4> QED
          BY <4>2, <4>5, <4>6, <4>8 DEF AccountInv
      <3> QED
        BY <3>1, <3>2
    <2> QED
      BY <2>7, <2>8, <2>9 DEF IInv
  <1>4. ASSUME Unanswered(group, d),
               stage' = [a \in Accounts |-> IF a \in group THEN "wrote" ELSE stage[a]],
               outcome' = [a \in Accounts |-> IF a \in group THEN Failed(outcome[a]) ELSE outcome[a]]
        PROVE  IInv'
    <2>1. /\ remote' \in [Accounts -> Settings]
          /\ \A b \in Accounts \ group : remote'[b] = remote[b]
          /\ rounds' \in Nat /\ edits' \in Nat /\ incidents' \in Nat /\ incidents' # 0
      BY <1>1, <1>4, UnansweredFacts
    <2>2. Failed(NoOutcome) \in Outcomes /\ ~Knows(Failed(NoOutcome))
      BY NoOutcomeType, FailedType DEF Knows
    <2>3. \A a \in Accounts :
            \/ a \in group /\ stage'[a] = "wrote" /\ outcome'[a] = Failed(NoOutcome)
            \/ a \notin group /\ stage'[a] = stage[a] /\ outcome'[a] = outcome[a]
      BY <1>2, <1>4
    <2>4. stage' \in [Accounts -> Stages] /\ outcome' \in [Accounts -> Outcomes]
      <3>1. \A a \in Accounts : outcome'[a] \in Outcomes /\ stage'[a] \in Stages
        BY <2>2, <2>3 DEF IInv, TypeOK, Stages, Pending
      <3>2. outcome' \in [Accounts -> Outcomes]
        BY <1>4, <3>1
      <3> QED
        BY <1>4, <3>1, <3>2
    <2> HIDE DEF group
    <2>5. TypeOK'
      <3>1. \A a \in Accounts : stage'[a] \in Pending => stage[a] \in Pending
        BY <1>2, <2>3 DEF Pending
      <3>2. \A a \in Accounts : stage'[a] = "read" => stage[a] = "read"
        BY <2>3
      <3> QED
        BY <1>1, <2>1, <2>4, <3>1, <3>2 DEF IInv, TypeOK
    <2>6. PhaseInv'
      BY <1>1, <2>1 DEF IInv, PhaseInv
    <2>7. ASSUME NEW a \in Accounts PROVE AccountInv(a)'
      <3>1. CASE a \notin group
        BY <1>1, <2>1, <2>3, <3>1, Untouched DEF IInv, Same, Later
      <3>2. CASE a \in group
        <4>1. DesiredValues(a)' = DesiredValues(a)
          BY <1>1 DEF DesiredValues, Restorable
        <4>2. WantsInv(a)'
          BY <1>1, <1>2, <2>3, <3>2, <4>1 DEF AccountInv, WantsInv, Pending
        <4>3. OutcomeInv(a)' /\ RemoteInv(a)' /\ OwnInv(a)'
          BY <2>1, <2>2, <2>3, <3>2 DEF OutcomeInv, RemoteInv, OwnInv, Clean
        <4> QED
          BY <4>2, <4>3 DEF AccountInv
      <3> QED
        BY <3>1, <3>2
    <2> QED
      BY <2>5, <2>6, <2>7 DEF IInv
  <1>5. ASSUME stage' = [a \in Accounts |-> IF a \in group THEN Alone(a) ELSE stage[a]],
               UNCHANGED <<remote, outcome, bounds>>
        PROVE  IInv'
    <2>1. \A a \in Accounts :
            \/ a \notin group /\ stage'[a] = stage[a]
            \/ /\ a \in group /\ stage'[a] \in {"fields", "switch"}
               /\ stage'[a] = "switch" => desired[a].conc = Null
      BY <1>5 DEF Alone
    <2>2. stage' \in [Accounts -> Stages]
      <3>1. \A a \in Accounts : stage'[a] \in Stages
        BY <2>1 DEF IInv, TypeOK, Stages, Pending
      <3> QED
        BY <1>5, <3>1
    <2>3. rounds' = rounds /\ edits' = edits /\ incidents' = incidents
      BY <1>5 DEF bounds
    <2> HIDE DEF group
    <2>4. TypeOK'
      <3>1. \A a \in Accounts : stage'[a] \in Pending => stage[a] \in Pending
        BY <1>2, <2>1 DEF Pending
      <3>2. \A a \in Accounts : stage'[a] = "read" => stage[a] = "read"
        BY <2>1
      <3> QED
        BY <1>1, <1>5, <2>2, <2>3, <3>1, <3>2 DEF IInv, TypeOK
    <2>5. PhaseInv'
      BY <1>1, <2>3 DEF IInv, PhaseInv
    <2>6. ASSUME NEW a \in Accounts PROVE AccountInv(a)'
      <3>1. CASE a \notin group
        BY <1>1, <1>5, <2>1, <2>3, <3>1, Untouched DEF IInv, Same, Later
      <3>2. CASE a \in group
        BY <1>1, <1>2, <1>5, <2>1, <2>3, <3>2, SendsOut
      <3> QED
        BY <3>1, <3>2
    <2> QED
      BY <2>4, <2>5, <2>6 DEF IInv
  <1> QED
    BY <1>3, <1>4, <1>5 DEF BulkWrite

LEMMA VerifyStep == ASSUME IInv, VerifyWrites PROVE IInv'
  <1>1. /\ phase = "writing" /\ phase' = "finishing"
        /\ \A a \in Accounts : stage[a] \in {"out", "done", "wrote"}
        /\ UNCHANGED <<remote, stored, waiting, baseline, target, released, current, desired, budget,
                       remaining, stage, authorized, ended, edited, disturbed>>
        /\ UNCHANGED bounds \/ CallFails
        /\ \/ UNCHANGED outcome
           \/ /\ UNCHANGED bounds
              /\ outcome' = [a \in Accounts |-> IF a \in ToVerify THEN Verified(a) ELSE outcome[a]]
           \/ /\ CallFails
              /\ outcome' = [a \in Accounts |-> IF a \in ToVerify THEN Failed(outcome[a]) ELSE outcome[a]]
    BY DEF VerifyWrites, durable, plan, prepare, history
  <1>2. /\ rounds' \in Nat /\ edits' \in Nat /\ incidents' \in Nat
        /\ incidents' = 0 => incidents = 0
        /\ CallFails => incidents' # 0
    BY <1>1, BoundsCount DEF IInv
  <1>3. ASSUME NEW a \in Accounts
        PROVE  /\ remote[a] \in Settings /\ outcome[a] \in Outcomes /\ desired[a] \in Fields
               /\ AccountInv(a)
    BY DEF IInv, TypeOK
  <1>4. ASSUME NEW a \in ToVerify
        PROVE  /\ stage[a] = "wrote" /\ ~outcome[a].readback /\ ~outcome[a].failed
               /\ Failed(outcome[a]) \in Outcomes /\ ~Knows(Failed(outcome[a]))
               /\ Verified(a) \in Outcomes /\ Verified(a).after = remote[a]
               /\ Verified(a).confirmed = outcome[a].confirmed
               /\ Verified(a).failed <=> ~Agrees(desired[a], remote[a])
    <2>1. stage[a] = "wrote" /\ ~outcome[a].readback /\ ~outcome[a].failed /\ a \in Accounts
      BY DEF ToVerify
    <2>2. Failed(outcome[a]) \in Outcomes /\ ~Knows(Failed(outcome[a]))
      BY <1>3, <2>1, FailedType DEF Knows
    <2>3. ASSUME NEW p \in BOOLEAN, NEW q \in BOOLEAN, NEW o \in Outcomes, NEW s \in Settings
          PROVE  [o EXCEPT !.after = s, !.readback = p, !.failed = q] \in Outcomes
      BY DEF Outcomes
    <2>4. Agrees(desired[a], remote[a]) \in BOOLEAN
      BY DEF Agrees
    <2>5. Verified(a) \in Outcomes
      BY <1>3, <2>1, <2>3, <2>4 DEF Verified
    <2>6. /\ Verified(a).after = remote[a] /\ Verified(a).confirmed = outcome[a].confirmed
          /\ Verified(a).failed = ~Agrees(desired[a], remote[a])
      BY <1>3, <2>1 DEF Verified, Outcomes
    <2> QED
      BY <2>1, <2>2, <2>5, <2>6
  <1>5. /\ outcome' \in [Accounts -> Outcomes]
        /\ \A a \in Accounts :
             \/ outcome'[a] = outcome[a]
             \/ a \in ToVerify /\ outcome'[a] = Verified(a)
             \/ a \in ToVerify /\ outcome'[a] = Failed(outcome[a]) /\ incidents' # 0
    <2>1. CASE UNCHANGED outcome
      BY <2>1 DEF IInv, TypeOK
    <2>2. CASE outcome' = [a \in Accounts |-> IF a \in ToVerify THEN Verified(a) ELSE outcome[a]]
      BY <1>3, <1>4, <2>2
    <2>3. CASE CallFails /\ outcome' = [a \in Accounts |-> IF a \in ToVerify THEN Failed(outcome[a])
                                                           ELSE outcome[a]]
      BY <1>2, <1>3, <1>4, <2>3
    <2> QED
      BY <1>1, <2>1, <2>2, <2>3
  <1>6. TypeOK'
    BY <1>1, <1>2, <1>5 DEF IInv, TypeOK
  <1>7. PhaseInv'
    BY <1>1, <1>2 DEF IInv, PhaseInv
  <1>8. ASSUME NEW a \in Accounts PROVE AccountInv(a)'
    <2>1. CASE outcome'[a] = outcome[a]
      BY <1>1, <1>2, <2>1, Untouched DEF IInv, Same, Later
    <2>2. CASE a \in ToVerify /\ outcome'[a] # outcome[a]
      <3>1. stage[a] = "wrote" /\ stage'[a] = "wrote"
        BY <1>1, <1>4, <2>2
      <3>2. DesiredValues(a)' = DesiredValues(a)
        BY <1>1 DEF DesiredValues, Restorable
      <3>3. WantsInv(a)'
        BY <1>1, <1>3, <3>2 DEF AccountInv, WantsInv
      <3>4. remote[a] # Nothing
        BY <1>3, WriteAssumption DEF Settings, Nothing
      <3>5. Knows(outcome'[a]) => outcome'[a].after = remote'[a]
        BY <1>1, <1>4, <1>5, <2>2
      <3>6. OutcomeInv(a)' /\ RemoteInv(a)'
        BY <1>1, <3>1, <3>4, <3>5 DEF OutcomeInv, RemoteInv
      <3>7. ASSUME Clean(a)'
            PROVE  /\ Clean(a) /\ outcome'[a].confirmed /\ ~outcome'[a].failed
                   /\ remote[a] = With(current[a], desired[a])
        <4>1. Clean(a) /\ outcome'[a] = Verified(a)
          BY <1>1, <1>2, <1>5, <2>2, <3>7 DEF Clean
        <4>2. outcome[a].confirmed /\ remote[a] = With(current[a], desired[a]) /\ current[a] \in Settings
          BY <1>3, <3>1, <4>1 DEF IInv, TypeOK, AccountInv, OwnInv, Pending
        <4>3. Agrees(desired[a], remote[a])
          BY <1>3, <4>2, WithAgrees
        <4> QED
          BY <1>4, <2>2, <4>1, <4>2, <4>3
      <3>8. Kept(a, current[a]) => Kept(a, current[a])'
        BY <1>1 DEF Kept, Agrees
      <3>9. OwnInv(a)'
        BY <1>1, <1>3, <3>1, <3>7, <3>8 DEF AccountInv, OwnInv, InHand, Pending
      <3> QED
        BY <3>3, <3>6, <3>9 DEF AccountInv
    <2> QED
      BY <1>5, <2>1, <2>2
  <1> QED
    BY <1>6, <1>7, <1>8 DEF IInv

(* What is recorded is known, and known to be as Sub2API holds it unless a person
   has interfered; without failures everything that was written is recorded. *)
LEMMA FinishFacts ==
  ASSUME IInv, NEW a \in Accounts, Finish(a)
  PROVE  /\ stage[a] = "wrote" /\ phase = "finishing" /\ stage' = [stage EXCEPT ![a] = "done"]
         /\ UNCHANGED <<remote, target, released, current, desired, budget, remaining, phase, outcome,
                        authorized, ended, edited, disturbed>>
         /\ UNCHANGED bounds \/ CallFails
         /\ \/ /\ outcome[a].after \in Settings /\ Knows(outcome[a])
               /\ Commit(a, baseline[a], outcome[a].after,
                         target[a].kind = "release" /\ ~outcome[a].failed)
            \/ UNCHANGED <<stored, waiting, baseline>> /\ (~Knows(outcome[a]) \/ CallFails)
  <1>1. stage[a] = "wrote" /\ outcome[a] \in Outcomes /\ OutcomeInv(a)
    BY DEF Finish, IInv, TypeOK, AccountInv
  <1>2. Knows(outcome[a]) => outcome[a].after \in Settings
    BY <1>1 DEF OutcomeInv, Outcomes
  <1> QED
    BY <1>1, <1>2 DEF Finish, Goes, durable, plan, prepare, history

LEMMA FinishStep == ASSUME IInv, NEW a \in Accounts, Finish(a) PROVE IInv'
  <1> DEFINE s == outcome[a].after
             complete == target[a].kind = "release" /\ ~outcome[a].failed
  <1>1. /\ stage[a] = "wrote" /\ phase = "finishing" /\ stage' = [stage EXCEPT ![a] = "done"]
        /\ UNCHANGED <<remote, target, released, current, desired, budget, remaining, phase, outcome,
                       authorized, ended, edited, disturbed>>
        /\ UNCHANGED bounds \/ CallFails
        /\ \/ s \in Settings /\ Commit(a, baseline[a], s, complete)
           \/ UNCHANGED <<stored, waiting, baseline>> /\ (~Knows(outcome[a]) \/ CallFails)
    BY FinishFacts
  <1>2. /\ current[a] \in Settings /\ remote[a] \in Settings /\ desired[a] \in Fields
        /\ baseline[a] \in Baselines /\ target[a] \in Targets /\ AccountInv(a)
        /\ baseline[a].owner # "console" => baseline[a].managed = Nothing
        /\ baseline[a].owner # "none" => baseline[a].before \in Settings
        /\ target[a].kind = "set" => baseline[a].owner = "console"
        /\ complete \in BOOLEAN
    BY <1>1 DEF IInv, TypeOK, AccountInv, WantsInv, Pending
  <1>3. /\ rounds' \in Nat /\ edits' \in Nat /\ incidents' \in Nat
        /\ incidents' = 0 => incidents = 0
        /\ CallFails => incidents' # 0
    BY <1>1, BoundsCount DEF IInv
  <1> HIDE DEF s, complete
  <1>4. ASSUME s \in Settings, Commit(a, baseline[a], s, complete)
        PROVE  /\ stored' \in [Accounts -> Settings] /\ waiting' \subseteq Accounts
               /\ baseline' \in [Accounts -> Baselines]
               /\ baseline'[a].owner # "console" => baseline'[a].managed = Nothing
               /\ baseline'[a].owner # "none" => baseline'[a].before \in Settings
               /\ stored'[a] = s
               /\ baseline'[a] = IF complete THEN Unowned
                                 ELSE [baseline[a] EXCEPT !.managed = Overlay(@, Confirmed(target[a].want, s))]
               /\ \A c \in Accounts \ {a} : stored'[c] = stored[c] /\ baseline'[c] = baseline[c]
    BY <1>2, <1>4, CommitTypes DEF IInv, AccountInv
  <1>5. /\ stored' \in [Accounts -> Settings] /\ waiting' \subseteq Accounts
        /\ baseline' \in [Accounts -> Baselines]
        /\ baseline'[a].owner # "console" => baseline'[a].managed = Nothing
        /\ baseline'[a].owner # "none" => baseline'[a].before \in Settings
        /\ target[a].kind = "abandon" => baseline'[a].owner # "none"
        /\ \A c \in Accounts \ {a} : stored'[c] = stored[c] /\ baseline'[c] = baseline[c]
    <2>1. target[a].kind = "abandon" => baseline[a].owner # "none" /\ ~complete
      BY <1>2 DEF AccountInv, WantsInv, complete
    <2>2. CASE s \in Settings /\ Commit(a, baseline[a], s, complete)
      <3>1. ~complete => baseline'[a].owner = baseline[a].owner
        BY <1>2, <1>4, <2>2 DEF Baselines
      <3> QED
        BY <1>4, <2>1, <2>2, <3>1
    <2>3. CASE UNCHANGED <<stored, waiting, baseline>>
      BY <1>2, <2>1, <2>3 DEF IInv, TypeOK
    <2> QED
      BY <1>1, <2>2, <2>3
  <1>6. TypeOK'
    <2>1. /\ stage' \in [Accounts -> Stages] /\ stage'[a] = "done"
          /\ \A b \in Accounts \ {a} : stage'[b] = stage[b]
      BY <1>1 DEF IInv, TypeOK, Stages
    <2> QED
      BY <1>1, <1>3, <1>5, <2>1 DEF IInv, TypeOK, Pending
  <1>7. PhaseInv'
    BY <1>1, <1>3 DEF IInv, TypeOK, PhaseInv
  <1>8. AccountInv(a)'
    <2>1. stage'[a] = "done"
      BY <1>1 DEF IInv, TypeOK
    <2>2. WantsInv(a)' /\ OutcomeInv(a)' /\ RemoteInv(a)'
      BY <1>1, <1>2, <1>5, <2>1 DEF AccountInv, WantsInv, OutcomeInv, RemoteInv, Pending
    <2>3. ASSUME Clean(a)'
          PROVE  /\ stored'[a] = remote'[a]
                 /\ baseline'[a].owner = "console" => Kept(a, remote[a])'
      <3>1. Clean(a) /\ Quiet(a)
        BY <1>1, <1>3, <2>3 DEF Clean, Quiet
      <3>2. /\ outcome[a].confirmed /\ ~outcome[a].failed /\ Knows(outcome[a])
            /\ remote[a] = With(current[a], desired[a]) /\ s = remote[a]
            /\ baseline[a].owner = "console" => Kept(a, current[a])
        BY <1>1, <1>2, <3>1 DEF AccountInv, OwnInv, RemoteInv, Knows, InHand, Pending, s
      <3>3. s \in Settings /\ Commit(a, baseline[a], s, complete)
        BY <1>1, <1>3, <2>3, <3>2 DEF Clean
      <3>4. stored'[a] = remote'[a]
        BY <1>1, <1>4, <3>2, <3>3
      <3>5. ASSUME baseline'[a].owner = "console" PROVE Kept(a, remote[a])'
        <4>1. /\ ~complete
              /\ baseline'[a] = [baseline[a] EXCEPT !.managed = Overlay(@, Confirmed(target[a].want, s))]
          BY <1>4, <3>3, <3>5 DEF Unowned
        <4>2. /\ baseline'[a].owner = baseline[a].owner /\ baseline'[a].before = baseline[a].before
              /\ baseline'[a].managed = Overlay(baseline[a].managed, Confirmed(target[a].want, s))
          BY <1>2, <4>1 DEF Baselines
        <4>3. baseline[a].owner = "console" /\ target[a].kind # "release"
          BY <3>2, <3>5, <4>1, <4>2 DEF complete
        <4>4. desired[a] = Changes(target[a].want, current[a])
          BY <1>1, <1>2, <4>3 DEF AccountInv, WantsInv, DesiredValues, Pending
        <4>5. s = With(current[a], Changes(target[a].want, current[a]))
          BY <3>2, <4>4
        <4>6. /\ baseline[a].before \in Settings /\ baseline[a].managed \in Fields
              /\ target[a].want \in Fields
          BY <1>2, <4>3 DEF Baselines, Targets
        <4>7. /\ Agrees(baseline[a].managed, current[a])
              /\ baseline[a].managed.on = Null => baseline[a].before.on = current[a].on
              /\ baseline[a].managed.conc = Null => baseline[a].before.conc = current[a].conc
          BY <3>2, <4>3 DEF Kept
        <4>8. /\ Agrees(baseline'[a].managed, s)
              /\ baseline'[a].managed.on = Null => baseline'[a].before.on = s.on
              /\ baseline'[a].managed.conc = Null => baseline'[a].before.conc = s.conc
          BY <1>2, <4>2, <4>5, <4>6, <4>7, RecordKeeps
        <4>9. remote'[a] = s
          BY <1>1, <3>2
        <4> QED
          BY <4>8, <4>9 DEF Kept, Agrees
      <3> QED
        BY <3>4, <3>5
    <2>4. Clean(a)' => Clean(a)
      BY <1>1, <1>3 DEF Clean
    <2>5. OwnInv(a)'
      BY <1>1, <1>2, <2>1, <2>3, <2>4 DEF AccountInv, OwnInv, InHand, Pending
    <2> QED
      BY <2>2, <2>5 DEF AccountInv
  <1>9. Later /\ \A b \in Accounts \ {a} : Same(b)
    BY <1>1, <1>3, <1>5 DEF IInv, TypeOK, Later, Same
  <1> QED
    BY <1>6, <1>7, <1>8, <1>9, OneAccount
-----------------------------------------------------------------------------
(* The invariant *)

LEMMA InitInv == ASSUME Init PROVE IInv
  <1>1. /\ NoTarget \in Targets /\ NoTarget.kind = "none" /\ NoTarget.want = Nothing
        /\ Unowned \in Baselines /\ Unowned.owner = "none" /\ Unowned.managed = Nothing
        /\ NoBudget \in Budgets /\ ~NoBudget.read
    BY NothingIsFields DEF NoTarget, Targets, Unowned, Baselines, NoBudget, Budgets
  <1>2. remote \in [Accounts -> Settings]
    <2>1. FirstSettings \subseteq Settings
      BY WriteAssumption DEF Settings
    <2> QED
      BY <2>1 DEF Init
  <1>3. TypeOK
    <2>1. /\ stored \in [Accounts -> Settings] /\ waiting \subseteq Accounts
          /\ released \subseteq Accounts /\ edited \subseteq Accounts
      BY <1>2 DEF Init
    <2>2. /\ baseline \in [Accounts -> Baselines] /\ target \in [Accounts -> Targets]
          /\ current \in [Accounts -> Settings \cup {Nothing}] /\ desired \in [Accounts -> Fields]
          /\ outcome \in [Accounts -> Outcomes] /\ budget \in Budgets /\ ~budget.read
      BY <1>1, NothingIsFields, NoOutcomeType DEF Init
    <2>3. stage \in [Accounts -> Stages] /\ \A a \in Accounts : stage[a] = "out"
      BY DEF Init, Stages
    <2>4. remaining \in Int /\ rounds \in Nat /\ edits \in Nat /\ incidents \in Nat /\ phase = "idle"
      BY DEF Init
    <2>5. authorized \in BOOLEAN /\ ended \in BOOLEAN /\ disturbed \in BOOLEAN
      BY DEF Init
    <2>6. \A a \in Accounts : baseline[a] = Unowned /\ target[a] = NoTarget
      BY DEF Init
    <2>7. Targeted = {}
      BY <1>1, <2>6 DEF Targeted
    <2> QED
      BY <1>1, <1>2, <2>1, <2>2, <2>3, <2>4, <2>5, <2>6, <2>7 DEF TypeOK, Pending
  <1>4. PhaseInv
    BY DEF Init, PhaseInv
  <1>5. ASSUME NEW a \in Accounts PROVE AccountInv(a)
    <2>1. stage[a] = "out" /\ target[a] = NoTarget /\ baseline[a] = Unowned /\ stored[a] = remote[a]
      BY DEF Init
    <2> QED
      BY <1>1, <2>1 DEF AccountInv, WantsInv, OutcomeInv, RemoteInv, OwnInv, InHand, Pending
  <1> QED
    BY <1>3, <1>4, <1>5 DEF IInv

LEMMA StutterInv == ASSUME IInv, UNCHANGED vars PROVE IInv'
  <1>1. UNCHANGED <<remote, stored, waiting, baseline, target, released, current, desired, budget,
                    remaining, stage, phase, outcome, authorized, ended, rounds, edits, incidents,
                    edited, disturbed>>
    BY DEF vars, durable, plan, prepare, bounds, history
  <1>2. TypeOK'
    BY <1>1 DEF IInv, TypeOK, Targeted
  <1>3. PhaseInv'
    BY <1>1 DEF IInv, PhaseInv
  <1>4. Later /\ \A a \in Accounts : Same(a)
    BY <1>1 DEF Later, Same
  <1> QED
    BY <1>2, <1>3, <1>4, Untouched DEF IInv

LEMMA StepInv == ASSUME IInv, [Next]_vars PROVE IInv'
  <1>1. CASE Sync \/ Calculate
    BY <1>1, SyncStep, CalculateStep
  <1>2. CASE Round
    <2>1. CASE Apply \/ ApplyRefused \/ LoadRemoteCapacity
      BY <2>1, ApplyStep, ApplyRefusedStep, LoadStep
    <2>2. ASSUME NEW a \in Accounts, Prepare(a) PROVE IInv'
      BY <2>2, ReadAccountStep, AbandonStep, WaitStep, RefuseStep, MatchesStep, EnqueueStep DEF Prepare
    <2>3. CASE Execute
      BY <2>3, ExecuteStep
    <2>4. ASSUME NEW d \in Fields, BulkWrite(d) PROVE IInv'
      BY <2>4, BulkStep
    <2>5. ASSUME NEW a \in Accounts, Write(a) PROVE IInv'
      BY <2>5, PutFieldsStep, ConfirmStep, SwitchStep, ReadUnclearStep, ReadPartialStep DEF Write
    <2>6. CASE VerifyWrites
      BY <2>6, VerifyStep
    <2>7. ASSUME NEW a \in Accounts, Finish(a) PROVE IInv'
      BY <2>7, FinishStep
    <2>8. CASE EndRound
      BY <2>8, EndRoundStep
    <2> QED
      BY <1>2, <2>1, <2>2, <2>3, <2>4, <2>5, <2>6, <2>7, <2>8 DEF Round
  <1>3. CASE Disturbance
    BY <1>3, EndContextStep, WithdrawStep, CrashStep, HumanEditStep DEF Disturbance
  <1>4. CASE UNCHANGED vars
    BY <1>4, StutterInv
  <1> QED
    BY <1>1, <1>2, <1>3, <1>4 DEF Next, Console

LEMMA AlwaysInv == Spec => []IInv
  BY InitInv, StepInv, PTL DEF Spec

(* The variables keep their types: whatever is answered, refused or edited, only
   what differs is written, only what was read is decided on, and nothing of a
   round is left before the next. *)
THEOREM WritesTypeCorrect == Spec => []TypeOK
  <1>1. IInv => TypeOK
    BY DEF IInv
  <1> QED
    BY <1>1, AlwaysInv, PTL
-----------------------------------------------------------------------------
(* What is recorded, given up and restored *)

(* Only these steps change what is recorded of an account, or who owns it. *)
LEMMA RecordingSteps ==
  ASSUME [Next]_vars
  PROVE  \/ UNCHANGED <<stored, baseline>>
         \/ Sync
         \/ \E a \in Accounts : AbandonControl(a) \/ Matches(a) \/ Enqueue(a) \/ Finish(a)
  <1>1. CASE Calculate
    BY <1>1 DEF Calculate, durable
  <1>2. CASE Apply \/ ApplyRefused \/ LoadRemoteCapacity \/ Execute \/ VerifyWrites \/ EndRound
    BY <1>2 DEF Apply, ApplyRefused, LoadRemoteCapacity, Execute, VerifyWrites, EndRound, durable
  <1>3. ASSUME NEW a \in Accounts, ReadAccount(a) \/ Wait(a) \/ Refuse(a) \/ Write(a)
        PROVE  UNCHANGED <<stored, baseline>>
    BY <1>3 DEF ReadAccount, Wait, Refuse, Write, PutFields, ConfirmConcurrency, SwitchTraffic,
                ReadUnclear, ReadPartial, durable
  <1>4. ASSUME NEW d \in Fields, BulkWrite(d) PROVE UNCHANGED <<stored, baseline>>
    BY <1>4 DEF BulkWrite, durable
  <1>5. CASE Disturbance
    BY <1>5 DEF Disturbance, EndContext, Withdraw, Crash, HumanEdit, durable
  <1>6. CASE UNCHANGED vars
    BY <1>6 DEF vars, durable
  <1>7. CASE Round
    BY <1>2, <1>3, <1>4, <1>7 DEF Round, Prepare
  <1> QED
    BY <1>1, <1>5, <1>6, <1>7 DEF Next, Console

(* What a step that records an account does to it, and to it alone. *)
LEMMA MatchesFacts ==
  ASSUME IInv, NEW a \in Accounts, Matches(a)
  PROVE  /\ stage[a] = "read" /\ current[a] \in Settings /\ DesiredValues(a) = Nothing
         /\ stored'[a] \in {stored[a], current[a]}
         /\ \/ baseline'[a].owner \in {baseline[a].owner, "console"}
            \/ target[a].kind = "release"
         /\ \A c \in Accounts \ {a} : stored'[c] = stored[c] /\ baseline'[c] = baseline[c]
  <1>1. stage[a] = "read" /\ current[a] \in Settings /\ DesiredValues(a) = Nothing
    BY DEF Matches, Ready, Decides, IInv, TypeOK
  <1>2. Captured(a).owner \in {baseline[a].owner, "console"} /\ Captured(a) \in Baselines
    BY <1>1, CapturedFacts DEF IInv, Captured
  <1>3. CASE Commit(a, Captured(a), current[a], target[a].kind = "release")
    <2>1. /\ stored' = [stored EXCEPT ![a] = current[a]]
          /\ baseline' = [baseline EXCEPT ![a] = IF target[a].kind = "release" THEN Unowned
                ELSE [Captured(a) EXCEPT !.managed = Overlay(@, Confirmed(target[a].want, current[a]))]]
      BY <1>3 DEF Commit
    <2>2. /\ stored'[a] = current[a]
          /\ baseline'[a] = IF target[a].kind = "release" THEN Unowned
                ELSE [Captured(a) EXCEPT !.managed = Overlay(@, Confirmed(target[a].want, current[a]))]
          /\ \A c \in Accounts \ {a} : stored'[c] = stored[c] /\ baseline'[c] = baseline[c]
      BY <2>1 DEF IInv, TypeOK
    <2>3. target[a].kind # "release" => baseline'[a].owner = Captured(a).owner
      BY <1>2, <2>2 DEF Baselines
    <2> QED
      BY <1>1, <1>2, <2>2, <2>3
  <1>4. CASE /\ \E b \in {baseline[a], Captured(a)} : baseline' = [baseline EXCEPT ![a] = b]
             /\ UNCHANGED <<stored, waiting>>
    BY <1>1, <1>2, <1>4 DEF IInv, TypeOK
  <1> QED
    BY <1>3, <1>4 DEF Matches

LEMMA RecordedIsRemote ==
  ASSUME IInv, [Next]_vars, NEW c \in Accounts, stored'[c] # stored[c], ~disturbed
  PROVE  stored'[c] = remote[c]
  <1>1. CASE Sync
    BY <1>1 DEF Sync
  <1>2. ASSUME NEW a \in Accounts, AbandonControl(a) PROVE stored'[c] = remote[c]
    <2>1. stage[a] = "read" /\ stored'[a] \in {stored[a], current[a]}
          /\ \A b \in Accounts \ {a} : stored'[b] = stored[b]
      BY <1>2 DEF AbandonControl, durable, IInv, TypeOK
    <2>2. current[a] = remote[a]
      BY <2>1 DEF IInv, AccountInv, RemoteInv, Quiet
    <2> QED
      BY <2>1, <2>2
  <1>3. ASSUME NEW a \in Accounts, Matches(a) PROVE stored'[c] = remote[c]
    <2>1. current[a] = remote[a]
      BY <1>3, MatchesFacts DEF IInv, AccountInv, RemoteInv, Quiet
    <2> QED
      BY <1>3, <2>1, MatchesFacts
  <1>4. ASSUME NEW a \in Accounts, Enqueue(a) PROVE stored'[c] = remote[c]
    BY <1>4 DEF Enqueue
  <1>5. ASSUME NEW a \in Accounts, Finish(a) PROVE stored'[c] = remote[c]
    <2>1. Knows(outcome[a]) /\ Commit(a, baseline[a], outcome[a].after,
                                      target[a].kind = "release" /\ ~outcome[a].failed)
      BY <1>5, FinishFacts
    <2>2. stored' = [stored EXCEPT ![a] = outcome[a].after]
      BY <2>1 DEF Commit
    <2>3. outcome[a].after = remote[a]
      BY <1>5, <2>1, FinishFacts DEF IInv, AccountInv, RemoteInv, Quiet
    <2> QED
      BY <2>2, <2>3 DEF IInv, TypeOK
  <1> QED
    BY <1>1, <1>2, <1>3, <1>4, <1>5, RecordingSteps

(* ProjectionConfirmed: what CommitRoutingReadback and the others that write the
   accounts table record is what Sub2API then holds, whatever was answered late,
   failed, took half an effect or was done in bulk. *)
THEOREM RecordsAreConfirmed == Spec => ProjectionConfirmed
  <1>1. IInv /\ [Next]_vars =>
          [\A a \in Accounts : stored'[a] # stored[a] /\ ~disturbed => stored'[a] = remote[a]]_vars
    BY RecordedIsRemote
  <1> QED
    BY <1>1, AlwaysInv, PTL DEF Spec, ProjectionConfirmed

LEMMA OwnerChanges ==
  ASSUME IInv, [Next]_vars, NEW c \in Accounts, baseline'[c].owner = "person", incidents = 0,
         baseline[c].owner # "person", c \notin edited
  PROVE  FALSE
  <1>1. CASE Sync
    BY <1>1 DEF Sync
  <1>2. ASSUME NEW a \in Accounts, AbandonControl(a) PROVE FALSE
    <2>1. \A b \in Accounts \ {a} : baseline'[b] = baseline[b]
      BY <1>2 DEF AbandonControl, durable, IInv, TypeOK
    <2>2. a = c
      BY <2>1
    <2>3. Clean(c) /\ stage[c] = "read" /\ GivesUp(c)
      BY <1>2, <2>2 DEF AbandonControl, Clean
    <2> QED
      BY <2>3 DEF IInv, AccountInv, OwnInv, GivesUp, ExternallyModified, Kept, InHand
  <1>3. ASSUME NEW a \in Accounts, Matches(a) PROVE FALSE
    <2>1. a = c /\ target[c].kind = "release"
      BY <1>3, MatchesFacts
    <2>2. Commit(c, Captured(c), current[c], TRUE) \/ baseline' = [baseline EXCEPT ![c] = Captured(c)]
            \/ baseline' = [baseline EXCEPT ![c] = baseline[c]]
      BY <1>3, <2>1 DEF Matches
    <2>3. baseline' = [baseline EXCEPT ![c] = Unowned] \/ UNCHANGED baseline
      BY <2>1, <2>2 DEF Commit, Captured, IInv, TypeOK
    <2> QED
      BY <2>3 DEF Unowned, IInv, TypeOK
  <1>4. ASSUME NEW a \in Accounts, Enqueue(a) PROVE FALSE
    <2>1. baseline' = [baseline EXCEPT ![a] = Captured(a)] \/ UNCHANGED baseline
      BY <1>4 DEF Enqueue
    <2> QED
      BY <2>1 DEF Captured, IInv, TypeOK
  <1>5. ASSUME NEW a \in Accounts, Finish(a) PROVE FALSE
    <2>1. \/ UNCHANGED baseline
          \/ baseline' = [baseline EXCEPT ![a] =
                IF target[a].kind = "release" /\ ~outcome[a].failed THEN Unowned
                ELSE [baseline[a] EXCEPT !.managed = Overlay(@, Confirmed(target[a].want, outcome[a].after))]]
      BY <1>5, FinishFacts DEF Commit
    <2> QED
      BY <2>1 DEF Unowned, Baselines, IInv, TypeOK
  <1> QED
    BY <1>1, <1>2, <1>3, <1>4, <1>5, RecordingSteps

(* OwnWritesRecognised: while nothing has failed, no write of the console's own
   is taken for the change of a person, in this round or a later one. *)
THEOREM OwnWritesAreKnown == Spec => OwnWritesRecognised
  <1>1. IInv /\ [Next]_vars =>
          [\A a \in Accounts : baseline'[a].owner = "person" /\ incidents = 0 =>
              baseline[a].owner = "person" \/ a \in edited]_vars
    BY OwnerChanges
  <1> QED
    BY <1>1, AlwaysInv, PTL DEF Spec, OwnWritesRecognised

LEMMA HandsBack ==
  ASSUME IInv, [Next]_vars, NEW c \in Accounts, baseline[c].owner = "console",
         baseline'[c].owner = "none", incidents = 0, c \notin edited
  PROVE  remote[c] = baseline[c].before
  <1>1. Clean(c) /\ baseline[c] \in Baselines /\ baseline[c].before \in Settings
    BY DEF Clean, IInv, TypeOK
  <1>2. CASE Sync
    BY <1>2 DEF Sync
  <1>3. ASSUME NEW a \in Accounts, AbandonControl(a) PROVE FALSE
    <2>1. \/ UNCHANGED baseline
          \/ baseline' = [baseline EXCEPT ![a] = [baseline[a] EXCEPT !.owner = "person", !.managed = Nothing]]
      BY <1>3 DEF AbandonControl, durable, IInv, TypeOK
    <2>2. [baseline[a] EXCEPT !.owner = "person", !.managed = Nothing].owner = "person"
      BY DEF Baselines, IInv, TypeOK
    <2>3. baseline'[c].owner \in {baseline[c].owner, "person"}
      BY <2>1, <2>2 DEF IInv, TypeOK
    <2> QED
      BY <2>3
  <1>4. ASSUME NEW a \in Accounts, Matches(a) PROVE remote[c] = baseline[c].before
    <2>1. /\ a = c /\ target[c].kind = "release" /\ stage[c] = "read" /\ current[c] \in Settings
          /\ DesiredValues(c) = Nothing
      BY <1>4, MatchesFacts
    <2>2. current[c] = remote[c] /\ Kept(c, current[c])
      BY <1>1, <2>1 DEF IInv, AccountInv, RemoteInv, OwnInv, Clean, Quiet, InHand
    <2>3. With(current[c], Nothing) = baseline[c].before
      BY <1>1, <2>1, <2>2, RestorableRestores DEF DesiredValues
    <2> QED
      BY <2>1, <2>2, <2>3, WithParts, NothingIsFields
  <1>5. ASSUME NEW a \in Accounts, Enqueue(a) PROVE FALSE
    <2>1. baseline' = [baseline EXCEPT ![a] = Captured(a)] \/ UNCHANGED baseline
      BY <1>5 DEF Enqueue
    <2> QED
      BY <2>1 DEF Captured, IInv, TypeOK
  <1>6. ASSUME NEW a \in Accounts, Finish(a) PROVE remote[c] = baseline[c].before
    <2>1. /\ stage[a] = "wrote"
          /\ \/ UNCHANGED baseline
             \/ baseline' = [baseline EXCEPT ![a] =
                  IF target[a].kind = "release" /\ ~outcome[a].failed THEN Unowned
                  ELSE [baseline[a] EXCEPT !.managed = Overlay(@, Confirmed(target[a].want, outcome[a].after))]]
      BY <1>6, FinishFacts DEF Commit
    <2>2. a = c /\ target[c].kind = "release"
      BY <1>1, <2>1 DEF Baselines, IInv, TypeOK
    <2>3. /\ remote[c] = With(current[c], desired[c]) /\ Kept(c, current[c])
          /\ desired[c] = Restorable(c, current[c]) /\ current[c] \in Settings
      BY <1>1, <2>1, <2>2 DEF IInv, TypeOK, AccountInv, OwnInv, WantsInv, DesiredValues, InHand, Pending
    <2> QED
      BY <1>1, <2>3, RestorableRestores
  <1> QED
    BY <1>2, <1>3, <1>4, <1>5, <1>6, RecordingSteps

(* RestoresOriginal: an account that nobody else has changed is handed back as it
   was before the console took it, over any number of rounds. *)
THEOREM HandsBackOriginal == Spec => RestoresOriginal
  <1>1. IInv /\ [Next]_vars =>
          [\A a \in Accounts :
              baseline[a].owner = "console" /\ baseline'[a].owner = "none" /\ incidents = 0 /\ a \notin edited
                 => remote[a] = baseline[a].before]_vars
    BY HandsBack
  <1> QED
    BY <1>1, AlwaysInv, PTL DEF Spec, RestoresOriginal
-----------------------------------------------------------------------------
(* Sums over the accounts are folds: each takes the account its CHOOSE picks out
   of what is left.  Induction over sets of accounts is about the least of those
   that are not in T. *)
Picked(s) == CHOOSE x \in s : TRUE

LEMMA PickedFacts ==
  ASSUME NEW s \in SUBSET Accounts, s # {}
  PROVE  /\ Picked(s) \in s /\ Picked(s) \in Accounts /\ s \ {Picked(s)} \in SUBSET Accounts
         /\ IsFiniteSet(s) /\ Cardinality(s) \in Nat
         /\ Cardinality(s \ {Picked(s)}) = Cardinality(s) - 1 /\ Cardinality(s) - 1 \in Nat
  <1>1. Picked(s) \in s
    BY DEF Picked
  <1>2. IsFiniteSet(s) /\ Cardinality(s) \in Nat
    BY WriteAssumption, FS_Subset, FS_CardinalityType
  <1>3. Cardinality(s) # 0
    BY <1>2, FS_EmptySet
  <1>4. Cardinality(s \ {Picked(s)}) = Cardinality(s) - 1
    BY <1>1, <1>2, FS_RemoveElement
  <1> QED
    BY <1>1, <1>2, <1>3, <1>4

LEMMA AccountSets ==
  ASSUME NEW T, {} \in T, \A s \in SUBSET Accounts : s # {} /\ s \ {Picked(s)} \in T => s \in T
  PROVE  \A s \in SUBSET Accounts : s \in T
  <1> DEFINE sizes == {n \in Nat : \E s \in SUBSET Accounts : s \notin T /\ Cardinality(s) = n}
  <1>1. SUFFICES ASSUME NEW s \in SUBSET Accounts, s \notin T PROVE FALSE
    OBVIOUS
  <1>2. sizes # {}
    BY <1>1, PickedFacts
  <1>3. PICK n \in sizes : \A m \in sizes : ~(<<m, n>> \in OpToRel(<, Nat))
    <2>1. sizes \subseteq Nat
      OBVIOUS
    <2> HIDE DEF sizes
    <2> QED
      BY <1>2, <2>1, NatLessThanWellFounded, WFMin
  <1>4. PICK t \in SUBSET Accounts : t \notin T /\ Cardinality(t) = n
    BY <1>3
  <1>5. t # {} /\ t \ {Picked(t)} \notin T
    BY <1>4
  <1>6. n - 1 \in sizes
    BY <1>4, <1>5, PickedFacts
  <1>7. <<n - 1, n>> \in OpToRel(<, Nat)
    BY <1>6 DEF OpToRel
  <1> QED
    BY <1>3, <1>6, <1>7

(* Total is a sum that is added up account by account. *)
SumOf(sum, f) ==
    /\ sum \in [SUBSET Accounts -> Nat] /\ sum[{}] = 0
    /\ \A s \in SUBSET Accounts : s # {} => sum[s] = f[Picked(s)] + sum[s \ {Picked(s)}]

LEMMA TotalSums ==
  ASSUME NEW f \in [Accounts -> Nat]
  PROVE  \E sum : SumOf(sum, f) /\ Total(f) = sum[Accounts]
  <1> DEFINE Small(n) == {s \in SUBSET Accounts : Cardinality(s) <= n}
             Partial(g, n) == \A s \in Small(n) : g[s] = IF s = {} THEN 0 ELSE f[Picked(s)] + g[s \ {Picked(s)}]
             Rec(g) == [s \in SUBSET Accounts |-> IF s = {} THEN 0 ELSE f[Picked(s)] + g[s \ {Picked(s)}]]
             N == Cardinality(Accounts)
             reached == {n \in Nat : \E g \in [Small(n) -> Nat] : Partial(g, n)}
  <1>1. N \in Nat
    BY WriteAssumption, FS_CardinalityType
  <1>2. ASSUME NEW s \in SUBSET Accounts PROVE Cardinality(s) \in Nat /\ Cardinality(s) <= N
    BY WriteAssumption, FS_Subset, FS_CardinalityType
  <1>3. {} \in SUBSET Accounts /\ Cardinality({}) = 0
    BY FS_EmptySet
  <1>4. 0 \in reached
    <2>1. ASSUME NEW s \in Small(0) PROVE s = {}
      BY <1>2, FS_EmptySet, FS_Subset, WriteAssumption
    <2>2. Partial([s \in Small(0) |-> 0], 0) /\ [s \in Small(0) |-> 0] \in [Small(0) -> Nat]
      BY <2>1
    <2> QED
      BY <2>2
  <1>5. ASSUME NEW n \in Nat, n \in reached PROVE n + 1 \in reached
    <2>1. PICK g \in [Small(n) -> Nat] : Partial(g, n)
      BY <1>5
    <2> DEFINE h == [s \in Small(n + 1) |-> IF s = {} THEN 0 ELSE f[Picked(s)] + g[s \ {Picked(s)}]]
    <2>2. ASSUME NEW s \in Small(n + 1), s # {}
          PROVE  s \ {Picked(s)} \in Small(n) /\ s \ {Picked(s)} \in Small(n + 1) /\ f[Picked(s)] \in Nat
                 /\ s \in SUBSET Accounts
      BY <2>2, PickedFacts
    <2>3. ASSUME NEW s \in Small(n + 1), s # {} PROVE h[s] = f[Picked(s)] + g[s \ {Picked(s)}]
      BY <2>3
    <2>4. ASSUME NEW s \in Small(n + 1) PROVE h[s] \in Nat
      <3>1. CASE s = {}
        BY <3>1
      <3>2. CASE s # {}
        <4>1. g[s \ {Picked(s)}] \in Nat
          BY <2>2, <3>2
        <4> HIDE DEF h
        <4> QED
          BY <2>2, <2>3, <3>2, <4>1
      <3> QED
        BY <3>1, <3>2
    <2>5. h \in [Small(n + 1) -> Nat]
      <3>1. h = [s \in Small(n + 1) |-> h[s]]
        OBVIOUS
      <3> HIDE DEF h
      <3> QED
        BY <2>4, <3>1
    <2>6. ASSUME NEW s \in Small(n) PROVE h[s] = g[s]
      <3>1. s \in Small(n + 1)
        BY <1>2
      <3>2. g[s] = IF s = {} THEN 0 ELSE f[Picked(s)] + g[s \ {Picked(s)}]
        BY <2>1
      <3> HIDE DEF Small
      <3> QED
        BY <3>1, <3>2
    <2>7. Partial(h, n + 1)
      <3>1. ASSUME NEW s \in Small(n + 1)
            PROVE  h[s] = IF s = {} THEN 0 ELSE f[Picked(s)] + h[s \ {Picked(s)}]
        <4>1. CASE s = {}
          BY <3>1, <4>1
        <4>2. CASE s # {}
          <5> HIDE DEF h, Small
          <5> QED
            BY <2>2, <2>3, <2>6, <4>2
        <4> QED
          BY <4>1, <4>2
      <3> HIDE DEF h
      <3> QED
        BY <3>1
    <2> HIDE DEF h, Small, Partial
    <2> QED
      BY <2>5, <2>7
  <1>6. N \in reached
    <2>1. ASSUME N \notin reached PROVE FALSE
      <3> HIDE DEF reached, N
      <3>1. PICK n \in Nat \ reached : \A m \in Nat \ reached : ~(<<m, n>> \in OpToRel(<, Nat))
        BY <1>1, <2>1, NatLessThanWellFounded, WFMin
      <3>2. n # 0 /\ n - 1 \in Nat
        BY <1>4
      <3>3. <<n - 1, n>> \in OpToRel(<, Nat)
        BY <3>2 DEF OpToRel
      <3>4. n - 1 \in reached
        BY <3>1, <3>2, <3>3
      <3>5. (n - 1) + 1 \in reached
        BY <1>5, <3>2, <3>4
      <3>6. (n - 1) + 1 = n
        BY <3>2
      <3> QED
        BY <3>1, <3>5, <3>6
    <2> QED
      BY <2>1
  <1>7. PICK g \in [Small(N) -> Nat] : Partial(g, N)
    BY <1>6
  <1>8. Small(N) = SUBSET Accounts
    BY <1>2
  <1>9. g = Rec(g)
    <2>1. ASSUME NEW s \in SUBSET Accounts PROVE g[s] = IF s = {} THEN 0 ELSE f[Picked(s)] + g[s \ {Picked(s)}]
      <3> HIDE DEF N
      <3> QED
        BY <1>7, <1>8
    <2>2. g = [s \in SUBSET Accounts |-> g[s]]
      BY <1>7, <1>8
    <2> QED
      BY <2>1, <2>2
  <1> DEFINE F == CHOOSE h : h = Rec(h)
  <1>10. F = Rec(F)
    <2> HIDE DEF Rec
    <2> QED
      BY <1>9
  <1>11. Total(f) = F[Accounts]
    BY DEF Total, MapThenSumSet, MapThenFoldSet, Picked
  <1> HIDE DEF F
  <1>12. /\ DOMAIN F = SUBSET Accounts /\ F[{}] = 0
         /\ \A s \in SUBSET Accounts : s # {} => F[s] = f[Picked(s)] + F[s \ {Picked(s)}]
         /\ F = [s \in SUBSET Accounts |-> F[s]]
    <2>1. ASSUME NEW G, G = Rec(G)
          PROVE  /\ DOMAIN G = SUBSET Accounts /\ G[{}] = 0
                 /\ \A s \in SUBSET Accounts : s # {} => G[s] = f[Picked(s)] + G[s \ {Picked(s)}]
                 /\ G = [s \in SUBSET Accounts |-> G[s]]
      <3>1. DOMAIN G = SUBSET Accounts
        BY <2>1
      <3>2. \A s \in SUBSET Accounts : G[s] = IF s = {} THEN 0 ELSE f[Picked(s)] + G[s \ {Picked(s)}]
        BY <2>1
      <3>3. G = [s \in SUBSET Accounts |-> G[s]]
        BY <2>1
      <3> HIDE DEF Rec
      <3> QED
        BY <1>3, <3>1, <3>2, <3>3
    <2> HIDE DEF Rec
    <2> QED
      BY <1>10, <2>1
  <1>13. \A s \in SUBSET Accounts : F[s] \in Nat
    <2> DEFINE T == {s \in SUBSET Accounts : F[s] \in Nat}
    <2>1. {} \in T
      BY <1>3, <1>12
    <2>2. ASSUME NEW s \in SUBSET Accounts, s # {}, s \ {Picked(s)} \in T PROVE s \in T
      <3>1. f[Picked(s)] \in Nat
        BY <2>2, PickedFacts
      <3>2. F[s] = f[Picked(s)] + F[s \ {Picked(s)}]
        BY <1>12, <2>2
      <3> QED
        BY <2>2, <3>1, <3>2
    <2> HIDE DEF T
    <2>3. \A s \in SUBSET Accounts : s \in T
      BY <2>1, <2>2, AccountSets
    <2> QED
      BY <2>3 DEF T
  <1>14. SumOf(F, f)
    BY <1>12, <1>13 DEF SumOf
  <1> QED
    BY <1>11, <1>14

LEMMA TotalType == ASSUME NEW f \in [Accounts -> Nat] PROVE Total(f) \in Nat
  BY TotalSums DEF SumOf

LEMMA TotalMonotone ==
  ASSUME NEW f \in [Accounts -> Nat], NEW g \in [Accounts -> Nat], \A a \in Accounts : f[a] <= g[a]
  PROVE  Total(f) <= Total(g)
  <1>1. PICK F : SumOf(F, f) /\ Total(f) = F[Accounts]
    BY TotalSums
  <1>2. PICK G : SumOf(G, g) /\ Total(g) = G[Accounts]
    BY TotalSums
  <1> DEFINE T == {s \in SUBSET Accounts : F[s] <= G[s]}
  <1>3. {} \in T
    BY <1>1, <1>2 DEF SumOf
  <1>4. ASSUME NEW s \in SUBSET Accounts, s # {}, s \ {Picked(s)} \in T PROVE s \in T
    <2> DEFINE x == Picked(s)
               r == s \ {x}
    <2>1. x \in Accounts /\ r \in SUBSET Accounts
      BY <1>4, PickedFacts
    <2>2. f[x] \in Nat /\ g[x] \in Nat /\ f[x] <= g[x]
      BY <2>1
    <2>3. F[r] \in Nat /\ G[r] \in Nat /\ F[r] <= G[r]
      BY <1>1, <1>2, <1>4, <2>1 DEF SumOf
    <2>4. F[s] = f[x] + F[r] /\ G[s] = g[x] + G[r]
      BY <1>1, <1>2, <1>4 DEF SumOf
    <2> HIDE DEF x, r
    <2>5. F[s] <= G[s]
      BY <2>2, <2>3, <2>4
    <2> QED
      BY <2>5
  <1> HIDE DEF T
  <1>5. Accounts \in T
    BY <1>3, <1>4, AccountSets
  <1> QED
    BY <1>1, <1>2, <1>5 DEF T

LEMMA TotalExcept ==
  ASSUME NEW f \in [Accounts -> Nat], NEW a \in Accounts, NEW n \in Nat
  PROVE  Total([f EXCEPT ![a] = n]) = (Total(f) - f[a]) + n
  <1> DEFINE g == [f EXCEPT ![a] = n]
  <1>1. /\ g \in [Accounts -> Nat] /\ g[a] = n /\ f[a] \in Nat
        /\ \A b \in Accounts : b # a => g[b] = f[b]
    OBVIOUS
  <1> HIDE DEF g
  <1>2. PICK F : SumOf(F, f) /\ Total(f) = F[Accounts]
    BY TotalSums
  <1>3. PICK G : SumOf(G, g) /\ Total(g) = G[Accounts]
    BY <1>1, TotalSums
  <1> DEFINE T == {s \in SUBSET Accounts : G[s] = IF a \in s THEN (F[s] - f[a]) + n ELSE F[s]}
  <1>4. {} \in T
    BY <1>2, <1>3 DEF SumOf
  <1>5. ASSUME NEW s \in SUBSET Accounts, s # {}, s \ {Picked(s)} \in T PROVE s \in T
    <2> DEFINE x == Picked(s)
               r == s \ {x}
    <2>1. x \in s /\ x \in Accounts /\ r \in SUBSET Accounts
      BY <1>5, PickedFacts
    <2>2. f[x] \in Nat /\ g[x] \in Nat
      BY <1>1, <2>1
    <2>3. F[r] \in Nat /\ G[r] \in Nat /\ G[r] = IF a \in r THEN (F[r] - f[a]) + n ELSE F[r]
      BY <1>2, <1>3, <1>5, <2>1 DEF SumOf
    <2>4. F[s] = f[x] + F[r] /\ G[s] = g[x] + G[r]
      BY <1>2, <1>3, <1>5 DEF SumOf
    <2>5. a \in r <=> a \in s /\ a # x
      OBVIOUS
    <2> HIDE DEF x, r
    <2>6. G[s] = IF a \in s THEN (F[s] - f[a]) + n ELSE F[s]
      <3>1. CASE a = x
        BY <1>1, <2>1, <2>2, <2>3, <2>4, <2>5, <3>1
      <3>2. CASE a # x
        <4>1. g[x] = f[x]
          BY <1>1, <2>1, <3>2
        <4> QED
          BY <1>1, <2>2, <2>3, <2>4, <2>5, <3>2, <4>1
      <3> QED
        BY <3>1, <3>2
    <2> QED
      BY <2>6
  <1> HIDE DEF T
  <1>6. Accounts \in T
    BY <1>4, <1>5, AccountSets
  <1> QED
    BY <1>2, <1>3, <1>6 DEF T, g
-----------------------------------------------------------------------------
(* The batch writes only when every account has arrived, and finishes only when
   every request has been dealt with. *)
Coming == {a \in Accounts : stage[a] \in {"todo", "read"}}
ArrivalInv ==
    /\ phase = "preparing" => remaining = Cardinality(Coming)
    /\ phase = "writing" => \A a \in Accounts : stage[a] \notin {"todo", "read", "queued"}
    /\ phase = "finishing" => \A a \in Accounts : stage[a] \in {"out", "done", "wrote"}

(* While nobody interferes, the list is what every account was read to be and,
   until it is written, what it is; each has reserved what it may use. *)
Batch  == phase \in {"preparing", "writing"} /\ ~disturbed
Listed == budget.read /\ ~budget.failed
SnapshotInv(a) ==
    Batch /\ Listed =>
      /\ stage[a] \in {"out", "todo", "read", "queued", "done"} => remote[a] = budget.snapshot[a]
      /\ stage[a] \in InHand => current[a] = budget.snapshot[a]
      /\ Reservation(a, budget.snapshot[a]) <= budget.reserved[a]

(* A request has no effect, all of it, or that of its first call alone; that of
   its second alone only where it does not resume the account. *)
Traffic(d)     == [d EXCEPT !.conc = Null]
Concurrency(d) == [d EXCEPT !.on = Null]
Between(a) ==
    LET s == current[a]
        d == desired[a]
    IN  {s, With(s, d), With(s, Concurrency(d))} \cup (IF Resumes(d) THEN {} ELSE {With(s, Traffic(d))})
FlightInv(a) ==
    ~disturbed /\ stage[a] \in Pending =>
      /\ remote[a] \in Between(a)
      /\ stage[a] = "switch" => remote[a] \in {current[a], With(current[a], Concurrency(desired[a]))}
      /\ stage[a] = "switch" /\ outcome[a].failed => ~Resumes(desired[a])

(* What a request will use has been reserved, and the limit has room for it
   beside all that the others have reserved. *)
BudgetInv(a) ==
    Batch /\ stage[a] \in Pending /\ ~NoGrowth(a) =>
      /\ Listed /\ \A b \in Accounts : ReservationKnown(b, budget.snapshot[b])
      /\ Known(After(a)) /\ Active(After(a)) <= budget.reserved[a]
      /\ (Total(budget.reserved) - budget.reserved[a]) + Active(After(a)) <= Limit

CapacityInv(a) == SnapshotInv(a) /\ FlightInv(a) /\ BudgetInv(a)
-----------------------------------------------------------------------------
(* Arrival *)

LEMMA ComingFinite == IsFiniteSet(Coming) /\ (Cardinality(Coming) = 0 <=> Coming = {})
  BY WriteAssumption, FS_Subset, FS_EmptySet DEF Coming

LEMMA ArrivalOne ==
  ASSUME TypeOK, ArrivalInv, NEW a \in Accounts, NEW x, stage[a] \in {"todo", "read"},
         phase' = phase, stage' = [stage EXCEPT ![a] = x],
         \/ x = "read" /\ stage[a] = "todo" /\ remaining' = remaining
         \/ x \in {"queued", "done"} /\ remaining' = remaining - 1
  PROVE  phase = "preparing" /\ ArrivalInv'
  <1>1. phase = "preparing"
    BY DEF TypeOK, ArrivalInv
  <1>2. stage'[a] = x /\ \A b \in Accounts : b # a => stage'[b] = stage[b]
    BY DEF TypeOK
  <1>3. CASE x = "read" /\ remaining' = remaining
    <2>1. Coming' = Coming
      BY <1>2, <1>3 DEF Coming
    <2> QED
      BY <1>1, <1>3, <2>1 DEF ArrivalInv
  <1>4. CASE x \in {"queued", "done"} /\ remaining' = remaining - 1
    <2>1. Coming' = Coming \ {a} /\ a \in Coming
      BY <1>2, <1>4 DEF Coming
    <2>2. Cardinality(Coming \ {a}) = Cardinality(Coming) - 1
      BY <2>1, ComingFinite, FS_RemoveElement
    <2> QED
      BY <1>1, <1>4, <2>1, <2>2 DEF ArrivalInv
  <1> QED
    BY <1>1, <1>3, <1>4

(* A request is in flight only while the batch writes. *)
LEMMA FlightPhase ==
  ASSUME IInv, ArrivalInv, NEW a \in Accounts, stage[a] \in InFlight
  PROVE  phase = "writing"
  <1>1. /\ phase \in {"idle", "calculated", "preparing", "writing", "finishing"}
        /\ phase \in {"idle", "calculated"} => stage[a] = "out"
    BY DEF IInv, TypeOK
  <1>2. phase = "preparing" => stage[a] \in {"out", "todo", "read", "queued", "done"}
    BY DEF IInv, PhaseInv
  <1>3. phase = "finishing" => stage[a] \in {"out", "done", "wrote"}
    BY DEF ArrivalInv
  <1> QED
    BY <1>1, <1>2, <1>3 DEF InFlight

LEMMA ArrivalStep == ASSUME IInv, ArrivalInv, [Next]_vars PROVE ArrivalInv'
  <1> USE DEF plan, prepare
  <1>1. ASSUME UNCHANGED <<stage, phase, remaining>> PROVE ArrivalInv'
    BY <1>1 DEF ArrivalInv, Coming
  <1>2. CASE Sync \/ LoadRemoteCapacity \/ EndContext \/ Withdraw \/ \E a \in Accounts : HumanEdit(a)
    BY <1>1, <1>2 DEF Sync, LoadRemoteCapacity, EndContext, Withdraw, HumanEdit
  <1>3. CASE UNCHANGED vars
    BY <1>1, <1>3 DEF vars
  <1>4. CASE Calculate \/ ApplyRefused \/ EndRound \/ Crash
    BY <1>4 DEF Calculate, ApplyRefused, EndRound, Crash, Idle, ArrivalInv
  <1>5. CASE Apply
    <2>1. Coming' = Targeted
      BY <1>5 DEF Apply, Coming, Targeted
    <2> QED
      BY <1>5, <2>1 DEF Apply, ArrivalInv
  <1>6. ASSUME NEW a \in Accounts, Prepare(a) PROVE ArrivalInv'
    <2>1. CASE ReadAccount(a)
      BY <2>1, ArrivalOne DEF IInv, ReadAccount, Goes, Skip, Arrives
    <2>2. ASSUME stage[a] = "read", phase' = phase,
                 Skip(a) \/ (Goes(a, "queued") /\ Arrives)
          PROVE  ArrivalInv'
      BY <2>2, ArrivalOne DEF IInv, Skip, Goes, Arrives
    <2>3. CASE AbandonControl(a)
      BY <2>2, <2>3 DEF AbandonControl
    <2>4. CASE Wait(a)
      BY <2>2, <2>4 DEF Wait, Ready, Decides
    <2>5. CASE Refuse(a)
      BY <2>2, <2>5 DEF Refuse, Ready, Decides
    <2>6. CASE Matches(a)
      BY <2>2, <2>6 DEF Matches, Ready, Decides
    <2>7. CASE Enqueue(a)
      BY <2>2, <2>7 DEF Enqueue, Ready, Decides
    <2> QED
      BY <1>6, <2>1, <2>3, <2>4, <2>5, <2>6, <2>7 DEF Prepare
  <1>7. CASE Execute
    <2>1. Coming = {} /\ \A b \in Accounts : stage[b] \in {"out", "queued", "done"}
      BY <1>7, ComingFinite DEF Execute, IInv, PhaseInv, ArrivalInv, Coming
    <2>2. CASE phase' = "writing"
      BY <1>7, <2>1, <2>2 DEF Execute, ArrivalInv, Queued, Alone
    <2>3. CASE phase' = "finishing"
      BY <1>7, <2>1, <2>3 DEF Execute, ArrivalInv, Queued
    <2> QED
      BY <1>7, <2>2, <2>3 DEF Execute
  <1>8. ASSUME NEW d \in Fields, BulkWrite(d) PROVE ArrivalInv'
    <2>1. phase = "writing" /\ phase' = phase
      BY <1>8 DEF BulkWrite
    <2>2. \A b \in Accounts : stage'[b] \in {stage[b], "unclear", "wrote", "fields", "switch"}
      BY <1>8 DEF BulkWrite, Alone
    <2> QED
      BY <2>1, <2>2 DEF ArrivalInv
  <1>9. ASSUME NEW a \in Accounts, Write(a) PROVE ArrivalInv'
    <2>1. stage[a] \in {"fields", "confirm", "switch", "unclear", "partial"} /\ phase' = phase
      BY <1>9 DEF Write, PutFields, ConfirmConcurrency, SwitchTraffic, ReadUnclear, ReadPartial
    <2>2. phase = "writing"
      BY <2>1, FlightPhase DEF InFlight
    <2>3. \A b \in Accounts : stage'[b] \in {stage[b], "wrote", "confirm", "switch", "partial"}
      BY <1>9 DEF Write, PutFields, ConfirmConcurrency, SwitchTraffic, ReadUnclear, ReadPartial, Goes, IInv,
            TypeOK
    <2> QED
      BY <2>1, <2>2, <2>3 DEF ArrivalInv
  <1>10. CASE VerifyWrites
    BY <1>10 DEF VerifyWrites, ArrivalInv
  <1>11. ASSUME NEW a \in Accounts, Finish(a) PROVE ArrivalInv'
    BY <1>11 DEF Finish, Goes, ArrivalInv, IInv, TypeOK
  <1> QED
    BY <1>2, <1>3, <1>4, <1>5, <1>6, <1>7, <1>8, <1>9, <1>10, <1>11
       DEF Next, Console, Round, Disturbance
-----------------------------------------------------------------------------
(* Accounts a step is not about, and accounts it takes on *)

Still(a) ==
    /\ remote'[a] = remote[a] /\ baseline'[a] = baseline[a] /\ target'[a] = target[a]
    /\ stage'[a] = stage[a] /\ current'[a] = current[a] /\ desired'[a] = desired[a]
    /\ outcome'[a] = outcome[a]

(* A step during a round that reads, reserves and releases nothing. *)
SameBatch == (Batch' => Batch) /\ (disturbed => disturbed') /\ UNCHANGED <<budget, released>>

LEMMA StillCapacity ==
  ASSUME NEW a \in Accounts, CapacityInv(a), Still(a), SameBatch
  PROVE  CapacityInv(a)'
  <1>1. After(a)' = After(a)
    BY DEF Still, After, DesiredValues, Restorable
  <1>2. NoGrowth(a)' <=> NoGrowth(a)
    BY <1>1 DEF Still, NoGrowth
  <1>3. Listed' <=> Listed
    BY DEF SameBatch, Listed
  <1>4. SnapshotInv(a)'
    BY <1>3 DEF CapacityInv, SnapshotInv, SameBatch, Still, Reservation, Keeps
  <1>5. Between(a)' = Between(a)
    BY DEF Still, Between
  <1>6. FlightInv(a)'
    BY <1>5 DEF CapacityInv, FlightInv, SameBatch, Still
  <1>7. \A b \in Accounts : ReservationKnown(b, budget.snapshot[b])' <=> ReservationKnown(b, budget.snapshot[b])
    BY DEF SameBatch, ReservationKnown, Keeps
  <1>8. Known(After(a))' <=> Known(After(a))
    BY <1>1 DEF Known
  <1>9. /\ Active(After(a))' = Active(After(a))
        /\ Total(budget.reserved)' = Total(budget.reserved)
    BY <1>1 DEF SameBatch, Active
  <1>10. BudgetInv(a)'
    BY <1>2, <1>3, <1>7, <1>8, <1>9 DEF CapacityInv, BudgetInv, SameBatch, Still
  <1> QED
    BY <1>4, <1>6, <1>10 DEF CapacityInv

(* A request on its way keeps what it has reserved. *)
LEMMA PendingCapacity ==
  ASSUME NEW a \in Accounts, CapacityInv(a), SameBatch, stage[a] \in Pending,
         stage'[a] \in Pending \ {"queued"},
         baseline'[a] = baseline[a], target'[a] = target[a], current'[a] = current[a],
         FlightInv(a)'
  PROVE  CapacityInv(a)'
  <1>1. After(a)' = After(a)
    BY DEF After, DesiredValues, Restorable
  <1>2. NoGrowth(a)' <=> NoGrowth(a)
    BY <1>1 DEF NoGrowth
  <1>3. Listed' <=> Listed
    BY DEF SameBatch, Listed
  <1>4. SnapshotInv(a)'
    BY <1>3 DEF CapacityInv, SnapshotInv, SameBatch, Reservation, Keeps, Pending, InHand
  <1>5. \A b \in Accounts : ReservationKnown(b, budget.snapshot[b])' <=> ReservationKnown(b, budget.snapshot[b])
    BY DEF SameBatch, ReservationKnown, Keeps
  <1>6. Known(After(a))' <=> Known(After(a))
    BY <1>1 DEF Known
  <1>7. /\ Active(After(a))' = Active(After(a))
        /\ Total(budget.reserved)' = Total(budget.reserved)
    BY <1>1 DEF SameBatch, Active
  <1>8. BudgetInv(a)'
    BY <1>2, <1>3, <1>5, <1>6, <1>7 DEF CapacityInv, BudgetInv, SameBatch
  <1> QED
    BY <1>4, <1>8 DEF CapacityInv

(* An account without a request. *)
LEMMA IdleCapacity ==
  ASSUME NEW a \in Accounts, CapacityInv(a), SameBatch, stage[a] \in {"out", "todo", "read", "done"} \/ ~Batch',
         stage'[a] \in {"read", "done"}, remote'[a] = remote[a],
         stage'[a] = "read" => current'[a] = remote[a]
  PROVE  CapacityInv(a)'
  <1>1. stage'[a] \notin Pending
    BY DEF Pending
  <1>2. SnapshotInv(a)'
    BY DEF CapacityInv, SnapshotInv, SameBatch, Listed, Reservation, Keeps, InHand, Pending
  <1> QED
    BY <1>1, <1>2 DEF CapacityInv, FlightInv, BudgetInv

(* Between rounds, before the list is read, and once a person has interfered. *)
LEMMA NoCapacity ==
  ASSUME NEW a \in Accounts, ~(Batch' /\ Listed'), disturbed' \/ stage'[a] \notin Pending
  PROVE  CapacityInv(a)'
  BY DEF CapacityInv, SnapshotInv, FlightInv, BudgetInv, Batch

LEMMA ReadCapacity ==
  ASSUME IInv, \A b \in Accounts : CapacityInv(b), NEW a \in Accounts, ReadAccount(a)
  PROVE  \A b \in Accounts : CapacityInv(b)'
  <1>1. /\ stage[a] = "todo" /\ SameBatch
        /\ UNCHANGED <<remote, baseline, target, desired, outcome>>
    BY DEF ReadAccount, SameBatch, Batch, durable, plan, history
  <1>2. /\ \A b \in Accounts \ {a} : stage'[b] = stage[b] /\ current'[b] = current[b]
        /\ stage'[a] \in {"read", "done"} /\ (stage'[a] = "read" => current'[a] = remote[a])
    BY DEF ReadAccount, Goes, Skip, IInv, TypeOK
  <1>3. \A b \in Accounts \ {a} : CapacityInv(b)'
    BY <1>1, <1>2, StillCapacity DEF Still
  <1>4. CapacityInv(a)'
    BY <1>1, <1>2, IdleCapacity
  <1> QED
    BY <1>3, <1>4

LEMMA SkipCapacity ==
  ASSUME IInv, \A b \in Accounts : CapacityInv(b), NEW a \in Accounts, stage[a] = "read", Goes(a, "done"),
         UNCHANGED <<remote, target, released, current, desired, budget, phase, outcome, disturbed>>,
         \A b \in Accounts \ {a} : baseline'[b] = baseline[b]
  PROVE  \A b \in Accounts : CapacityInv(b)'
  <1>1. SameBatch
    BY DEF SameBatch, Batch
  <1>2. /\ \A b \in Accounts \ {a} : stage'[b] = stage[b]
        /\ stage'[a] = "done"
    BY DEF Goes, IInv, TypeOK
  <1>3. \A b \in Accounts \ {a} : CapacityInv(b)'
    BY <1>1, <1>2, StillCapacity DEF Still
  <1>4. CapacityInv(a)'
    BY <1>1, <1>2, IdleCapacity
  <1> QED
    BY <1>3, <1>4

LEMMA AbandonCapacity ==
  ASSUME IInv, \A b \in Accounts : CapacityInv(b), NEW a \in Accounts, AbandonControl(a)
  PROVE  \A b \in Accounts : CapacityInv(b)'
  <1>1. \A b \in Accounts \ {a} : baseline'[b] = baseline[b]
    BY DEF AbandonControl, durable, IInv, TypeOK
  <1> QED
    BY <1>1, SkipCapacity DEF AbandonControl, Skip, plan, history

LEMMA RefuseCapacity ==
  ASSUME IInv, \A b \in Accounts : CapacityInv(b), NEW a \in Accounts, Refuse(a)
  PROVE  \A b \in Accounts : CapacityInv(b)'
  BY SkipCapacity DEF Refuse, Ready, Decides, Skip, durable, plan, history

LEMMA MatchesCapacity ==
  ASSUME IInv, \A b \in Accounts : CapacityInv(b), NEW a \in Accounts, Matches(a)
  PROVE  \A b \in Accounts : CapacityInv(b)'
  <1>1. \A b \in Accounts \ {a} : baseline'[b] = baseline[b]
    BY DEF Matches, Commit, IInv, TypeOK
  <1> QED
    BY <1>1, SkipCapacity DEF Matches, Ready, Decides, Skip, plan, history
-----------------------------------------------------------------------------
(* The reservations *)

LEMMA ConcurrencyType == ASSUME NEW s \in Settings PROVE s.conc \in Nat
  <1>1. s.conc \in Concurrencies \cup {0}
    BY DEF Settings
  <1>2. \A c \in Concurrencies : c \in Nat
    BY WriteAssumption
  <1> QED
    BY <1>1, <1>2

LEMMA ReservationType ==
  ASSUME NEW s \in Settings, NEW a \in Accounts
  PROVE  Reservation(a, s) \in Nat /\ Active(s) <= Reservation(a, s)
  BY ConcurrencyType DEF Reservation, Active, Keeps

LEMMA LoadCapacity ==
  ASSUME IInv, ArrivalInv, \A b \in Accounts : CapacityInv(b), LoadRemoteCapacity
  PROVE  \A b \in Accounts : CapacityInv(b)'
  <1>1. /\ UNCHANGED <<remote, baseline, target, released, current, desired, stage, phase, outcome, disturbed>>
        /\ ~budget.read
    BY DEF LoadRemoteCapacity, durable, plan, history
  <1>2. ASSUME NEW b \in Accounts PROVE CapacityInv(b)'
    <2>1. FlightInv(b)'
      <3>1. Between(b)' = Between(b)
        BY <1>1 DEF Between
      <3> QED
        BY <1>1, <3>1 DEF CapacityInv, FlightInv
    <2>2. ~(Batch /\ stage[b] \in Pending /\ ~NoGrowth(b))
      BY <1>1 DEF CapacityInv, BudgetInv, Listed
    <2>3. NoGrowth(b)' <=> NoGrowth(b)
      <3>1. After(b)' = After(b)
        BY <1>1 DEF After, DesiredValues, Restorable
      <3> QED
        BY <1>1, <3>1 DEF NoGrowth
    <2>4. BudgetInv(b)'
      BY <1>1, <2>2, <2>3 DEF BudgetInv, Batch
    <2>5. CASE Listed' /\ Batch'
      <3>1. phase = "preparing"
        <4>1. PICK a \in Accounts : stage[a] = "read"
          BY DEF LoadRemoteCapacity, Decides
        <4> QED
          BY <1>1, <2>5, <4>1 DEF Batch, ArrivalInv
      <3>2. stage[b] \in {"out", "todo", "read", "queued", "done"}
        BY <3>1 DEF IInv, PhaseInv
      <3>3. stage[b] \in InHand => current[b] = remote[b]
        BY <1>1, <2>5, <3>2 DEF IInv, AccountInv, RemoteInv, Quiet, InHand, Pending, Batch
      <3>4. budget' = [budget EXCEPT !.read = TRUE, !.snapshot = remote,
                            !.reserved = [a \in Accounts |-> Reservation(a, remote[a])]]
        <4>1. budget \in Budgets
          BY DEF IInv, TypeOK
        <4>2. ASSUME budget' = [budget EXCEPT !.read = TRUE, !.failed = TRUE] PROVE FALSE
          BY <2>5, <4>1, <4>2 DEF Listed, Budgets
        <4> QED
          BY <4>2 DEF LoadRemoteCapacity
      <3>5. budget'.snapshot = remote /\ budget'.reserved[b] = Reservation(b, remote[b])
        <4>1. budget \in Budgets
          BY DEF IInv, TypeOK
        <4> QED
          BY <3>4, <4>1 DEF Budgets
      <3>6. Reservation(b, budget'.snapshot[b]) <= budget'.reserved[b]
        <4>1. Reservation(b, remote[b]) \in Nat
          BY ReservationType DEF IInv, TypeOK
        <4> QED
          BY <3>5, <4>1
      <3>7. SnapshotInv(b)'
        BY <1>1, <3>3, <3>5, <3>6 DEF SnapshotInv, Reservation, Keeps
      <3> QED
        BY <2>1, <2>4, <3>7 DEF CapacityInv
    <2>6. CASE ~(Listed' /\ Batch')
      <3>1. SnapshotInv(b)'
        BY <2>6 DEF SnapshotInv
      <3> QED
        BY <2>1, <2>4, <3>1 DEF CapacityInv
    <2> QED
      BY <2>5, <2>6
  <1> QED
    BY <1>2

(* reserve, when nobody has interfered: what has been reserved for the account
   is at least what it uses, and its request needs some of the limit. *)
LEMMA Reserves ==
  ASSUME IInv, ArrivalInv, NEW a \in Accounts, CapacityInv(a), ~disturbed,
         Ready(a), ~Refused(a), Grows(a), ~Uncertain(a), ~BudgetFails(a)
  PROVE  /\ phase = "preparing" /\ Batch /\ Listed
         /\ \A b \in Accounts : ReservationKnown(b, budget.snapshot[b])
         /\ Known(After(a)) /\ Active(After(a)) \in Nat /\ Active(After(a)) # 0
         /\ Use(a) \in Nat /\ Active(After(a)) <= Use(a)
         /\ budget.reserved \in [Accounts -> Nat] /\ Reserved(a) = budget.reserved
  <1>1. stage[a] = "read" /\ current[a] \in Settings
    BY DEF Ready, Decides, IInv, TypeOK
  <1>2. phase = "preparing" /\ Batch
    <2>1. /\ phase \in {"idle", "calculated", "preparing", "writing", "finishing"}
          /\ phase \in {"idle", "calculated"} => stage[a] = "out"
      BY DEF IInv, TypeOK
    <2> QED
      BY <1>1, <2>1 DEF ArrivalInv, Batch
  <1>3. NeedsBudget(a)
    BY DEF Refused, NeedsBudget
  <1>4. budget.read
    BY <1>3 DEF Ready
  <1>5. ~budget.failed /\ \A b \in Accounts : ReservationKnown(b, budget.snapshot[b])
    BY <1>4 DEF BudgetFails
  <1>6. Listed
    BY <1>4, <1>5 DEF Listed
  <1>7. DesiredValues(a) \in Fields
    BY <1>1, DesiredType DEF IInv
  <1>8. After(a) \in Settings
    BY <1>1, <1>7, WithType DEF After
  <1>9. Known(After(a)) /\ Active(After(a)) \in Nat
    BY <1>8, ActiveType DEF Uncertain
  <1>10. Active(After(a)) # 0
    BY <1>9 DEF Grows, NoGrowth
  <1>11. budget.snapshot[a] \in Settings
    BY <1>4, <1>5 DEF IInv, TypeOK
  <1>12. Use(a) \in Nat /\ Active(After(a)) <= Use(a)
    <2>1. budget.snapshot[a].conc \in Nat
      BY <1>11, ConcurrencyType
    <2> QED
      BY <1>9, <2>1 DEF Use, Larger
  <1>13. budget.reserved \in [Accounts -> Nat]
    BY DEF IInv, TypeOK, Budgets
  <1>14. Active(current[a]) \in Nat /\ Active(current[a]) <= budget.reserved[a] /\ budget.reserved[a] \in Nat
    <2>1. current[a] = budget.snapshot[a] /\ Reservation(a, budget.snapshot[a]) <= budget.reserved[a]
      BY <1>1, <1>2, <1>6 DEF CapacityInv, SnapshotInv, InHand
    <2>2. budget.reserved[a] \in Nat /\ Reservation(a, current[a]) \in Nat /\ Active(current[a]) \in Nat
          /\ Active(current[a]) <= Reservation(a, current[a])
      BY <1>1, <1>13, ReservationType, ActiveType
    <2> QED
      BY <2>1, <2>2
  <1>15. Reserved(a) = budget.reserved
    <2>1. Larger(budget.reserved[a], Active(current[a])) = budget.reserved[a]
      BY <1>14 DEF Larger
    <2> QED
      BY <1>13, <2>1 DEF Reserved
  <1> QED
    BY <1>2, <1>5, <1>6, <1>9, <1>10, <1>12, <1>13, <1>15

LEMMA WaitCapacity ==
  ASSUME IInv, ArrivalInv, \A b \in Accounts : CapacityInv(b), NEW a \in Accounts, Wait(a)
  PROVE  \A b \in Accounts : CapacityInv(b)'
  <1>1. /\ stage[a] = "read" /\ Goes(a, "done") /\ budget' = [budget EXCEPT !.reserved = Reserved(a)]
        /\ UNCHANGED <<remote, baseline, target, released, current, desired, phase, outcome, disturbed>>
    BY DEF Wait, Ready, Decides, Skip, durable, plan, history
  <1>2. CASE disturbed
    <2>1. disturbed' /\ ~Batch'
      BY <1>1, <1>2 DEF Batch
    <2> QED
      BY <2>1, NoCapacity
  <1>3. CASE ~disturbed
    <2>1. Reserved(a) = budget.reserved
      BY <1>3, Reserves DEF Wait
    <2>2. budget' = budget
      <3>1. budget \in Budgets
        BY DEF IInv, TypeOK
      <3> QED
        BY <1>1, <2>1, <3>1 DEF Budgets
    <2> QED
      BY <1>1, <2>2, SkipCapacity
  <1> QED
    BY <1>2, <1>3
-----------------------------------------------------------------------------
(* Whoever reserves leaves room for what the others have reserved. *)
LEMMA RoomLeft ==
  ASSUME IInv, ArrivalInv, \A b \in Accounts : CapacityInv(b), NEW a \in Accounts, Enqueue(a), ~disturbed
  PROVE  /\ budget.reserved \in [Accounts -> Nat]
         /\ budget'.read = budget.read /\ budget'.failed = budget.failed /\ budget'.snapshot = budget.snapshot
         /\ \E n \in Nat :
              /\ budget'.reserved = [budget.reserved EXCEPT ![a] = n] /\ budget.reserved[a] <= n
              /\ n = budget.reserved[a] \/ (Total(budget.reserved) - budget.reserved[a]) + n <= Limit
              /\ ~NoGrowth(a) =>
                   /\ Batch /\ Listed /\ \A b \in Accounts : ReservationKnown(b, budget.snapshot[b])
                   /\ Known(After(a)) /\ Active(After(a)) \in Nat /\ Active(After(a)) <= n
                   /\ (Total(budget.reserved) - budget.reserved[a]) + Active(After(a)) <= Limit
  <1> DEFINE r == budget.reserved
             u == Active(After(a))
             n == IF NoGrowth(a) THEN r[a] ELSE Larger(r[a], Use(a))
  <1>1. r \in [Accounts -> Nat] /\ budget \in Budgets /\ r[a] \in Nat
    BY DEF IInv, TypeOK, Budgets
  <1>2. CASE NoGrowth(a)
    <2>1. budget' = budget
      BY <1>2 DEF Enqueue
    <2>2. r = [r EXCEPT ![a] = r[a]]
      BY <1>1
    <2> HIDE DEF r
    <2>3. r' = [r EXCEPT ![a] = r[a]] /\ r[a] <= r[a]
      BY <1>1, <2>1, <2>2 DEF r
    <2> QED
      BY <1>1, <1>2, <2>1, <2>3 DEF r
  <1>3. CASE ~NoGrowth(a)
    <2>1. /\ Ready(a) /\ ~Refused(a) /\ Grows(a) /\ ~Uncertain(a) /\ ~BudgetFails(a) /\ Use(a) <= Room(a)
          /\ budget' = [budget EXCEPT !.reserved = [Reserved(a) EXCEPT ![a] = Larger(@, Use(a))]]
      BY <1>3 DEF Enqueue, Grows
    <2>2. /\ Batch /\ Listed /\ \A b \in Accounts : ReservationKnown(b, budget.snapshot[b])
          /\ Known(After(a)) /\ u \in Nat /\ u # 0 /\ Use(a) \in Nat /\ u <= Use(a)
          /\ Reserved(a) = r
      BY <2>1, Reserves
    <2>3. budget' = [budget EXCEPT !.reserved = [r EXCEPT ![a] = Larger(@, Use(a))]]
      BY <2>1, <2>2
    <2>4. [r EXCEPT ![a] = Larger(@, Use(a))] = [r EXCEPT ![a] = n]
      BY <1>1, <1>3
    <2>5. /\ budget'.read = budget.read /\ budget'.failed = budget.failed
          /\ budget'.snapshot = budget.snapshot /\ budget'.reserved = [r EXCEPT ![a] = n]
      <3> HIDE DEF n, r
      <3> QED
        BY <1>1, <2>3, <2>4 DEF Budgets
    <2>6. Total(r) \in Nat /\ Limit \in Nat
      BY <1>1, TotalType, WriteAssumption
    <2>7. (Total(r) - r[a]) + Use(a) <= Limit
      <3>1. Use(a) <= Positive(Limit - (Total(r) - r[a]))
        BY <2>1, <2>2 DEF Room
      <3> HIDE DEF r, u
      <3> QED
        BY <1>1, <2>2, <2>6, <3>1 DEF Positive, r
    <2>8. n \in Nat /\ r[a] <= n /\ u <= n /\ n \in {r[a], Use(a)}
      <3> HIDE DEF r, u
      <3> QED
        BY <1>1, <1>3, <2>2 DEF Larger, r
    <2> HIDE DEF r, u, n
    <2>9. (Total(r) - r[a]) + u <= Limit
      BY <1>1, <2>2, <2>6, <2>7
    <2>10. n = r[a] \/ (Total(r) - r[a]) + n <= Limit
      BY <2>7, <2>8
    <2> QED
      BY <1>1, <2>2, <2>5, <2>8, <2>9, <2>10 DEF r, u
  <1> QED
    BY <1>2, <1>3

LEMMA EnqueueCapacity ==
  ASSUME IInv, ArrivalInv, \A b \in Accounts : CapacityInv(b), NEW a \in Accounts, Enqueue(a)
  PROVE  \A b \in Accounts : CapacityInv(b)'
  <1>1. /\ stage[a] = "read"
        /\ UNCHANGED <<remote, target, released, current, phase, outcome, disturbed>>
    BY DEF Enqueue, Ready, Decides, plan, history
  <1>2. /\ \A b \in Accounts \ {a} : stage'[b] = stage[b] /\ desired'[b] = desired[b]
                                       /\ baseline'[b] = baseline[b]
        /\ stage'[a] \in {"queued", "done"}
        /\ baseline'[a] \in {baseline[a], Captured(a)}
    BY DEF Enqueue, Goes, Skip, IInv, TypeOK
  <1>3. \A b \in Accounts : After(b)' = After(b)
    <2>1. \A b \in Accounts \ {a} : DesiredValues(b)' = DesiredValues(b)
      BY <1>1, <1>2 DEF DesiredValues, Restorable
    <2>2. DesiredValues(a)' = DesiredValues(a)
      BY <1>1, <1>2 DEF DesiredValues, Restorable, Captured
    <2> QED
      BY <1>1, <2>1, <2>2 DEF After
  <1>4. \A b \in Accounts : NoGrowth(b)' <=> NoGrowth(b)
    BY <1>1, <1>3 DEF NoGrowth
  <1>5. CASE disturbed
    <2>1. disturbed' /\ ~Batch'
      BY <1>1, <1>5 DEF Batch
    <2> QED
      BY <2>1, NoCapacity
  <1>6. CASE ~disturbed
    <2> DEFINE r == budget.reserved
    <2>1. /\ r \in [Accounts -> Nat]
          /\ budget'.read = budget.read /\ budget'.failed = budget.failed /\ budget'.snapshot = budget.snapshot
      BY <1>6, RoomLeft
    <2>2. PICK n \in Nat :
            /\ budget'.reserved = [r EXCEPT ![a] = n] /\ r[a] <= n
            /\ n = r[a] \/ (Total(r) - r[a]) + n <= Limit
            /\ ~NoGrowth(a) =>
                 /\ Batch /\ Listed /\ \A b \in Accounts : ReservationKnown(b, budget.snapshot[b])
                 /\ Known(After(a)) /\ Active(After(a)) \in Nat /\ Active(After(a)) <= n
                 /\ (Total(r) - r[a]) + Active(After(a)) <= Limit
      BY <1>6, RoomLeft
    <2>3. /\ \A b \in Accounts : r[b] \in Nat /\ r[b] <= budget'.reserved[b]
          /\ \A b \in Accounts : b # a => budget'.reserved[b] = r[b]
          /\ budget'.reserved[a] = n
          /\ Total(budget'.reserved) = (Total(r) - r[a]) + n
          /\ Total(r) \in Nat
      BY <2>1, <2>2, TotalExcept, TotalType
    <2>4. /\ Batch' <=> Batch
          /\ Listed' <=> Listed
      BY <1>1, <2>1 DEF Batch, Listed
    <2>5. ASSUME NEW b \in Accounts PROVE SnapshotInv(b)'
      <3>1. Batch /\ Listed => Reservation(b, budget'.snapshot[b]) <= budget'.reserved[b]
        <4>1. ASSUME Batch, Listed
              PROVE  Reservation(b, budget.snapshot[b]) \in Nat
                     /\ Reservation(b, budget.snapshot[b]) <= r[b]
          <5>1. budget.snapshot[b] \in Settings
            BY <4>1 DEF IInv, TypeOK, Listed
          <5> QED
            BY <4>1, <5>1, ReservationType DEF CapacityInv, SnapshotInv
        <4>2. Reservation(b, budget'.snapshot[b]) = Reservation(b, budget.snapshot[b])
          BY <2>1
        <4> HIDE DEF r
        <4> QED
          BY <2>3, <4>1, <4>2
      <3>2. Batch /\ Listed /\ b = a => remote[b] = budget.snapshot[b] /\ current[b] = budget.snapshot[b]
        BY <1>1 DEF CapacityInv, SnapshotInv, InHand
      <3>3. Reservation(b, budget.snapshot[b])' = Reservation(b, budget'.snapshot[b])
        BY <1>1 DEF Reservation, Keeps
      <3> QED
        BY <1>1, <1>2, <2>1, <2>4, <3>1, <3>2, <3>3 DEF CapacityInv, SnapshotInv
    <2>6. ASSUME NEW b \in Accounts PROVE FlightInv(b)'
      <3>1. CASE b = a
        <4>1. remote[a] = current[a]
          BY <1>1, <1>6 DEF IInv, AccountInv, RemoteInv, Quiet
        <4>2. remote'[a] \in Between(a)'
          BY <1>1, <4>1 DEF Between
        <4> QED
          BY <1>2, <3>1, <4>2 DEF FlightInv
      <3>2. CASE b # a
        <4>1. Between(b)' = Between(b)
          BY <1>1, <1>2, <3>2 DEF Between
        <4> QED
          BY <1>1, <1>2, <3>2, <4>1 DEF CapacityInv, FlightInv
      <3> QED
        BY <3>1, <3>2
    <2>7. ASSUME NEW b \in Accounts PROVE BudgetInv(b)'
      <3>1. SUFFICES ASSUME Batch, stage'[b] \in Pending, ~NoGrowth(b) PROVE BudgetInv(b)'
        BY <1>4, <2>4 DEF BudgetInv
      <3> DEFINE u == Active(After(b))
      <3>2. /\ Listed /\ (\A c \in Accounts : ReservationKnown(c, budget.snapshot[c])) /\ Known(After(b))
            /\ u \in Nat /\ u <= budget'.reserved[b]
            /\ (Total(budget'.reserved) - budget'.reserved[b]) + u <= Limit
        <4>1. CASE b = a
          <5>1. Listed /\ (\A c \in Accounts : ReservationKnown(c, budget.snapshot[c])) /\ Known(After(b))
                /\ u \in Nat /\ u <= n /\ (Total(r) - r[a]) + u <= Limit
            BY <2>2, <3>1, <4>1
          <5> HIDE DEF r, u
          <5>2. (Total(budget'.reserved) - budget'.reserved[a]) + u <= Limit
            <6>1. r[a] \in Nat
              BY <2>3
            <6> QED
              BY <2>3, <5>1, <6>1
          <5> QED
            BY <2>3, <4>1, <5>1, <5>2
        <4>2. CASE b # a
          <5>1. /\ Listed /\ (\A c \in Accounts : ReservationKnown(c, budget.snapshot[c])) /\ Known(After(b))
                /\ u <= r[b] /\ (Total(r) - r[b]) + u <= Limit
            BY <1>2, <3>1, <4>2 DEF CapacityInv, BudgetInv
          <5>2. u \in Nat
            <6>1. current[b] \in Settings
              BY <1>2, <3>1, <4>2 DEF IInv, TypeOK
            <6>2. After(b) \in Settings
              BY <6>1, DesiredType, WithType DEF IInv, After
            <6> QED
              BY <6>2, ActiveType
          <5>3. r[a] \in Nat /\ r[b] \in Nat /\ Limit \in Nat
            BY <2>3, WriteAssumption
          <5> HIDE DEF r, u
          <5>4. (Total(budget'.reserved) - r[b]) + u <= Limit
            BY <2>2, <2>3, <5>1, <5>2, <5>3
          <5> QED
            BY <2>3, <4>2, <5>1, <5>2, <5>4
        <4> QED
          BY <4>1, <4>2
      <3>3. Active(After(b))' = u /\ (Known(After(b))' <=> Known(After(b)))
        BY <1>3 DEF Active, Known
      <3>4. \A c \in Accounts : ReservationKnown(c, budget.snapshot[c])' <=> ReservationKnown(c, budget.snapshot[c])
        BY <1>1, <2>1 DEF ReservationKnown, Keeps
      <3>5. Total(budget.reserved)' = Total(budget'.reserved)
        OBVIOUS
      <3> HIDE DEF u
      <3> QED
        BY <2>4, <3>2, <3>3, <3>4, <3>5 DEF BudgetInv
    <2> QED
      BY <2>5, <2>6, <2>7 DEF CapacityInv
  <1> QED
    BY <1>5, <1>6
-----------------------------------------------------------------------------
(* The writes *)

LEMMA UnansweredEffect ==
  ASSUME TypeOK, NEW s \in SUBSET Accounts, NEW d \in Fields, Unanswered(s, d)
  PROVE  /\ \A b \in s : remote'[b] \in {remote[b], With(remote[b], d)}
         /\ \A b \in Accounts \ s : remote'[b] = remote[b]
  <1>1. CASE Denied
    BY <1>1 DEF Denied
  <1>2. CASE \E t \in SUBSET s : Answered(t, d)
    <2>1. PICK t \in SUBSET s : Answered(t, d)
      BY <1>2
    <2>2. t \in SUBSET Accounts
      OBVIOUS
    <2>3. /\ \A b \in t : remote'[b] = With(remote[b], d)
          /\ \A b \in Accounts \ t : remote'[b] = remote[b]
      BY <2>1, <2>2, AnsweredFacts
    <2> QED
      BY <2>3
  <1> QED
    BY <1>1, <1>2 DEF Unanswered

LEMMA UnsentFacts ==
  ASSUME IInv, NEW a \in Accounts, stage[a] \in {"queued", "bulk"}
  PROVE  ~outcome[a].failed /\ (~disturbed => remote[a] = current[a])
  <1>1. outcome[a] = NoOutcome
    BY DEF IInv, AccountInv, OutcomeInv
  <1>2. ~NoOutcome.failed
    BY DEF NoOutcome
  <1>3. ~disturbed => remote[a] = current[a]
    BY DEF IInv, AccountInv, RemoteInv, Quiet
  <1> QED
    BY <1>1, <1>2, <1>3

LEMMA OneCapacity ==
  ASSUME IInv, \A b \in Accounts : CapacityInv(b), NEW a \in Accounts, stage[a] \in InFlight,
         NEW to \in InFlight \cup {"wrote"}, Goes(a, to),
         UNCHANGED <<durable, plan, prepare, phase, history>>,
         \A b \in Accounts \ {a} : remote'[b] = remote[b] /\ outcome'[b] = outcome[b],
         FlightInv(a)'
  PROVE  \A b \in Accounts : CapacityInv(b)'
  <1>1. /\ SameBatch
        /\ UNCHANGED <<baseline, target, current, desired>>
    BY DEF SameBatch, Batch, durable, plan, prepare, history
  <1>2. stage'[a] = to /\ \A b \in Accounts \ {a} : stage'[b] = stage[b]
    BY DEF Goes, IInv, TypeOK
  <1>3. \A b \in Accounts \ {a} : CapacityInv(b)'
    BY <1>1, <1>2, StillCapacity DEF Still
  <1>4. CapacityInv(a)'
    BY <1>1, <1>2, PendingCapacity DEF InFlight, Pending
  <1> QED
    BY <1>3, <1>4

(* How an account may be found while its request is on its way. *)
LEMMA FlightType ==
  ASSUME NEW a \in Accounts, UNCHANGED <<current, desired>>,
         ~disturbed' => remote'[a] \in Between(a),
         ~disturbed' /\ stage'[a] = "switch" =>
            /\ remote'[a] \in {current[a], With(current[a], Concurrency(desired[a]))}
            /\ outcome'[a].failed => ~Resumes(desired[a])
  PROVE  FlightInv(a)'
  <1>1. Between(a)' = Between(a)
    BY DEF Between
  <1> QED
    BY <1>1 DEF FlightInv

LEMMA PutFieldsCapacity ==
  ASSUME IInv, \A b \in Accounts : CapacityInv(b), NEW a \in Accounts, PutFields(a)
  PROVE  \A b \in Accounts : CapacityInv(b)'
  <1> DEFINE d == Concurrency(desired[a])
             next == IF desired[a].on = Null THEN "wrote" ELSE "switch"
  <1>1. /\ stage[a] = "fields" /\ UNCHANGED <<durable, plan, prepare, phase, history>>
        /\ UNCHANGED <<current, desired, disturbed>>
    BY DEF PutFields, durable, plan, prepare, history
  <1>2. /\ {a} \in SUBSET Accounts /\ d \in Fields
        /\ ~disturbed => current[a] = remote[a]
    BY <1>1, FlightFacts, PartType DEF InFlight, RemoteInv, Quiet, Concurrency
  <1>3. /\ \E to \in {"wrote", "confirm", "switch"} :
             Goes(a, to) /\ (to = "switch" => ~Resumes(desired[a]))
        /\ \A b \in Accounts \ {a} : outcome'[b] = outcome[b]
        /\ Answered({a}, d) \/ Unanswered({a}, d)
    BY DEF PutFields, Concurrency, IInv, TypeOK
  <1>4. /\ remote'[a] \in {remote[a], With(remote[a], d)}
        /\ \A b \in Accounts \ {a} : remote'[b] = remote[b]
    BY <1>2, <1>3, AnsweredFacts, UnansweredEffect DEF IInv
  <1>5. PICK to \in {"wrote", "confirm", "switch"} : Goes(a, to) /\ (to = "switch" => ~Resumes(desired[a]))
    BY <1>3
  <1>6. stage'[a] = to
    BY <1>5 DEF Goes, IInv, TypeOK
  <1>7. FlightInv(a)'
    BY <1>1, <1>2, <1>4, <1>5, <1>6, FlightType DEF Between
  <1> QED
    BY <1>1, <1>3, <1>4, <1>5, <1>7, OneCapacity DEF InFlight

LEMMA ConfirmCapacity ==
  ASSUME IInv, \A b \in Accounts : CapacityInv(b), NEW a \in Accounts, ConfirmConcurrency(a)
  PROVE  \A b \in Accounts : CapacityInv(b)'
  <1>1. /\ stage[a] = "confirm" /\ UNCHANGED <<durable, plan, prepare, phase, history>>
        /\ UNCHANGED <<remote, current, desired, disturbed>>
    BY DEF ConfirmConcurrency, durable, plan, prepare, history
  <1>2. ~disturbed => /\ remote[a] = With(current[a], Concurrency(desired[a]))
                      /\ remote[a] \in Between(a)
    BY <1>1, FlightFacts DEF InFlight, RemoteInv, Quiet, Concurrency, CapacityInv, FlightInv, Pending
  <1>3. ~outcome[a].failed
    BY <1>1, FlightFacts DEF InFlight, OutcomeInv
  <1>4. /\ \E to \in {"switch", "partial"} : Goes(a, to) /\ (to = "switch" => outcome' = outcome)
        /\ \A b \in Accounts \ {a} : outcome'[b] = outcome[b]
    BY DEF ConfirmConcurrency, IInv, TypeOK
  <1>5. PICK to \in {"switch", "partial"} : Goes(a, to) /\ (to = "switch" => outcome' = outcome)
    BY <1>4
  <1>6. stage'[a] = to
    BY <1>5 DEF Goes, IInv, TypeOK
  <1>7. FlightInv(a)'
    BY <1>1, <1>2, <1>3, <1>5, <1>6, FlightType
  <1> QED
    BY <1>1, <1>4, <1>5, <1>7, OneCapacity DEF InFlight

LEMMA SwitchCapacity ==
  ASSUME IInv, \A b \in Accounts : CapacityInv(b), NEW a \in Accounts, SwitchTraffic(a)
  PROVE  \A b \in Accounts : CapacityInv(b)'
  <1> DEFINE d == Traffic(desired[a])
  <1>1. /\ stage[a] = "switch" /\ UNCHANGED <<durable, plan, prepare, phase, history>>
        /\ UNCHANGED <<current, desired, disturbed>>
    BY DEF SwitchTraffic, durable, plan, prepare, history
  <1>2. /\ {a} \in SUBSET Accounts /\ d \in Fields /\ desired[a] \in Fields /\ current[a] \in Settings
    BY <1>1, FlightFacts, PartType DEF InFlight, Traffic
  <1>3. /\ \E to \in {"wrote", "partial"} : Goes(a, to)
        /\ \A b \in Accounts \ {a} : outcome'[b] = outcome[b]
        /\ Answered({a}, d) \/ Unanswered({a}, d)
    BY DEF SwitchTraffic, Traffic, IInv, TypeOK
  <1>4. /\ remote'[a] \in {remote[a], With(remote[a], d)}
        /\ \A b \in Accounts \ {a} : remote'[b] = remote[b]
    BY <1>2, <1>3, AnsweredFacts, UnansweredEffect DEF IInv
  <1>5. ASSUME ~disturbed PROVE remote'[a] \in Between(a)
    <2>1. /\ remote[a] \in {current[a], With(current[a], Concurrency(desired[a]))}
          /\ outcome[a].failed => ~Resumes(desired[a])
          /\ remote[a] \in Between(a)
      BY <1>1, <1>5 DEF CapacityInv, FlightInv, Pending
    <2>2. ~outcome[a].failed => remote[a] = With(current[a], Concurrency(desired[a]))
      BY <1>1, <1>5, FlightFacts DEF InFlight, RemoteInv, Quiet, Concurrency
    <2>3. With(With(current[a], Concurrency(desired[a])), d) = With(current[a], desired[a])
      BY <1>2, WithParts DEF Concurrency, Traffic
    <2>4. CASE remote'[a] = remote[a]
      BY <2>1, <2>4
    <2>5. CASE remote'[a] = With(remote[a], d)
      <3>1. CASE remote[a] = With(current[a], Concurrency(desired[a]))
        BY <2>3, <2>5, <3>1 DEF Between
      <3>2. CASE remote[a] # With(current[a], Concurrency(desired[a]))
        BY <2>1, <2>2, <2>5, <3>2 DEF Between
      <3> QED
        BY <3>1, <3>2
    <2> QED
      BY <1>4, <2>4, <2>5
  <1>6. PICK to \in {"wrote", "partial"} : Goes(a, to)
    BY <1>3
  <1>7. stage'[a] = to
    BY <1>6 DEF Goes, IInv, TypeOK
  <1>8. FlightInv(a)'
    BY <1>1, <1>5, <1>6, <1>7, FlightType
  <1> QED
    BY <1>1, <1>3, <1>4, <1>6, <1>8, OneCapacity DEF InFlight

LEMMA ReadBackCapacity ==
  ASSUME IInv, \A b \in Accounts : CapacityInv(b), NEW a \in Accounts, ReadUnclear(a) \/ ReadPartial(a)
  PROVE  \A b \in Accounts : CapacityInv(b)'
  <1>1. /\ stage[a] \in {"unclear", "partial"} /\ UNCHANGED <<durable, plan, prepare, phase, history>>
        /\ UNCHANGED <<remote, current, desired, disturbed>> /\ Goes(a, "wrote")
    BY DEF ReadUnclear, ReadPartial, durable, plan, prepare, history
  <1>2. ~disturbed => remote[a] \in Between(a)
    BY <1>1 DEF CapacityInv, FlightInv, Pending
  <1>3. \A b \in Accounts \ {a} : outcome'[b] = outcome[b]
    BY DEF ReadUnclear, ReadPartial, IInv, TypeOK
  <1>4. stage'[a] = "wrote"
    BY <1>1 DEF Goes, IInv, TypeOK
  <1>5. FlightInv(a)'
    BY <1>1, <1>2, <1>4, FlightType
  <1> QED
    BY <1>1, <1>3, <1>5, OneCapacity DEF InFlight

LEMMA BulkCapacity ==
  ASSUME IInv, \A b \in Accounts : CapacityInv(b), NEW d \in Fields, BulkWrite(d)
  PROVE  \A b \in Accounts : CapacityInv(b)'
  <1> DEFINE group == {a \in Accounts : stage[a] = "bulk" /\ desired[a] = d}
  <1>1. /\ SameBatch /\ group \in SUBSET Accounts
        /\ UNCHANGED <<baseline, target, current, desired, disturbed>>
    BY DEF BulkWrite, SameBatch, Batch, durable, plan, prepare, history
  <1>2. \A b \in group : /\ stage[b] = "bulk" /\ desired[b] = d /\ ~outcome[b].failed
                         /\ ~disturbed => remote[b] = current[b]
    BY UnsentFacts
  <1>3. /\ \A b \in group : remote'[b] \in {remote[b], With(remote[b], d)}
        /\ \A b \in Accounts \ group : remote'[b] = remote[b]
    <2>1. ASSUME NEW done \in SUBSET group, Answered(done, d)
          PROVE  /\ \A b \in group : remote'[b] \in {remote[b], With(remote[b], d)}
                 /\ \A b \in Accounts \ group : remote'[b] = remote[b]
      <3>1. done \in SUBSET Accounts
        BY <1>1
      <3> HIDE DEF group
      <3>2. /\ \A b \in done : remote'[b] = With(remote[b], d)
            /\ \A b \in Accounts \ done : remote'[b] = remote[b]
        BY <2>1, <3>1, AnsweredFacts DEF IInv
      <3> QED
        BY <1>1, <3>2
    <2>2. ASSUME Unanswered(group, d)
          PROVE  /\ \A b \in group : remote'[b] \in {remote[b], With(remote[b], d)}
                 /\ \A b \in Accounts \ group : remote'[b] = remote[b]
      <3> HIDE DEF group
      <3> QED
        BY <1>1, <2>2, UnansweredEffect DEF IInv
    <2>3. ASSUME remote' = remote
          PROVE  /\ \A b \in group : remote'[b] \in {remote[b], With(remote[b], d)}
                 /\ \A b \in Accounts \ group : remote'[b] = remote[b]
      BY <2>3
    <2> QED
      BY <2>1, <2>2, <2>3 DEF BulkWrite
  <1>4. /\ \A b \in group : /\ stage'[b] \in {"unclear", "wrote", "fields", "switch"}
                            /\ stage'[b] = "switch" => remote' = remote /\ outcome' = outcome
        /\ \A b \in Accounts \ group : stage'[b] = stage[b] /\ outcome'[b] = outcome[b]
    BY DEF BulkWrite, Alone
  <1> HIDE DEF group
  <1>5. ASSUME NEW b \in Accounts PROVE CapacityInv(b)'
    <2>1. CASE b \notin group
      BY <1>1, <1>3, <1>4, <2>1, StillCapacity DEF Still
    <2>2. CASE b \in group
      <3>1. ~disturbed => remote'[b] \in {current[b], With(current[b], desired[b])}
        BY <1>2, <1>3, <2>2
      <3>2. ~disturbed' => remote'[b] \in Between(b)
        BY <1>1, <3>1 DEF Between
      <3>3. stage'[b] = "switch" /\ ~disturbed => remote'[b] = current[b] /\ ~outcome'[b].failed
        BY <1>2, <1>4, <2>2
      <3>4. FlightInv(b)'
        BY <1>1, <3>2, <3>3, FlightType
      <3> QED
        BY <1>1, <1>2, <1>4, <2>2, <3>4, PendingCapacity DEF Pending
    <2> QED
      BY <2>1, <2>2
  <1> QED
    BY <1>5

LEMMA ExecuteCapacity ==
  ASSUME IInv, \A b \in Accounts : CapacityInv(b), Execute
  PROVE  \A b \in Accounts : CapacityInv(b)'
  <1>1. /\ phase = "preparing" /\ SameBatch
        /\ UNCHANGED <<remote, baseline, target, current, desired, disturbed>>
    BY DEF Execute, SameBatch, Batch, durable, plan, prepare, history
  <1>2. ASSUME NEW b \in Accounts, stage[b] = "queued",
               stage'[b] \in {"bulk", "fields", "switch", "wrote"},
               stage'[b] = "switch" => outcome' = outcome
        PROVE  CapacityInv(b)'
    <2>1. /\ ~disturbed => remote[b] = current[b]
          /\ ~outcome[b].failed
      BY <1>2, UnsentFacts
    <2>2. ~disturbed' => remote'[b] \in Between(b)
      BY <1>1, <2>1 DEF Between
    <2>3. FlightInv(b)'
      BY <1>1, <1>2, <2>1, <2>2, FlightType
    <2> QED
      BY <1>1, <1>2, <2>3, PendingCapacity DEF Pending
  <1>3. ASSUME NEW b \in Accounts PROVE CapacityInv(b)'
    <2>1. CASE phase' = "writing"
      <3>1. /\ stage[b] # "queued" => stage'[b] = stage[b]
            /\ stage[b] = "queued" => stage'[b] \in {"bulk", "fields", "switch"}
            /\ outcome' = outcome
        BY <1>1, <2>1 DEF Execute, Queued, Alone
      <3> QED
        BY <1>1, <1>2, <3>1, StillCapacity DEF Still
    <2>2. CASE phase' = "finishing"
      <3>1. /\ stage[b] # "queued" => stage'[b] = stage[b]
            /\ stage[b] = "queued" => stage'[b] = "wrote"
        BY <1>1, <2>2 DEF Execute, Queued
      <3>2. stage[b] \in {"out", "todo", "read", "queued", "done"} /\ ~Batch'
        BY <1>1, <2>2 DEF IInv, PhaseInv, Batch
      <3>3. CASE stage[b] = "queued"
        BY <1>2, <3>1, <3>3
      <3>4. CASE stage[b] # "queued"
        <4>1. stage'[b] \notin Pending
          BY <3>1, <3>2, <3>4 DEF Pending
        <4> QED
          BY <3>2, <4>1, NoCapacity
      <3> QED
        BY <3>3, <3>4
    <2> QED
      BY <2>1, <2>2 DEF Execute
  <1> QED
    BY <1>3

LEMMA VerifyCapacity ==
  ASSUME IInv, \A b \in Accounts : CapacityInv(b), VerifyWrites
  PROVE  \A b \in Accounts : CapacityInv(b)'
  <1>1. /\ ~Batch' /\ SameBatch
        /\ UNCHANGED <<remote, baseline, target, current, desired, stage, disturbed>>
    BY DEF VerifyWrites, SameBatch, Batch, durable, plan, prepare, history
  <1>2. ASSUME NEW b \in Accounts PROVE CapacityInv(b)'
    <2>1. stage[b] \in {"out", "done", "wrote"}
      BY DEF VerifyWrites
    <2>2. CASE stage[b] = "wrote"
      <3>1. ~disturbed' => remote'[b] \in Between(b)
        BY <1>1, <2>2 DEF CapacityInv, FlightInv, Pending
      <3>2. FlightInv(b)'
        BY <1>1, <2>2, <3>1, FlightType
      <3> QED
        BY <1>1, <2>2, <3>2, PendingCapacity DEF Pending
    <2>3. CASE stage[b] # "wrote"
      BY <1>1, <2>1, <2>3, NoCapacity DEF Pending
    <2> QED
      BY <2>2, <2>3
  <1> QED
    BY <1>2

LEMMA FinishCapacity ==
  ASSUME IInv, \A b \in Accounts : CapacityInv(b), NEW a \in Accounts, Finish(a)
  PROVE  \A b \in Accounts : CapacityInv(b)'
  <1>1. /\ ~Batch' /\ SameBatch
        /\ UNCHANGED <<remote, target, current, desired, outcome>>
    BY DEF Finish, SameBatch, Batch, plan, prepare, history
  <1>2. stage'[a] = "done" /\ \A b \in Accounts \ {a} : stage'[b] = stage[b] /\ baseline'[b] = baseline[b]
    BY DEF Finish, Goes, Commit, durable, IInv, TypeOK
  <1>3. \A b \in Accounts \ {a} : CapacityInv(b)'
    BY <1>1, <1>2, StillCapacity DEF Still
  <1>4. CapacityInv(a)'
    BY <1>1, <1>2, NoCapacity DEF Pending
  <1> QED
    BY <1>3, <1>4
-----------------------------------------------------------------------------

(* The invariant with what the capacity needs *)
CapInv == IInv /\ ArrivalInv /\ \A a \in Accounts : CapacityInv(a)

LEMMA BetweenRoundsCapacity ==
  ASSUME CapInv, Sync \/ Calculate \/ Apply \/ ApplyRefused \/ EndRound \/ Crash
  PROVE  \A b \in Accounts : CapacityInv(b)'
  <1>1. ASSUME NEW b \in Accounts PROVE ~(Batch' /\ Listed') /\ stage'[b] \notin Pending
    <2>1. CASE ApplyRefused \/ EndRound \/ Crash
      BY <2>1 DEF ApplyRefused, EndRound, Crash, Idle, Batch, Pending
    <2>2. CASE Sync
      BY <2>2 DEF Sync, Batch, CapInv, IInv, TypeOK, Pending
    <2>3. CASE Calculate
      BY <2>3 DEF Calculate, Batch, CapInv, IInv, TypeOK, Pending
    <2>4. CASE Apply
      <3>1. PICK known \in BOOLEAN : budget' = [NoBudget EXCEPT !.known = known]
        BY <2>4 DEF Apply
      <3>2. ~budget'.read
        BY <3>1 DEF NoBudget
      <3> QED
        BY <2>4, <3>2 DEF Apply, Listed, Pending
    <2> QED
      BY <2>1, <2>2, <2>3, <2>4
  <1> QED
    BY <1>1, NoCapacity

LEMMA CapacityStep ==
  ASSUME CapInv, [Next]_vars
  PROVE  \A b \in Accounts : CapacityInv(b)'
  <1>2. CASE Sync \/ Calculate \/ Apply \/ ApplyRefused \/ EndRound \/ Crash
    BY <1>2, BetweenRoundsCapacity
  <1>3. CASE UNCHANGED vars
    <2>1. SameBatch /\ \A b \in Accounts : Still(b)
      BY <1>3 DEF vars, durable, plan, prepare, history, SameBatch, Still, Batch
    <2> QED
      BY <2>1, StillCapacity DEF CapInv
  <1>4. CASE EndContext \/ Withdraw
    <2>1. SameBatch /\ \A b \in Accounts : Still(b)
      BY <1>4 DEF EndContext, Withdraw, durable, plan, prepare, history, SameBatch, Still, Batch
    <2> QED
      BY <2>1, StillCapacity DEF CapInv
  <1>5. CASE \E a \in Accounts : HumanEdit(a)
    <2>1. disturbed' /\ ~Batch'
      BY <1>5 DEF HumanEdit, Batch
    <2> QED
      BY <2>1, NoCapacity
  <1>6. CASE LoadRemoteCapacity
    BY <1>6, LoadCapacity DEF CapInv
  <1>7. ASSUME NEW a \in Accounts, Prepare(a) PROVE \A b \in Accounts : CapacityInv(b)'
    BY <1>7, ReadCapacity, AbandonCapacity, WaitCapacity, RefuseCapacity, MatchesCapacity, EnqueueCapacity
       DEF Prepare, CapInv
  <1>8. CASE Execute
    BY <1>8, ExecuteCapacity DEF CapInv
  <1>9. ASSUME NEW d \in Fields, BulkWrite(d) PROVE \A b \in Accounts : CapacityInv(b)'
    BY <1>9, BulkCapacity DEF CapInv
  <1>10. ASSUME NEW a \in Accounts, Write(a) PROVE \A b \in Accounts : CapacityInv(b)'
    BY <1>10, PutFieldsCapacity, ConfirmCapacity, SwitchCapacity, ReadBackCapacity DEF Write, CapInv
  <1>11. CASE VerifyWrites
    BY <1>11, VerifyCapacity DEF CapInv
  <1>12. ASSUME NEW a \in Accounts, Finish(a) PROVE \A b \in Accounts : CapacityInv(b)'
    BY <1>12, FinishCapacity DEF CapInv
  <1> QED
    BY <1>2, <1>3, <1>4, <1>5, <1>6, <1>7, <1>8, <1>9, <1>10, <1>11, <1>12
       DEF Next, Console, Round, Disturbance

LEMMA CapacityInit == ASSUME Init PROVE CapInv
  <1>1. IInv
    BY InitInv
  <1>2. phase = "idle" /\ \A b \in Accounts : stage[b] = "out"
    BY DEF Init
  <1>3. ArrivalInv
    BY <1>2 DEF ArrivalInv
  <1>4. \A b \in Accounts : CapacityInv(b)
    BY <1>2 DEF CapacityInv, SnapshotInv, FlightInv, BudgetInv, Batch, Pending
  <1> QED
    BY <1>1, <1>3, <1>4 DEF CapInv

LEMMA AlwaysCapInv == Spec => []CapInv
  <1>1. Init => CapInv
    BY CapacityInit
  <1>2. CapInv /\ [Next]_vars => CapInv'
    BY StepInv, ArrivalStep, CapacityStep DEF CapInv
  <1> QED
    BY <1>1, <1>2, PTL DEF Spec
-----------------------------------------------------------------------------
(* Capacity *)

NoMore(s, t) == Known(t) /\ (Known(s) => Active(t) <= Active(s))
(* reserve's condition, for a request d to an account read as s *)
NeedsNone(s, d) ==
    LET t == With(s, d)
    IN  /\ Known(t)
        /\ \/ Known(s) /\ Active(t) <= Active(s)
           \/ Active(t) = 0
           \/ s.on /\ s.conc = 0

(* A stopped account uses nothing, and is the better known for it. *)
LEMMA StoppedUsesNothing ==
  ASSUME NEW t, ~t.on
  PROVE  Known(t) /\ Active(t) = 0
  BY DEF Known, Active

LEMMA StoppedIsNoMore ==
  ASSUME NEW s \in Settings, NEW t, ~t.on
  PROVE  NoMore(s, t)
  BY StoppedUsesNothing, ActiveType DEF NoMore

(* A request that needs no capacity never takes more, not even by one of its
   calls alone, unless it stops the account with a larger concurrency. *)
LEMMA QuietRequest ==
  ASSUME NEW s \in Settings, NEW d \in Fields, d.on # s.on, d.conc # s.conc, NeedsNone(s, d),
         ~(d.on = FALSE /\ d.conc # Null /\ (d.conc = 0 \/ d.conc > s.conc))
  PROVE  /\ NoMore(s, With(s, d))
         /\ d.conc # Null => NoMore(s, With(s, Concurrency(d)))
         /\ \A r \in Settings : With(r, Traffic(d)) = r \/ NoMore(r, With(r, Traffic(d)))
         /\ Known(s) => \A t \in {s, With(s, d), With(s, Concurrency(d)), With(s, Traffic(d))} :
                           Known(t) /\ Active(t) <= Active(s)
  <1>1. /\ d.on = Null \/ d.on = TRUE \/ d.on = FALSE
        /\ s.on \in BOOLEAN
    BY DEF Settings, Fields
  <1>2. d.conc = Null \/ d.conc \in Nat
    <2>1. d.conc \in Concurrencies \cup {0, Null}
      BY DEF Fields
    <2>2. \A c \in Concurrencies \cup {0} : c \in Nat
      BY WriteAssumption
    <2> QED
      BY <2>1, <2>2
  <1>3. s.conc \in Nat /\ Active(s) \in Nat
    BY ConcurrencyType, ActiveType
  <1>4. /\ With(s, d).on = (IF d.on = Null THEN s.on ELSE d.on)
        /\ With(s, d).conc = (IF d.conc = Null THEN s.conc ELSE d.conc)
    BY DEF With
  <1>5. /\ With(s, Concurrency(d)).on = s.on
        /\ With(s, Concurrency(d)).conc = (IF d.conc = Null THEN s.conc ELSE d.conc)
    BY DEF With, Concurrency, Fields
  <1>6. ASSUME NEW r \in Settings
        PROVE  /\ With(r, Traffic(d)).on = (IF d.on = Null THEN r.on ELSE d.on)
               /\ d.on = Null => With(r, Traffic(d)) = r
    BY WriteAssumption DEF With, Traffic, Fields, Settings
  <1>7. TRUE # Null /\ FALSE # Null
    BY WriteAssumption
  <1>8. CASE d.on = Null
    <2>1. With(s, Concurrency(d)) = With(s, d)
      BY <1>8, WithParts DEF Concurrency
    <2>2. NoMore(s, With(s, d))
      <3>1. ASSUME With(s, d).on, Active(With(s, d)) = 0
            PROVE  ~Known(With(s, d))
        BY <1>2, <1>3, <1>4, <3>1, WithType, ConcurrencyType DEF Known, Active
      <3>2. ASSUME s.on, s.conc = 0 PROVE ~Known(s)
        BY <3>2 DEF Known
      <3> QED
        BY <3>1, <3>2, StoppedIsNoMore DEF NeedsNone, NoMore
    <2>3. \A r \in Settings : With(r, Traffic(d)) = r
      BY <1>6, <1>8
    <2>4. Active(s) <= Active(s)
      BY <1>3
    <2> QED
      BY <2>1, <2>2, <2>3, <2>4 DEF NoMore
  <1>9. CASE d.on = TRUE
    <2>1. ~s.on /\ With(s, d).on
      BY <1>1, <1>4, <1>7, <1>9
    <2>2. Active(s) = 0
      BY <2>1, StoppedUsesNothing
    <2>3. Known(With(s, d)) => Active(With(s, d)) > 0
      BY <2>1, WithType, ConcurrencyType DEF Known, Active
    <2>4. Active(With(s, d)) \in Nat
      BY WithType, ActiveType
    <2>5. (~(Active(With(s, d)) <= Active(s)) /\ Active(With(s, d)) # 0) \/ ~Known(With(s, d))
      BY <2>2, <2>3, <2>4
    <2> QED
      BY <2>1, <2>5 DEF NeedsNone
  <1>10. CASE d.on = FALSE
    <2>1. s.on
      BY <1>1, <1>10
    <2>2. ~With(s, d).on
      BY <1>4, <1>7, <1>10
    <2>3. ASSUME NEW r \in Settings PROVE ~With(r, Traffic(d)).on
      BY <1>6, <1>7, <1>10
    <2>4. d.conc = Null => With(s, Concurrency(d)) = s
      BY WithParts DEF Concurrency
    <2>5. d.conc # Null => d.conc \in Nat /\ d.conc > 0 /\ d.conc <= s.conc
      BY <1>2, <1>3, <1>10
    <2>6. d.conc # Null => NoMore(s, With(s, Concurrency(d)))
      BY <1>5, <2>1, <2>5 DEF NoMore, Known, Active
    <2>7. \A r \in Settings : NoMore(r, With(r, Traffic(d)))
      BY <2>3, StoppedIsNoMore
    <2>8. NoMore(s, With(s, d))
      BY <2>2, StoppedIsNoMore
    <2>9. Active(s) <= Active(s)
      BY <1>3
    <2> QED
      BY <2>4, <2>6, <2>7, <2>8, <2>9 DEF NoMore
  <1> QED
    BY <1>1, <1>8, <1>9, <1>10

(* A request that needs capacity never uses more than it asks for, half of it
   written or all. *)
LEMMA GrowingRequest ==
  ASSUME NEW s \in Settings, NEW d \in Fields, d.on # s.on, d.conc # s.conc,
         Known(s), Known(With(s, d)), ~NeedsNone(s, d),
         NEW t \in {s, With(s, d), With(s, Concurrency(d))} \cup (IF Resumes(d) THEN {} ELSE {With(s, Traffic(d))})
  PROVE  Known(t) /\ Active(t) <= Active(With(s, d))
  <1>1. With(s, d) \in Settings /\ Active(s) \in Nat /\ Active(With(s, d)) \in Nat
    BY WithType, ActiveType
  <1>2. Active(s) <= Active(With(s, d)) /\ Active(With(s, d)) # 0
    BY <1>1 DEF NeedsNone
  <1>3. d.on \in BOOLEAN \cup {Null} /\ s.on \in BOOLEAN
    BY DEF Settings, Fields
  <1>4. CASE d.on = Null
    <2>1. With(s, Concurrency(d)) = With(s, d) /\ With(s, Traffic(d)) = s
      BY <1>4, WithParts, WriteAssumption DEF Concurrency, Traffic, With, Settings, Fields
    <2> QED
      BY <1>1, <1>2, <2>1
  <1>5. CASE d.on = TRUE
    <2>1. ~s.on
      BY <1>3, <1>5
    <2>2. With(s, Concurrency(d)).on = s.on
      BY DEF With, Concurrency, Fields
    <2>3. Known(With(s, Concurrency(d))) /\ Active(With(s, Concurrency(d))) = 0
      BY <2>1, <2>2 DEF Known, Active
    <2>4. ~Resumes(d) => With(s, Traffic(d)) = With(s, d)
      BY <1>5 DEF Resumes, With, Traffic, Fields
    <2> QED
      BY <1>1, <1>2, <2>3, <2>4
  <1>6. CASE d.on = FALSE
    <2>1. ~With(s, d).on
      BY <1>6, WriteAssumption DEF With
    <2> QED
      BY <1>2, <2>1 DEF Active
  <1> QED
    BY <1>3, <1>4, <1>5, <1>6

LEMMA DesiredDiffers ==
  ASSUME NEW a \in Accounts, current[a] \in Settings
  PROVE  DesiredValues(a).on # current[a].on /\ DesiredValues(a).conc # current[a].conc
  <1>1. current[a].on # Null /\ current[a].conc # Null
    BY WriteAssumption DEF Settings
  <1>2. \E w : DesiredValues(a) = Changes(w, current[a])
    BY DEF DesiredValues, Restorable
  <1> QED
    BY <1>1, <1>2 DEF Changes

(* What the invariant says of a request on its way. *)
LEMMA RequestFacts ==
  ASSUME IInv, NEW a \in Accounts, stage[a] \in Pending
  PROVE  /\ current[a] \in Settings /\ desired[a] \in Fields
         /\ desired[a].on # current[a].on /\ desired[a].conc # current[a].conc
         /\ After(a) = With(current[a], desired[a])
         /\ NoGrowth(a) <=> NeedsNone(current[a], desired[a])
  <1>1. current[a] \in Settings /\ desired[a] \in Fields /\ desired[a] = DesiredValues(a)
    BY DEF IInv, TypeOK, AccountInv, WantsInv
  <1>2. After(a) = With(current[a], desired[a])
    BY <1>1 DEF After
  <1>3. NoGrowth(a) <=> NeedsNone(current[a], desired[a])
    BY <1>2 DEF NoGrowth, NeedsNone
  <1> QED
    BY <1>1, <1>2, <1>3, DesiredDiffers
-----------------------------------------------------------------------------
(* A step that writes accounts: none but those with a request, and each by its
   request, by a request's first call or by its second. *)
Written(b) ==
    \/ remote'[b] = remote[b]
    \/ /\ remote[b] = current[b]
       /\ \/ remote'[b] = With(current[b], desired[b])
          \/ desired[b].conc # Null /\ remote'[b] = With(current[b], Concurrency(desired[b]))
    \/ remote'[b] = With(remote[b], Traffic(desired[b]))
WriteStep ==
    /\ phase = "writing" /\ UNCHANGED <<budget, released, current, desired, disturbed>>
    /\ \A b \in Accounts :
          IF stage[b] \in Pending THEN stage'[b] \in Pending /\ (~disturbed => Written(b))
          ELSE remote'[b] = remote[b]

LEMMA OneWrite ==
  ASSUME CapInv, NEW a \in Accounts, stage[a] \in InFlight,
         NEW to \in Pending, Goes(a, to), UNCHANGED <<plan, prepare, history>>,
         \A b \in Accounts \ {a} : remote'[b] = remote[b],
         ~disturbed => Written(a)
  PROVE  WriteStep
  <1>1. phase = "writing" /\ stage[a] \in Pending
    BY FlightPhase DEF CapInv, InFlight, Pending
  <1>2. UNCHANGED <<budget, released, current, desired, disturbed>>
    BY DEF plan, prepare, history
  <1>3. stage'[a] = to /\ \A b \in Accounts \ {a} : stage'[b] = stage[b]
    BY DEF Goes, CapInv, IInv, TypeOK
  <1> QED
    BY <1>1, <1>2, <1>3 DEF WriteStep, Written

LEMMA PutFieldsWrite ==
  ASSUME CapInv, NEW a \in Accounts, PutFields(a)
  PROVE  WriteStep
  <1> DEFINE d == Concurrency(desired[a])
  <1>1. /\ IInv /\ stage[a] = "fields" /\ UNCHANGED <<plan, prepare, history>>
    BY DEF PutFields, CapInv
  <1>2. /\ {a} \in SUBSET Accounts /\ d \in Fields /\ desired[a] \in Fields /\ current[a] \in Settings
        /\ ~disturbed => current[a] = remote[a]
    BY <1>1, FlightFacts, PartType DEF InFlight, RemoteInv, Quiet, Concurrency
  <1>3. /\ \E to \in {"wrote", "confirm", "switch"} : Goes(a, to)
        /\ Answered({a}, d) \/ Unanswered({a}, d)
    BY DEF PutFields, Concurrency
  <1>4. /\ remote'[a] \in {remote[a], With(remote[a], d)}
        /\ \A b \in Accounts \ {a} : remote'[b] = remote[b]
    BY <1>1, <1>2, <1>3, AnsweredFacts, UnansweredEffect DEF IInv
  <1>5. desired[a].conc = Null => With(current[a], d) = current[a]
    BY <1>2, WithParts DEF Concurrency
  <1>6. ~disturbed => Written(a)
    BY <1>2, <1>4, <1>5 DEF Written
  <1>7. PICK to \in {"wrote", "confirm", "switch"} : Goes(a, to)
    BY <1>3
  <1> QED
    BY <1>1, <1>4, <1>6, <1>7, OneWrite DEF InFlight, Pending

LEMMA SwitchWrite ==
  ASSUME CapInv, NEW a \in Accounts, SwitchTraffic(a)
  PROVE  WriteStep
  <1> DEFINE d == Traffic(desired[a])
  <1>1. /\ IInv /\ stage[a] = "switch" /\ UNCHANGED <<plan, prepare, history>>
    BY DEF SwitchTraffic, CapInv
  <1>2. {a} \in SUBSET Accounts /\ d \in Fields
    BY <1>1, FlightFacts, PartType DEF InFlight, Traffic
  <1>3. /\ \E to \in {"wrote", "partial"} : Goes(a, to)
        /\ Answered({a}, d) \/ Unanswered({a}, d)
    BY DEF SwitchTraffic, Traffic
  <1>4. /\ remote'[a] \in {remote[a], With(remote[a], d)}
        /\ \A b \in Accounts \ {a} : remote'[b] = remote[b]
    BY <1>1, <1>2, <1>3, AnsweredFacts, UnansweredEffect DEF IInv
  <1>5. Written(a)
    BY <1>4 DEF Written
  <1>6. PICK to \in {"wrote", "partial"} : Goes(a, to)
    BY <1>3
  <1> QED
    BY <1>1, <1>4, <1>5, <1>6, OneWrite DEF InFlight, Pending

(* A bulk update writes some of its members, all as one. *)
LEMMA BulkEffect ==
  ASSUME TypeOK, NEW d \in Fields, BulkWrite(d), NEW b \in Accounts
  PROVE  /\ remote'[b] = remote[b] \/ remote'[b] = With(remote[b], d)
         /\ ~(stage[b] = "bulk" /\ desired[b] = d) => remote'[b] = remote[b]
  <1> DEFINE group == {a \in Accounts : stage[a] = "bulk" /\ desired[a] = d}
  <1>1. group \in SUBSET Accounts /\ (~(stage[b] = "bulk" /\ desired[b] = d) => b \notin group)
    OBVIOUS
  <1>2. \/ \E done \in SUBSET group : Answered(done, d)
        \/ Unanswered(group, d)
        \/ remote' = remote
    BY DEF BulkWrite
  <1> HIDE DEF group
  <1>3. CASE \E done \in SUBSET group : Answered(done, d)
    <2>1. PICK done \in SUBSET group : Answered(done, d)
      BY <1>3
    <2>2. done \in SUBSET Accounts
      BY <1>1
    <2>3. /\ \A c \in done : remote'[c] = With(remote[c], d)
          /\ \A c \in Accounts \ done : remote'[c] = remote[c]
      BY <2>1, <2>2, AnsweredFacts
    <2> QED
      BY <1>1, <2>3
  <1>4. CASE Unanswered(group, d)
    BY <1>1, <1>4, UnansweredEffect
  <1>5. CASE remote' = remote
    BY <1>5
  <1> QED
    BY <1>2, <1>3, <1>4, <1>5

LEMMA BulkIsWrite ==
  ASSUME CapInv, NEW d \in Fields, BulkWrite(d)
  PROVE  WriteStep
  <1>1. /\ IInv /\ phase = "writing"
        /\ UNCHANGED <<budget, released, current, desired, disturbed>>
    BY DEF BulkWrite, CapInv, plan, prepare, history
  <1>2. ASSUME NEW b \in Accounts, stage[b] \in Pending PROVE stage'[b] \in Pending
    BY <1>2 DEF BulkWrite, Alone, Pending
  <1>3. ASSUME NEW b \in Accounts, ~disturbed PROVE Written(b)
    BY <1>1, <1>3, UnsentFacts, BulkEffect DEF Written, IInv
  <1>4. ASSUME NEW b \in Accounts, stage[b] \notin Pending PROVE remote'[b] = remote[b]
    BY <1>1, <1>4, BulkEffect DEF IInv, Pending
  <1> QED
    BY <1>1, <1>2, <1>3, <1>4 DEF WriteStep

(* Nothing else changes an account, but people. *)
LEMMA OnlyWritesWrite ==
  ASSUME CapInv, [Next]_vars, ~disturbed', remote' # remote
  PROVE  WriteStep
  <1>1. \/ \E d \in Fields : BulkWrite(d)
        \/ \E a \in Accounts : PutFields(a) \/ SwitchTraffic(a)
        \/ remote' = remote \/ disturbed'
    <2>1. CASE UNCHANGED vars
      BY <2>1 DEF vars
    <2>2. CASE Sync \/ Calculate \/ Disturbance
      BY <2>2 DEF Sync, Calculate, Disturbance, EndContext, Withdraw, Crash, HumanEdit
    <2>3. CASE Apply \/ ApplyRefused \/ LoadRemoteCapacity \/ Execute \/ VerifyWrites \/ EndRound
      BY <2>3 DEF Apply, ApplyRefused, LoadRemoteCapacity, Execute, VerifyWrites, EndRound
    <2>4. ASSUME NEW a \in Accounts, Prepare(a) PROVE remote' = remote
      BY <2>4 DEF Prepare, ReadAccount, AbandonControl, Wait, Refuse, Matches, Enqueue
    <2>5. ASSUME NEW a \in Accounts, Write(a)
          PROVE  PutFields(a) \/ SwitchTraffic(a) \/ remote' = remote
      BY <2>5 DEF Write, ConfirmConcurrency, ReadUnclear, ReadPartial
    <2>6. ASSUME NEW a \in Accounts, Finish(a) PROVE remote' = remote
      BY <2>6 DEF Finish
    <2> QED
      BY <2>1, <2>2, <2>3, <2>4, <2>5, <2>6 DEF Next, Console, Round
  <1> QED
    BY <1>1, PutFieldsWrite, SwitchWrite, BulkIsWrite
-----------------------------------------------------------------------------
(* While a batch with a list writes, every account uses at most what it has
   reserved, whatever has become of its request; and the account whose request
   needs capacity at most what it will use. *)
LEMMA IdleUse ==
  ASSUME CapInv, WriteStep, Batch, Listed, NEW b \in Accounts, stage[b] \notin Pending,
         ReservationKnown(b, budget.snapshot[b])
  PROVE  Known(remote'[b]) /\ Active(remote'[b]) <= budget.reserved[b]
  <1>1. remote'[b] = remote[b] /\ phase = "writing"
    BY DEF WriteStep
  <1>2. stage[b] \in {"out", "done"}
    BY <1>1 DEF CapInv, ArrivalInv, IInv, TypeOK, Stages, Pending
  <1>3. /\ remote[b] = budget.snapshot[b]
        /\ Reservation(b, budget.snapshot[b]) <= budget.reserved[b]
    BY <1>2 DEF CapInv, CapacityInv, SnapshotInv
  <1>4. remote[b] \in Settings /\ budget.reserved[b] \in Nat
    BY DEF CapInv, IInv, TypeOK, Budgets
  <1>5. /\ Reservation(b, remote[b]) \in Nat /\ Active(remote[b]) <= Reservation(b, remote[b])
        /\ Active(remote[b]) \in Nat
    BY <1>4, ReservationType, ActiveType
  <1>6. Active(remote'[b]) <= budget.reserved[b]
    BY <1>1, <1>3, <1>4, <1>5
  <1>7. Known(remote'[b])
    BY <1>1, <1>3 DEF ReservationKnown, Keeps, Known
  <1> QED
    BY <1>6, <1>7

LEMMA PendingUse ==
  ASSUME CapInv, CapInv', WriteStep, Batch, Listed, NEW b \in Accounts, stage[b] \in Pending,
         ReservationKnown(b, budget.snapshot[b]), ~StopRaises(b)
  PROVE  /\ Known(remote'[b]) /\ Active(remote'[b]) <= budget.reserved[b]
         /\ ~NoGrowth(b) => Active(remote'[b]) <= Active(After(b))
  <1> DEFINE s == current[b]
             d == desired[b]
  <1>1. remote'[b] \in Between(b)
    <2>1. stage'[b] \in Pending /\ ~disturbed' /\ UNCHANGED <<current, desired>>
      BY DEF WriteStep, Batch
    <2>2. Between(b)' = Between(b)
      BY <2>1 DEF Between
    <2>3. FlightInv(b)'
      BY DEF CapInv, CapacityInv
    <2> QED
      BY <2>1, <2>2, <2>3 DEF FlightInv
  <1>2. /\ s \in Settings /\ d \in Fields /\ d.on # s.on /\ d.conc # s.conc
        /\ After(b) = With(s, d) /\ (NoGrowth(b) <=> NeedsNone(s, d))
    BY RequestFacts DEF CapInv
  <1>3. /\ s = budget.snapshot[b]
        /\ Reservation(b, budget.snapshot[b]) <= budget.reserved[b]
    BY DEF CapInv, CapacityInv, SnapshotInv, InHand
  <1>4. Known(s)
    BY <1>3 DEF ReservationKnown, Keeps, Known
  <1>5. /\ Active(s) \in Nat /\ budget.reserved[b] \in Nat /\ Active(s) <= budget.reserved[b]
    <2>1. budget.reserved[b] \in Nat
      BY DEF CapInv, IInv, TypeOK, Budgets
    <2>2. Active(s) \in Nat /\ Reservation(b, s) \in Nat /\ Active(s) <= Reservation(b, s)
      BY <1>2, ReservationType, ActiveType
    <2> QED
      BY <1>3, <2>1, <2>2
  <1>6. remote'[b] \in Settings /\ Active(remote'[b]) \in Nat
    <2>1. remote'[b] \in Settings
      BY DEF CapInv, IInv, TypeOK
    <2> QED
      BY <2>1, ActiveType
  <1>7. remote'[b] \in {s, With(s, d), With(s, Concurrency(d))} \cup (IF Resumes(d) THEN {} ELSE {With(s, Traffic(d))})
    BY <1>1 DEF Between
  <1>8. ~(d.on = FALSE /\ d.conc # Null /\ (d.conc = 0 \/ d.conc > s.conc))
    BY DEF StopRaises
  <1> HIDE DEF s, d
  <1>9. CASE NoGrowth(b)
    <2>1. Known(remote'[b]) /\ Active(remote'[b]) <= Active(s)
      <3>1. remote'[b] \in {s, With(s, d), With(s, Concurrency(d)), With(s, Traffic(d))}
        BY <1>7
      <3> QED
        BY <1>2, <1>4, <1>8, <1>9, <3>1, QuietRequest
    <2> QED
      BY <1>5, <1>6, <1>9, <2>1
  <1>10. CASE ~NoGrowth(b)
    <2>1. Known(With(s, d)) /\ Active(With(s, d)) <= budget.reserved[b]
      BY <1>2, <1>10 DEF CapInv, CapacityInv, BudgetInv
    <2>2. Known(remote'[b]) /\ Active(remote'[b]) <= Active(With(s, d))
      BY <1>2, <1>4, <1>7, <1>10, <2>1, GrowingRequest
    <2>3. Active(With(s, d)) \in Nat
      BY <1>2, WithType, ActiveType
    <2> QED
      BY <1>2, <1>5, <1>6, <2>1, <2>2, <2>3
  <1> QED
    BY <1>9, <1>10

(* Only a request that needs capacity gives an account more. *)
LEMMA RaiseGrows ==
  ASSUME CapInv, WriteStep, ~disturbed, NEW a \in Accounts, remote'[a] # remote[a],
         ~NoMore(remote[a], remote'[a]), ~StopRaises(a)
  PROVE  stage[a] \in Pending /\ ~NoGrowth(a)
  <1> DEFINE s == current[a]
             d == desired[a]
  <1>1. stage[a] \in Pending /\ Written(a)
    BY DEF WriteStep
  <1>2. /\ s \in Settings /\ d \in Fields /\ d.on # s.on /\ d.conc # s.conc
        /\ NoGrowth(a) <=> NeedsNone(s, d)
    BY <1>1, RequestFacts DEF CapInv
  <1>3. ~(d.on = FALSE /\ d.conc # Null /\ (d.conc = 0 \/ d.conc > s.conc))
    BY DEF StopRaises
  <1>4. remote[a] \in Settings
    BY DEF CapInv, IInv, TypeOK
  <1>5. \/ remote[a] = s /\ remote'[a] = With(s, d)
        \/ remote[a] = s /\ d.conc # Null /\ remote'[a] = With(s, Concurrency(d))
        \/ remote'[a] = With(remote[a], Traffic(d))
    BY <1>1 DEF Written
  <1> HIDE DEF s, d
  <1>6. SUFFICES ASSUME NoGrowth(a) PROVE FALSE
    BY <1>1
  <1>7. /\ NoMore(s, With(s, d))
        /\ d.conc # Null => NoMore(s, With(s, Concurrency(d)))
        /\ \A r \in Settings : With(r, Traffic(d)) = r \/ NoMore(r, With(r, Traffic(d)))
    BY <1>2, <1>3, <1>6, QuietRequest
  <1> QED
    BY <1>4, <1>5, <1>7

LEMMA RaiseWithinLimit ==
  ASSUME CapInv, CapInv', [Next]_vars, Raised, ~disturbed', \A a \in Accounts : ~StopRaises(a)
  PROVE  WithinLimit(remote')
  <1>1. PICK a \in Accounts : remote'[a] # remote[a] /\ ~NoMore(remote[a], remote'[a])
    BY DEF Raised, NoMore
  <1>2. WriteStep /\ Batch
    <2>1. WriteStep
      BY <1>1, OnlyWritesWrite
    <2> QED
      BY <2>1 DEF WriteStep, Batch
  <1>3. stage[a] \in Pending /\ ~NoGrowth(a)
    BY <1>1, <1>2, RaiseGrows DEF Batch
  <1>4. /\ Listed /\ \A b \in Accounts : ReservationKnown(b, budget.snapshot[b])
        /\ (Total(budget.reserved) - budget.reserved[a]) + Active(After(a)) <= Limit
    BY <1>2, <1>3 DEF CapInv, CapacityInv, BudgetInv
  <1>5. \A b \in Accounts : Known(remote'[b]) /\ Active(remote'[b]) <= budget.reserved[b]
    BY <1>2, <1>4, IdleUse, PendingUse
  <1>6. Active(remote'[a]) <= Active(After(a))
    BY <1>2, <1>3, <1>4, PendingUse
  <1>7. Active(After(a)) \in Nat
    BY <1>3, RequestFacts, WithType, ActiveType DEF CapInv
  <1> DEFINE uses  == [b \in Accounts |-> Active(remote'[b])]
             bound == [budget.reserved EXCEPT ![a] = Active(After(a))]
  <1>8. budget.reserved \in [Accounts -> Nat] /\ bound \in [Accounts -> Nat]
    BY <1>7 DEF CapInv, IInv, TypeOK, Budgets
  <1>9. uses \in [Accounts -> Nat]
    <2>1. \A b \in Accounts : remote'[b] \in Settings
      BY DEF CapInv, IInv, TypeOK
    <2> QED
      BY <2>1, ActiveType
  <1>10. \A b \in Accounts : uses[b] <= bound[b]
    BY <1>5, <1>6, <1>8
  <1>11. Total(bound) = (Total(budget.reserved) - budget.reserved[a]) + Active(After(a))
    BY <1>7, <1>8, TotalExcept
  <1> HIDE DEF bound
  <1>12. Total(uses) <= Total(bound) /\ Total(uses) \in Nat /\ Total(bound) \in Nat
    BY <1>8, <1>9, <1>10, TotalMonotone, TotalType
  <1>13. Total(uses) <= Limit
    <2> HIDE DEF uses
    <2>1. Total(bound) <= Limit
      BY <1>4, <1>11
    <2>2. Limit \in Nat
      BY WriteAssumption
    <2> QED
      BY <1>12, <2>1, <2>2
  <1> QED
    BY <1>5, <1>13 DEF WithinLimit

(* For every set of accounts, every limit and every round: a step of the console
   that gives an account more traffic leaves the accounts within the limit of
   their upstream, unless a person has changed one during the round or a request
   stops an account with a larger concurrency (upstreamCapacityGuard.reserve and
   the writes of batchWriteCoordinator.execute). *)
THEOREM CapacityIsKept == Spec => CapacityKept
  <1>1. CapInv /\ CapInv' /\ [Next]_vars =>
          [Raised /\ ~disturbed' /\ (\A a \in Accounts : ~StopRaises(a)) => WithinLimit(remote')]_vars
    BY RaiseWithinLimit
  <1> QED
    BY <1>1, AlwaysCapInv, PTL DEF Spec, CapacityKept

(* The batch writes only when every account has arrived (batchWriteCoordinator's
   remaining), and records only when every request has been dealt with. *)
THEOREM BatchWaitsForAll == Spec => []ArrivalInv
  <1>1. CapInv => ArrivalInv
    BY DEF CapInv
  <1> QED
    BY <1>1, AlwaysCapInv, PTL
-----------------------------------------------------------------------------
(* Custody.  A person's claim stands: unless the console manages all accounts, no
   round wants anything of one, and none is given up twice. *)
ClaimsInv ==
    ~ManageAll => \A a \in Accounts :
      target[a].kind \in {"set", "release"} /\ stage[a] # "done" => baseline[a].owner # "person"

(* Most steps leave the baselines, and whatever is out of a round stays out. *)
LEMMA ClaimsKept ==
  ASSUME ClaimsInv, target' = target,
         \A a \in Accounts : stage'[a] # "done" => stage[a] # "done",
         \A a \in Accounts : stage'[a] # "done" /\ baseline'[a].owner = "person" => baseline[a].owner = "person"
  PROVE  ClaimsInv'
BY DEF ClaimsInv

(* What a step that records an account does to its baseline. *)
LEMMA BaselineFacts ==
  ASSUME IInv, NEW a \in Accounts, Matches(a) \/ Enqueue(a) \/ Finish(a)
  PROVE  /\ stage[a] \in {"read", "wrote"} /\ UNCHANGED <<remote, target, edited, edits>>
         /\ \A b \in Accounts \ {a} : baseline'[b] = baseline[b] /\ stage'[b] = stage[b]
         /\ \/ baseline'[a].owner = baseline[a].owner /\ baseline'[a].before = baseline[a].before
            \/ target[a].kind = "release" /\ baseline'[a] = Unowned
            \/ /\ target[a].kind = "set" /\ baseline[a].owner # "console" /\ stage[a] = "read"
               /\ baseline'[a].owner = "console" /\ baseline'[a].before = current[a]
  <1>1. baseline[a] \in Baselines /\ baseline \in [Accounts -> Baselines] /\ stage \in [Accounts -> Stages]
    BY DEF IInv, TypeOK
  <1>2. UNCHANGED <<remote, target, edited, edits>>
    BY DEF Matches, Enqueue, Finish, CallFails, Incident, bounds, plan, history
  <1>3. stage[a] \in {"read", "wrote"} /\ \E to \in Stages : Goes(a, to)
    BY DEF Matches, Enqueue, Finish, Ready, Decides, Skip, Stages, Pending
  <1>4. \A b \in Accounts \ {a} : stage'[b] = stage[b]
    BY <1>1, <1>3 DEF Goes
  <1>5. /\ Captured(a).owner = baseline[a].owner /\ Captured(a).before = baseline[a].before
        \/ /\ target[a].kind = "set" /\ baseline[a].owner # "console"
           /\ Captured(a).owner = "console" /\ Captured(a).before = current[a]
    BY DEF Captured
  <1>6. CASE baseline' \in {baseline, [baseline EXCEPT ![a] = Captured(a)]} /\ stage[a] = "read"
    BY <1>1, <1>2, <1>3, <1>4, <1>5, <1>6
  <1>7. ASSUME NEW b \in Baselines, NEW m, baseline' = [baseline EXCEPT ![a] = [b EXCEPT !.managed = m]]
        PROVE  /\ baseline'[a].owner = b.owner /\ baseline'[a].before = b.before
               /\ \A c \in Accounts \ {a} : baseline'[c] = baseline[c]
    BY <1>1, <1>7 DEF Baselines
  <1>8. CASE target[a].kind = "release" /\ baseline' = [baseline EXCEPT ![a] = Unowned]
    BY <1>1, <1>2, <1>3, <1>4, <1>8
  <1>9. CASE Matches(a)
    <2>1. stage[a] = "read" /\ Captured(a) \in Baselines
      BY <1>9, MatchesFacts, CapturedFacts DEF IInv
    <2>2. CASE Commit(a, Captured(a), current[a], target[a].kind = "release")
      <3>1. CASE target[a].kind = "release"
        BY <1>8, <2>2, <3>1 DEF Commit
      <3>2. CASE target[a].kind # "release"
        <4>1. \E m : baseline' = [baseline EXCEPT ![a] = [Captured(a) EXCEPT !.managed = m]]
          BY <2>2, <3>2 DEF Commit
        <4> QED
          BY <1>2, <1>3, <1>4, <1>5, <1>7, <2>1, <4>1
      <3> QED
        BY <3>1, <3>2
    <2>3. CASE baseline' \in {baseline, [baseline EXCEPT ![a] = Captured(a)]}
      BY <1>6, <2>1, <2>3
    <2>4. baseline = [baseline EXCEPT ![a] = baseline[a]]
      BY <1>1
    <2> QED
      BY <1>9, <2>2, <2>3, <2>4 DEF Matches
  <1>10. CASE Enqueue(a)
    BY <1>6, <1>10 DEF Enqueue, Ready, Decides
  <1>11. CASE Finish(a)
    <2>1. CASE baseline' = baseline
      BY <1>1, <1>2, <1>3, <1>4, <2>1
    <2>2. CASE Commit(a, baseline[a], outcome[a].after, target[a].kind = "release" /\ ~outcome[a].failed)
      <3>1. CASE target[a].kind = "release" /\ ~outcome[a].failed
        BY <1>8, <2>2, <3>1 DEF Commit
      <3>2. CASE ~(target[a].kind = "release" /\ ~outcome[a].failed)
        <4>1. \E m : baseline' = [baseline EXCEPT ![a] = [baseline[a] EXCEPT !.managed = m]]
          BY <2>2, <3>2 DEF Commit
        <4> QED
          BY <1>1, <1>2, <1>3, <1>4, <1>7, <4>1
      <3> QED
        BY <3>1, <3>2
    <2> QED
      BY <1>11, <2>1, <2>2, FinishFacts
  <1> QED
    BY <1>9, <1>10, <1>11

(* An account that is given up is the console's, and is done with. *)
LEMMA AbandonFacts ==
  ASSUME IInv, NEW a \in Accounts, AbandonControl(a)
  PROVE  /\ UNCHANGED <<remote, target, edited, edits>>
         /\ stage' = [stage EXCEPT ![a] = "done"] /\ stage[a] # "done"
         /\ \A b \in Accounts \ {a} : baseline'[b] = baseline[b]
         /\ baseline[a].owner # "none" /\ baseline'[a].before = baseline[a].before
         /\ baseline'[a].owner \in {baseline[a].owner, "person"}
  <1>1. baseline[a].owner # "none"
    BY DEF AbandonControl, GivesUp, ExternallyModified, IInv, AccountInv, WantsInv
  <1>2. baseline' \in {baseline, [baseline EXCEPT ![a].owner = "person", ![a].managed = Nothing]}
    BY DEF AbandonControl, durable
  <1>3. baseline[a] \in Baselines /\ baseline \in [Accounts -> Baselines]
    BY DEF IInv, TypeOK
  <1>4. /\ baseline'[a].before = baseline[a].before /\ baseline'[a].owner \in {baseline[a].owner, "person"}
        /\ \A b \in Accounts \ {a} : baseline'[b] = baseline[b]
    BY <1>2, <1>3 DEF Baselines
  <1>5. UNCHANGED <<remote, target, edited, edits>> /\ stage' = [stage EXCEPT ![a] = "done"] /\ stage[a] # "done"
    BY DEF AbandonControl, Skip, Goes, plan, history, CallFails, Incident, bounds
  <1> QED
    BY <1>1, <1>4, <1>5

LEMMA ClaimsStep ==
  ASSUME IInv, ClaimsInv, [Next]_vars
  PROVE  ClaimsInv'
  <1>1. stage \in [Accounts -> Stages] /\ baseline \in [Accounts -> Baselines]
    BY DEF IInv, TypeOK
  <1>2. CASE Calculate
    <2>1. SUFFICES ASSUME ~ManageAll, NEW a \in Accounts, baseline[a].owner = "person"
                   PROVE  target'[a].kind \notin {"set", "release"}
      BY <1>2 DEF ClaimsInv, Calculate, durable
    <2>2. \E shared \in BOOLEAN : target'[a] \in TargetsOf(a, shared)
      BY <1>2 DEF Calculate
    <2>3. target'[a] = NoTarget
      BY <2>1, <2>2 DEF TargetsOf
    <2> QED
      BY <2>3 DEF NoTarget
  <1>3. CASE Idle
    <2>1. \A a \in Accounts : target'[a].kind = "none"
      BY <1>3 DEF Idle, NoTarget
    <2> QED
      BY <2>1 DEF ClaimsInv
  <1>4. CASE Apply
    BY <1>4, ClaimsKept DEF Apply, durable, IInv, TypeOK
  <1>5. ASSUME NEW a \in Accounts, AbandonControl(a) PROVE ClaimsInv'
    <2>1. \A b \in Accounts : stage'[b] # "done" => b # a /\ stage[b] # "done" /\ baseline'[b] = baseline[b]
      BY <1>1, <1>5, AbandonFacts
    <2> QED
      BY <1>5, <2>1, AbandonFacts, ClaimsKept
  <1>6. ASSUME NEW a \in Accounts, Matches(a) \/ Enqueue(a) \/ Finish(a) PROVE ClaimsInv'
    <2>1. \A b \in Accounts : stage'[b] # "done" => stage[b] # "done"
      BY <1>6, BaselineFacts
    <2>2. \A b \in Accounts : baseline'[b].owner = "person" => baseline[b].owner = "person"
      BY <1>6, BaselineFacts DEF Unowned
    <2> QED
      BY <1>6, <2>1, <2>2, BaselineFacts, ClaimsKept
  <1>7. ASSUME NEW a \in Accounts, ReadAccount(a) \/ Wait(a) \/ Refuse(a) \/ Write(a) PROVE ClaimsInv'
    <2>1. target' = target /\ baseline' = baseline /\ stage[a] # "done" /\ \E to \in Stages : Goes(a, to)
      BY <1>7 DEF ReadAccount, Wait, Refuse, Ready, Decides, Write, PutFields, ConfirmConcurrency, SwitchTraffic,
                  ReadUnclear, ReadPartial, Skip, durable, plan, Stages, Pending
    <2>2. \A b \in Accounts : stage'[b] # "done" => stage[b] # "done"
      BY <1>1, <2>1 DEF Goes
    <2> QED
      BY <2>1, <2>2, ClaimsKept
  <1>8. CASE Execute \/ \E d \in Fields : BulkWrite(d)
    <2>1. target' = target /\ baseline' = baseline /\ \A b \in Accounts : stage[b] = "done" => stage'[b] = "done"
      <3>1. CASE Execute
        BY <3>1 DEF Execute, Queued, durable, plan
      <3>2. ASSUME NEW d \in Fields, BulkWrite(d)
            PROVE  target' = target /\ baseline' = baseline
                   /\ \A b \in Accounts : stage[b] = "done" => stage'[b] = "done"
        BY <3>2 DEF BulkWrite, durable, plan
      <3> QED
        BY <1>8, <3>1, <3>2
    <2> QED
      BY <2>1, ClaimsKept
  <1>9. CASE UNCHANGED <<target, stage, baseline>>
    BY <1>9, ClaimsKept
  <1>10. CASE Sync \/ LoadRemoteCapacity \/ VerifyWrites \/ EndContext \/ Withdraw \/ (\E a \in Accounts : HumanEdit(a))
              \/ UNCHANGED vars
    BY <1>9, <1>10 DEF Sync, LoadRemoteCapacity, VerifyWrites, EndContext, Withdraw, HumanEdit, vars, durable, plan
  <1>11. CASE ApplyRefused \/ EndRound \/ Crash
    BY <1>3, <1>11 DEF ApplyRefused, EndRound, Crash
  <1> QED
    BY <1>2, <1>4, <1>5, <1>6, <1>7, <1>8, <1>10, <1>11 DEF Next, Console, Round, Disturbance, Prepare

LEMMA AlwaysClaimsInv == Spec => []ClaimsInv
  <1>1. Init => ClaimsInv
    BY DEF Init, ClaimsInv, NoTarget
  <1>2. IInv /\ ClaimsInv /\ [Next]_vars => ClaimsInv'
    BY ClaimsStep
  <1> QED
    BY <1>1, <1>2, AlwaysInv, PTL DEF Spec
(* A request on its way is to an account the console owns: control is handed back
   only of what it has set. *)
LEMMA RequestsOwned ==
  ASSUME IInv, NEW a \in Accounts, stage[a] \in Pending
  PROVE  baseline[a].owner = "console"
  <1>1. /\ desired[a] = DesiredValues(a) /\ desired[a] # Nothing /\ current[a] \in Settings
        /\ target[a].kind = "set" => baseline[a].owner = "console"
        /\ target[a].kind # "set" => target[a].want = Nothing
        /\ baseline[a].owner # "console" => baseline[a].managed = Nothing
    BY DEF IInv, TypeOK, AccountInv, WantsInv, Pending
  <1>2. current[a].on # Null /\ current[a].conc # Null
    BY <1>1, WriteAssumption DEF Settings
  <1>3. CASE target[a].kind = "release"
    <2>1. ASSUME baseline[a].managed = Nothing PROVE Restorable(a, current[a]) = Nothing
      BY <1>2, <2>1 DEF Restorable, Changes, Nothing
    <2> QED
      BY <1>1, <1>3, <2>1 DEF DesiredValues
  <1>4. CASE target[a].kind \notin {"set", "release"}
    <2>1. Changes(Nothing, current[a]) = Nothing
      BY <1>2 DEF Changes, Nothing
    <2> QED
      BY <1>1, <1>4, <2>1 DEF DesiredValues
  <1> QED
    BY <1>1, <1>3, <1>4

LEMMA WritesOwned ==
  ASSUME IInv, (\E d \in Fields : BulkWrite(d)) \/ (\E a \in Accounts : PutFields(a) \/ SwitchTraffic(a))
  PROVE  \A b \in Accounts : remote'[b] # remote[b] => baseline[b].owner = "console"
  <1>1. ASSUME NEW d \in Fields, BulkWrite(d), NEW b \in Accounts, remote'[b] # remote[b]
        PROVE  baseline[b].owner = "console"
    <2>1. stage[b] \in Pending
      BY <1>1, BulkEffect DEF IInv, Pending
    <2> QED
      BY <2>1, RequestsOwned
  <1>2. ASSUME NEW a \in Accounts, NEW d \in Fields, stage[a] \in Pending, Answered({a}, d) \/ Unanswered({a}, d),
               NEW b \in Accounts, remote'[b] # remote[b]
        PROVE  baseline[b].owner = "console"
    <2>1. {a} \in SUBSET Accounts
      OBVIOUS
    <2>2. b = a
      BY <1>2, <2>1, AnsweredFacts, UnansweredEffect DEF IInv
    <2> QED
      BY <1>2, <2>2, RequestsOwned
  <1>3. ASSUME NEW a \in Accounts, PutFields(a) \/ SwitchTraffic(a)
        PROVE  stage[a] \in Pending /\ \E d \in Fields : Answered({a}, d) \/ Unanswered({a}, d)
    <2>1. stage[a] \in Pending
      BY <1>3 DEF PutFields, SwitchTraffic, Pending
    <2>2. [desired[a] EXCEPT !.on = Null] \in Fields /\ [desired[a] EXCEPT !.conc = Null] \in Fields
      BY PartType DEF IInv, TypeOK
    <2> QED
      BY <1>3, <2>1, <2>2 DEF PutFields, SwitchTraffic
  <1> QED
    BY <1>1, <1>2, <1>3

(* The mapped owner and settings of before, when one account's baseline changes. *)
LEMMA CustodyPasses ==
  ASSUME NEW a \in Accounts, \A b \in Accounts \ {a} : baseline'[b] = baseline[b],
         UNCHANGED <<remote, edited, edits>>
  PROVE  /\ Custody!Passes(a, baseline'[a].owner)
         /\ [c \in Accounts |-> baseline[c].before]'
              = [[c \in Accounts |-> baseline[c].before] EXCEPT ![a] = baseline'[a].before]
  <1>1. [c \in Accounts |-> baseline'[c].owner]
          = [[c \in Accounts |-> baseline[c].owner] EXCEPT ![a] = baseline'[a].owner]
    OBVIOUS
  <1>2. [c \in Accounts |-> baseline'[c].before]
          = [[c \in Accounts |-> baseline[c].before] EXCEPT ![a] = baseline'[a].before]
    OBVIOUS
  <1> QED
    BY <1>1, <1>2 DEF Custody!Passes

LEMMA CustodyStays ==
  ASSUME UNCHANGED <<remote, edited, edits>>,
         \A b \in Accounts : baseline'[b].owner = baseline[b].owner /\ baseline'[b].before = baseline[b].before
  PROVE  UNCHANGED Custody!custodyVars
  <1>1. [c \in Accounts |-> baseline'[c].owner] = [c \in Accounts |-> baseline[c].owner]
    OBVIOUS
  <1>2. [c \in Accounts |-> baseline'[c].before] = [c \in Accounts |-> baseline[c].before]
    OBVIOUS
  <1> QED
    BY <1>1, <1>2 DEF Custody!custodyVars

(* A request or a record takes its account, hands it back or leaves it. *)
LEMMA RecordsPass ==
  ASSUME IInv, ClaimsInv, NEW a \in Accounts, Matches(a) \/ Enqueue(a) \/ Finish(a)
  PROVE  [Custody!CustodyNext]_Custody!custodyVars
  <1>1. /\ stage[a] # "done" /\ UNCHANGED <<remote, target, edited, edits>>
        /\ \A b \in Accounts \ {a} : baseline'[b] = baseline[b]
    BY BaselineFacts
  <1>2. target[a].kind \in {"set", "release"} => ManageAll \/ baseline[a].owner # "person"
    BY <1>1 DEF ClaimsInv
  <1>3. [c \in Accounts |-> baseline[c].owner][a] = baseline[a].owner
    OBVIOUS
  <1>4. CASE baseline'[a].owner = baseline[a].owner /\ baseline'[a].before = baseline[a].before
    BY <1>1, <1>4, CustodyStays
  <1>5. CASE target[a].kind = "release" /\ baseline'[a] = Unowned
    <2>1. baseline'[a].owner = "none" /\ baseline'[a].before = Nothing
      BY <1>5 DEF Unowned
    <2>2. ~Custody!Claimed(a)
      BY <1>2, <1>3, <1>5 DEF Custody!Claimed
    <2>3. /\ Custody!Passes(a, baseline'[a].owner)
          /\ [c \in Accounts |-> baseline[c].before]'
               = [[c \in Accounts |-> baseline[c].before] EXCEPT ![a] = baseline'[a].before]
      BY <1>1, CustodyPasses
    <2>4. Custody!HandBack(a)
      BY <2>1, <2>2, <2>3 DEF Custody!HandBack, Custody!Passes
    <2> QED
      BY <2>4 DEF Custody!CustodyNext
  <1>6. CASE /\ target[a].kind = "set" /\ baseline[a].owner # "console" /\ stage[a] = "read"
             /\ baseline'[a].owner = "console" /\ baseline'[a].before = current[a]
    <2>1. current[a] \in Settings /\ (a \notin edited => current[a] = remote[a])
      BY <1>6 DEF IInv, TypeOK, AccountInv, RemoteInv, Quiet
    <2>2. ~Custody!Claimed(a)
      BY <1>2, <1>3, <1>6 DEF Custody!Claimed
    <2>3. /\ Custody!Passes(a, baseline'[a].owner)
          /\ [c \in Accounts |-> baseline[c].before]'
               = [[c \in Accounts |-> baseline[c].before] EXCEPT ![a] = baseline'[a].before]
      BY <1>1, CustodyPasses
    <2>4. Custody!Take(a)
      BY <1>3, <1>6, <2>1, <2>2, <2>3 DEF Custody!Take, Custody!Passes
    <2> QED
      BY <2>4 DEF Custody!CustodyNext
  <1> QED
    BY <1>4, <1>5, <1>6, BaselineFacts

LEMMA AbandonPasses ==
  ASSUME IInv, NEW a \in Accounts, AbandonControl(a)
  PROVE  [Custody!CustodyNext]_Custody!custodyVars
  <1>1. CASE baseline'[a].owner = baseline[a].owner
    BY <1>1, AbandonFacts, CustodyStays
  <1>2. CASE baseline'[a].owner # baseline[a].owner
    <2>1. baseline[a].owner = "console" /\ baseline'[a].owner = "person" /\ baseline'[a].before = baseline[a].before
      BY <1>2, AbandonFacts DEF IInv, TypeOK, Baselines
    <2>2. /\ [c \in Accounts |-> baseline[c].owner][a] = baseline[a].owner
          /\ [[c \in Accounts |-> baseline[c].before] EXCEPT ![a] = baseline[a].before]
                = [c \in Accounts |-> baseline[c].before]
      OBVIOUS
    <2>3. /\ Custody!Passes(a, baseline'[a].owner)
          /\ [c \in Accounts |-> baseline[c].before]'
               = [[c \in Accounts |-> baseline[c].before] EXCEPT ![a] = baseline'[a].before]
      BY AbandonFacts, CustodyPasses
    <2>4. Custody!GiveUp(a)
      BY <2>1, <2>2, <2>3 DEF Custody!GiveUp, Custody!Passes
    <2> QED
      BY <2>4 DEF Custody!CustodyNext
  <1> QED
    BY <1>1, <1>2

LEMMA WritesPass ==
  ASSUME IInv, IInv', (\E d \in Fields : BulkWrite(d)) \/ (\E a \in Accounts : PutFields(a) \/ SwitchTraffic(a))
  PROVE  Custody!CustodyNext
  <1>1. UNCHANGED <<baseline, edited, edits>>
    <2>1. ASSUME NEW s, NEW d, Unanswered(s, d) PROVE edits' = edits
      BY <2>1 DEF Unanswered, Denied, Incident, bounds
    <2> QED
      BY <2>1 DEF BulkWrite, PutFields, SwitchTraffic, Incident, durable, history, bounds
  <1>2. \A b \in Accounts : remote'[b] # remote[b] => [c \in Accounts |-> baseline[c].owner][b] = "console"
    BY WritesOwned
  <1>3. remote' \in [Accounts -> Settings]
    BY DEF IInv, TypeOK
  <1>4. Custody!Write
    BY <1>1, <1>2, <1>3 DEF Custody!Write
  <1> QED
    BY <1>4 DEF Custody!CustodyNext

LEMMA EditPasses ==
  ASSUME IInv, NEW a \in Accounts, HumanEdit(a)
  PROVE  Custody!CustodyNext
  <1>1. /\ \E s \in Settings : remote' = [remote EXCEPT ![a] = s]
        /\ edited' = edited \cup {a} /\ edits' = edits + 1 /\ UNCHANGED baseline
    BY DEF HumanEdit, durable
  <1>2. Custody!Edit(a)
    BY <1>1 DEF Custody!Edit
  <1> QED
    BY <1>2 DEF Custody!CustodyNext

LEMMA CustodyStep ==
  ASSUME IInv, IInv', ClaimsInv, [Next]_vars
  PROVE  [Custody!CustodyNext]_Custody!custodyVars
  <1>1. CASE UNCHANGED <<remote, baseline, edited, edits>>
    BY <1>1, CustodyStays
  <1>2. CASE Sync \/ Calculate \/ UNCHANGED vars
    BY <1>1, <1>2 DEF Sync, Calculate, vars, durable, history, bounds
  <1>3. CASE Apply \/ ApplyRefused \/ LoadRemoteCapacity \/ Execute \/ VerifyWrites \/ EndRound
    BY <1>1, <1>3 DEF Apply, ApplyRefused, LoadRemoteCapacity, Execute, VerifyWrites, EndRound, CallFails, Incident,
       durable, history, bounds
  <1>4. CASE EndContext \/ Withdraw \/ Crash
    BY <1>1, <1>4 DEF EndContext, Withdraw, Crash, Incident, durable, history
  <1>5. ASSUME NEW a \in Accounts, ReadAccount(a) \/ Wait(a) \/ Refuse(a) \/ ConfirmConcurrency(a)
                                     \/ ReadUnclear(a) \/ ReadPartial(a)
        PROVE  [Custody!CustodyNext]_Custody!custodyVars
    BY <1>1, <1>5 DEF ReadAccount, Wait, Refuse, ConfirmConcurrency, ReadUnclear, ReadPartial, CallFails, Incident,
       durable, history, bounds
  <1> QED
    BY <1>2, <1>3, <1>4, <1>5, RecordsPass, AbandonPasses, WritesPass, EditPasses
       DEF Next, Console, Round, Disturbance, Prepare, Write

(* AccountCustody, over every number of accounts, rounds and disturbances: the
   console writes only to accounts it has taken, takes no account that a person
   has claimed unless it manages all of them, and the values to which it returns
   an account are those from before, captured once (captureRoutingBaseline,
   AbandonRoutingControl, CommitRoutingReadback). *)
THEOREM RoundsKeepCustody == Spec => ImplementsCustody
  <1>1. Init => Custody!CustodyInit
    <2> SUFFICES ASSUME Init PROVE Custody!CustodyInit
      OBVIOUS
    <2>1. FirstSettings \subseteq Settings
      BY WriteAssumption DEF Settings
    <2>2. remote \in [Accounts -> Settings]
      BY <2>1 DEF Init
    <2>3. \A a \in Accounts : baseline[a].owner = "none" /\ baseline[a].before = Nothing
      BY DEF Init, Unowned
    <2> QED
      BY <2>2, <2>3 DEF Init, Custody!CustodyInit
  <1>2. IInv /\ IInv' /\ ClaimsInv /\ [Next]_vars => [Custody!CustodyNext]_Custody!custodyVars
    BY CustodyStep
  <1> QED
    BY <1>1, <1>2, AlwaysInv, AlwaysClaimsInv, PTL DEF Spec, ImplementsCustody, Custody!CustodySpec
-----------------------------------------------------------------------------
(* Progress.  Only what something is wanted of takes part in a round. *)
StagedInv == \A a \in Accounts : stage[a] # "out" => target[a].kind # "none"

LEMMA StagedKept ==
  ASSUME StagedInv, target' = target, \A a \in Accounts : stage[a] = "out" => stage'[a] = "out"
  PROVE  StagedInv'
BY DEF StagedInv

LEMMA StagedStep == ASSUME IInv, StagedInv, [Next]_vars PROVE StagedInv'
  <1>1. stage \in [Accounts -> Stages]
    BY DEF IInv, TypeOK
  <1>2. CASE UNCHANGED <<stage, target>>
    BY <1>2, StagedKept
  <1>3. CASE Calculate
    BY <1>3 DEF Calculate, IInv, TypeOK, StagedInv
  <1>4. CASE Apply
    <2>1. target' = target /\ \A a \in Accounts : stage'[a] # "out" => a \in Targeted
      BY <1>4 DEF Apply
    <2> QED
      BY <2>1 DEF StagedInv, Targeted
  <1>5. CASE ApplyRefused \/ EndRound \/ Crash
    BY <1>5 DEF ApplyRefused, EndRound, Crash, Idle, StagedInv
  <1>6. CASE Sync \/ LoadRemoteCapacity \/ VerifyWrites \/ EndContext \/ Withdraw \/ (\E a \in Accounts : HumanEdit(a))
              \/ UNCHANGED vars
    BY <1>2, <1>6 DEF Sync, LoadRemoteCapacity, VerifyWrites, EndContext, Withdraw, HumanEdit, vars, plan
  <1>7. ASSUME NEW a \in Accounts, Prepare(a) \/ Write(a) \/ Finish(a) PROVE StagedInv'
    <2>1. target' = target /\ stage[a] # "out" /\ \E to \in Stages : Goes(a, to)
      <3>1. CASE Prepare(a)
        BY <3>1 DEF Prepare, ReadAccount, AbandonControl, Wait, Refuse, Matches, Enqueue, Ready, Decides, Skip,
                    plan, Stages, Pending
      <3>2. CASE Write(a) \/ Finish(a)
        BY <3>2 DEF Write, PutFields, ConfirmConcurrency, SwitchTraffic, ReadUnclear, ReadPartial, Finish,
                    plan, Stages, Pending
      <3> QED
        BY <1>7, <3>1, <3>2
    <2>2. \A b \in Accounts : stage[b] = "out" => stage'[b] = "out"
      BY <1>1, <2>1 DEF Goes
    <2> QED
      BY <2>1, <2>2, StagedKept
  <1>8. CASE Execute
    <2>1. target' = target /\ \A b \in Accounts : stage[b] = "out" => stage'[b] = "out"
      BY <1>8 DEF Execute, Queued, plan
    <2> QED
      BY <2>1, StagedKept
  <1>9. ASSUME NEW d \in Fields, BulkWrite(d) PROVE StagedInv'
    <2>1. target' = target /\ \A b \in Accounts : stage[b] = "out" => stage'[b] = "out"
      BY <1>9 DEF BulkWrite, plan
    <2> QED
      BY <2>1, StagedKept
  <1> QED
    BY <1>3, <1>4, <1>5, <1>6, <1>7, <1>8, <1>9 DEF Next, Console, Round, Disturbance

LEMMA AlwaysStagedInv == Spec => []StagedInv
  <1>1. Init => StagedInv
    BY DEF Init, StagedInv
  <1>2. IInv /\ StagedInv /\ [Next]_vars => StagedInv'
    BY StagedStep
  <1> QED
    BY <1>1, <1>2, AlwaysInv, PTL DEF Spec

(* An account that has been read is skipped, recorded or put in the queue, once
   the list is there. *)
LEMMA ReadGoesOn ==
  ASSUME IInv, StagedInv, NEW a \in Accounts, stage[a] = "read"
  PROVE  CanPrepare(a)
  <1>1. current[a] \in Settings /\ target[a].kind \in {"none", "set", "release", "abandon"}
    BY DEF IInv, TypeOK, Targets, Pending
  <1>2. target[a].kind # "none" /\ (target[a].kind = "abandon" => GivesUp(a))
    BY DEF StagedInv, GivesUp
  <1>3. CASE ~Ready(a)
    BY <1>3 DEF Ready, Decides, CanPrepare
  <1>4. CASE Ready(a)
    <2>1. target[a].kind \in {"set", "release"}
      BY <1>1, <1>2, <1>4 DEF Ready, Decides
    <2>2. CASE Refused(a) \/ DesiredValues(a) = Nothing \/ NoGrowth(a)
      BY <1>4, <2>1, <2>2 DEF CanPrepare
    <2>3. CASE ~Refused(a) /\ Grows(a) /\ (Uncertain(a) \/ BudgetFails(a))
      BY <1>4, <2>3 DEF CanPrepare
    <2>4. CASE ~Refused(a) /\ Grows(a) /\ ~Uncertain(a) /\ ~BudgetFails(a)
      <3>1. budget.read /\ ~budget.failed
        <4>1. NeedsBudget(a)
          BY <2>4 DEF Refused, NeedsBudget
        <4> QED
          BY <1>4, <2>4, <4>1 DEF Ready, BudgetFails
      <3>2. budget.snapshot[a] \in Settings
        BY <3>1 DEF IInv, TypeOK
      <3>3. Use(a) \in Nat
        <4>1. After(a) \in Settings
          BY <1>1, DesiredType, WithType DEF After, IInv
        <4>2. Active(After(a)) \in Nat /\ budget.snapshot[a].conc \in Nat
          BY <3>2, <4>1, ActiveType, ConcurrencyType
        <4> QED
          BY <4>2 DEF Use, Larger
      <3>4. Room(a) \in Nat
        <4>1. Reserved(a) \in [Accounts -> Nat]
          BY <1>1, ReservedType DEF IInv
        <4>2. Total(Reserved(a)) \in Nat /\ Reserved(a)[a] \in Nat /\ Limit \in Nat
          BY <4>1, TotalType, WriteAssumption
        <4> QED
          BY <4>2 DEF Room, Positive
      <3>5. Use(a) > Room(a) \/ Use(a) <= Room(a)
        BY <3>3, <3>4
      <3> QED
        BY <1>4, <2>1, <2>4, <3>5 DEF CanPrepare, Grows
    <2> QED
      BY <2>2, <2>3, <2>4 DEF Grows
  <1> QED
    BY <1>3, <1>4

(* No round is ever stuck, whatever has failed in it: as long as it is not over,
   one of its steps can be taken.  The batch never waits for an account that was
   skipped, refused or lost (the arrivals in prepareAccount, the done channel in
   Apply).  RoundsProceed says with ENABLED that the guards are right, too. *)
THEOREM RoundsGoOn == Spec => [](phase # "idle" => CanMove)
  <1>1. ASSUME CapInv, StagedInv, phase # "idle" PROVE CanMove
    <2>1. phase \in {"calculated", "preparing", "writing", "finishing"} /\ stage \in [Accounts -> Stages]
      BY <1>1 DEF CapInv, IInv, TypeOK
    <2>2. CASE phase \in {"calculated", "finishing"}
      BY <2>2 DEF CanMove
    <2>3. CASE phase = "preparing"
      <3>1. CASE Coming = {}
        BY <1>1, <2>3, <3>1, ComingFinite DEF CapInv, ArrivalInv, CanMove
      <3>2. ASSUME NEW a \in Coming PROVE CanMove
        <4>1. a \in Accounts /\ stage[a] \in {"todo", "read"}
          BY <3>2 DEF Coming
        <4>2. CanPrepare(a)
          BY <1>1, <4>1, ReadGoesOn DEF CapInv, CanPrepare
        <4> QED
          BY <4>1, <4>2 DEF CanMove
      <3> QED
        BY <3>1, <3>2
    <2>4. CASE phase = "writing"
      <3>1. \A a \in Accounts : stage[a] \in {"out", "done", "wrote"} \cup InFlight
        BY <1>1, <2>1, <2>4 DEF CapInv, ArrivalInv, Stages, Pending, InFlight
      <3> QED
        BY <2>4, <3>1 DEF CanMove, Pending, InFlight
    <2> QED
      BY <2>1, <2>2, <2>3, <2>4
  <1> QED
    BY <1>1, AlwaysCapInv, AlwaysStagedInv, PTL
-----------------------------------------------------------------------------
(* What is left of a round. *)
LEMMA LeftType == \A s : Left(s) \in Nat /\ Left(s) <= Left(s)
  <1> SUFFICES ASSUME NEW s PROVE Left(s) \in Nat
    OBVIOUS
  <1>1. CASE s \in Stages \ {"out", "done"}
    BY <1>1 DEF Left, Stages, Pending
  <1>2. CASE s \notin Stages \ {"out", "done"}
    <2>1. Left(s) = 0
      BY <1>2 DEF Left, Stages, Pending
    <2> QED
      BY <2>1
  <1> QED
    BY <1>1, <1>2

LEMMA PhaseType == PhasesLeft \in Nat /\ PhasesLeft' \in Nat
  BY DEF PhasesLeft

LEMMA NoMorePhase ==
  ASSUME \A a \in Accounts : Left(stage'[a]) <= Left(stage[a]), PhasesLeft' < PhasesLeft
  PROVE  Moves
  BY PhaseType DEF Moves

LEMMA OneLess ==
  ASSUME TypeOK, NEW a \in Accounts, NEW x \in Stages, Goes(a, x), Left(x) < Left(stage[a]),
         phase' = phase, budget'.read = budget.read
  PROVE  Moves
  <1>1. /\ stage'[a] = x /\ \A b \in Accounts : b # a => stage'[b] = stage[b]
    BY DEF TypeOK, Goes
  <1>2. PhasesLeft' = PhasesLeft
    BY DEF PhasesLeft
  <1>3. \A b \in Accounts : Left(stage'[b]) <= Left(stage[b])
    BY <1>1, LeftType
  <1> QED
    BY <1>1, <1>2, <1>3, PhaseType DEF Moves

LEMMA PrepareWork == ASSUME IInv, NEW a \in Accounts, Prepare(a) PROVE Moves
  <1>1. phase' = phase
    BY DEF Prepare, ReadAccount, AbandonControl, Wait, Refuse, Matches, Enqueue
  <1>2. budget'.read = budget.read
    <2>1. budget \in Budgets
      BY DEF IInv, TypeOK
    <2>2. budget' = budget \/ \E r : budget' = [budget EXCEPT !.reserved = r]
      BY DEF Prepare, ReadAccount, AbandonControl, Wait, Refuse, Matches, Enqueue
    <2> QED
      BY <2>1, <2>2 DEF Budgets
  <1>3. \E x \in {"read", "queued", "done"} : Goes(a, x) /\ Left(x) < Left(stage[a])
    <2>1. CASE ReadAccount(a)
      BY <2>1 DEF ReadAccount, Skip, Left
    <2>2. CASE AbandonControl(a) \/ Wait(a) \/ Refuse(a) \/ Matches(a) \/ Enqueue(a)
      BY <2>2 DEF AbandonControl, Wait, Refuse, Matches, Enqueue, Ready, Decides, Skip, Left
    <2> QED
      BY <2>1, <2>2 DEF Prepare
  <1> QED
    BY <1>1, <1>2, <1>3, OneLess DEF IInv, Stages, Pending

LEMMA WriteWork == ASSUME IInv, NEW a \in Accounts, Write(a) \/ Finish(a) PROVE Moves
  <1>1. phase' = phase /\ budget' = budget
    BY DEF Write, PutFields, ConfirmConcurrency, SwitchTraffic, ReadUnclear, ReadPartial, Finish, prepare
  <1>2. \E x \in {"confirm", "switch", "partial", "wrote", "done"} : Goes(a, x) /\ Left(x) < Left(stage[a])
    <2>1. CASE PutFields(a)
      BY <2>1 DEF PutFields, Left
    <2>2. CASE ConfirmConcurrency(a) \/ SwitchTraffic(a)
      BY <2>2 DEF ConfirmConcurrency, SwitchTraffic, Left
    <2>3. CASE ReadUnclear(a) \/ ReadPartial(a) \/ Finish(a)
      BY <2>3 DEF ReadUnclear, ReadPartial, Finish, Left
    <2> QED
      BY <2>1, <2>2, <2>3 DEF Write
  <1> QED
    BY <1>1, <1>2, OneLess DEF IInv, Stages, Pending

LEMMA BulkWork == ASSUME IInv, NEW d \in Fields, BulkWrite(d) PROVE Moves
  <1>1. phase' = phase /\ budget' = budget
    BY DEF BulkWrite, prepare
  <1>2. PhasesLeft' = PhasesLeft
    BY <1>1 DEF PhasesLeft
  <1>3. ASSUME NEW a \in Accounts
        PROVE  /\ stage[a] = "bulk" /\ desired[a] = d => stage'[a] \in {"unclear", "wrote", "fields", "switch"}
               /\ ~(stage[a] = "bulk" /\ desired[a] = d) => stage'[a] = stage[a]
    BY DEF BulkWrite, Alone
  <1>4. Left("bulk") = 6 /\ \A s \in {"unclear", "wrote", "fields", "switch"} : Left(s) < 6
    BY DEF Left
  <1>5. \A a \in Accounts : Left(stage'[a]) <= Left(stage[a])
    BY <1>3, <1>4, LeftType
  <1>6. PICK a \in Accounts : stage[a] = "bulk" /\ desired[a] = d
    BY DEF BulkWrite
  <1>7. Left(stage'[a]) < Left(stage[a])
    BY <1>3, <1>4, <1>6
  <1> QED
    BY <1>2, <1>5, <1>7, PhaseType DEF Moves

(* What moves the round as a whole. *)
LEMMA PhaseWork ==
  ASSUME IInv, ArrivalInv, LoadRemoteCapacity \/ Execute \/ VerifyWrites \/ EndRound
  PROVE  Moves
  <1>1. CASE LoadRemoteCapacity
    <2>1. PICK a \in Accounts : stage[a] = "read"
      BY <1>1 DEF LoadRemoteCapacity, Decides
    <2>2. phase = "preparing"
      BY <2>1 DEF ArrivalInv, IInv, TypeOK
    <2>3. budget'.read /\ ~budget.read
      <3>1. budget \in Budgets
        BY DEF IInv, TypeOK
      <3> QED
        BY <1>1, <3>1 DEF LoadRemoteCapacity, Budgets
    <2>4. PhasesLeft' < PhasesLeft
      BY <1>1, <2>2, <2>3 DEF LoadRemoteCapacity, PhasesLeft
    <2>5. \A b \in Accounts : Left(stage'[b]) <= Left(stage[b])
      BY <1>1, LeftType DEF LoadRemoteCapacity
    <2> QED
      BY <2>4, <2>5, NoMorePhase
  <1>2. CASE Execute
    <2>1. PhasesLeft' < PhasesLeft
      BY <1>2 DEF Execute, PhasesLeft
    <2>2. \A a \in Accounts : \/ stage[a] = "queued" /\ stage'[a] \in {"bulk", "fields", "switch", "wrote"}
                             \/ stage'[a] = stage[a]
      BY <1>2 DEF Execute, Queued, Alone
    <2>3. \A s \in {"bulk", "fields", "switch", "wrote"} : Left(s) <= Left("queued")
      BY DEF Left
    <2>4. \A a \in Accounts : Left(stage'[a]) <= Left(stage[a])
      BY <2>2, <2>3, LeftType
    <2> QED
      BY <2>1, <2>4, NoMorePhase
  <1>3. CASE VerifyWrites
    <2>1. stage' = stage /\ PhasesLeft' < PhasesLeft
      BY <1>3 DEF VerifyWrites, PhasesLeft
    <2>2. \A b \in Accounts : Left(stage'[b]) <= Left(stage[b])
      BY <2>1, LeftType
    <2> QED
      BY <2>1, <2>2, NoMorePhase
  <1>4. CASE EndRound
    <2>1. PhasesLeft' < PhasesLeft
      BY <1>4 DEF EndRound, Idle, PhasesLeft
    <2>2. \A a \in Accounts : Left(stage'[a]) = 0
      BY <1>4 DEF EndRound, Idle, Left
    <2>3. \A a \in Accounts : Left(stage'[a]) <= Left(stage[a])
      BY <2>2, LeftType
    <2> QED
      BY <2>1, <2>3, NoMorePhase
  <1> QED
    BY <1>1, <1>2, <1>3, <1>4

(* No step of a round is taken twice: for any number of accounts, each of its steps
   moves an account or the batch on and none back (guard.once, the fallbacks of
   batchWriteCoordinator.execute).  With RoundsGoOn, every round ends. *)
THEOREM RoundsRunOut == Spec => StepsOnce
  <1>1. CapInv /\ [Next]_vars => [phase # "calculated" /\ ~Moves => ~Round]_vars
    <2> SUFFICES ASSUME CapInv, Round, phase # "calculated" PROVE Moves
      OBVIOUS
    <2>1. ~Apply /\ ~ApplyRefused
      BY DEF Apply, ApplyRefused
    <2> QED
      BY <2>1, PrepareWork, WriteWork, BulkWork, PhaseWork DEF Round, CapInv
  <1> QED
    BY <1>1, AlwaysCapInv, PTL DEF Spec, StepsOnce
=============================================================================

-------------------------- MODULE OnboardingProofs --------------------------
(* Onboarding's safety properties hold for any numbers of intents, operations,
   keys and accounts.

   IInv says what makes a resumption safe: a row names what its operation has
   made, flags what it may have begun, and of the rest nothing exists or is on
   its way (ClearInv); what the attempt has in hand differs from the row only in
   the ID it has just learnt (RowSaved). *)
EXTENDS Onboarding, TLAPS

(* Nothing of the operation has been made, nor is it on its way. *)
Untouched(w, o) ==
    /\ \A x \in Of(w) : maker[x] # o
    /\ \A r \in creating : r.what = w => r.op # o

(* An operation makes one thing of a kind, and none is on its way once it has. *)
OnceInv ==
    /\ \A o \in Ops, w \in Stages : \A x, y \in Of(w) : maker[x] = o /\ maker[y] = o => x = y
    /\ \A r, s \in creating : r.what = s.what /\ r.op = s.op => r = s
    /\ \A r \in creating : \A x \in Of(r.what) : maker[x] # r.op

(* An account uses, or will use, the key of its operation. *)
UsesInv ==
    /\ \A x \in live : maker[x] # None
    /\ \A a \in Accounts : maker[a] # None => uses[a] \in Keys /\ maker[uses[a]] = maker[a]
    /\ \A r \in creating : r.what = "key" => r.key = None
    /\ \A r \in creating : r.what = "account" => r.key \in Keys /\ maker[r.key] = r.op

(* IDs in a row are of what the row's operation has made. *)
HasOwn(row) == \A w \in Stages : row.id[w] # None => maker[row.id[w]] = row.op

(* An account follows its key, and a flag its ID. *)
InOrder(row) ==
    /\ \A w \in row.unknown : row.id[w] = None
    /\ "account" \in row.unknown \/ row.id["account"] # None => row.id["key"] # None

RowsInv ==
    \A i \in Intents :
      /\ pending[i].op = None => pending[i] = NoRow
      /\ pending[i].op # None => pending[i].op \in begun
      /\ \A j \in Intents : pending[i].op # None /\ pending[j].op = pending[i].op => i = j
      /\ HasOwn(pending[i]) /\ InOrder(pending[i])

(* What a row neither names nor flags has not been begun. *)
ClearInv ==
    /\ \A i \in Intents, w \in Stages :
         pending[i].op # None /\ pending[i].id[w] = None /\ w \notin pending[i].unknown
           => Untouched(w, pending[i].op)
    /\ \A o \in Ops \ begun, w \in Stages : Untouched(w, o)

BoundInv ==
    /\ \A b \in bound : /\ b[1] \in known /\ maker[b[1]] # None
                        /\ maker[b[1]] = maker[b[2]] /\ uses[b[1]] = b[2]
    /\ \A a \in known : maker[a] # None

(* What the attempt has in hand, and how the pending row lags behind it. *)
RowInHand ==
    /\ attempt.intent \in Intents /\ attempt.row.op \in Ops
    /\ HasOwn(attempt.row)
    /\ attempt.stage = "account" => attempt.row.id["key"] # None
RowSaved ==
    /\ attempt.at \notin {"save", "failing"} => pending[attempt.intent] = attempt.row
    /\ attempt.at = "save" =>
         /\ attempt.row.id[attempt.stage] # None
         /\ pending[attempt.intent] = [attempt.row EXCEPT !.id[attempt.stage] = None]
    /\ attempt.at = "failing" =>
         /\ pending[attempt.intent] = NoRow
         /\ attempt.row.op \in begun /\ \A i \in Intents : pending[i].op # attempt.row.op
RowPlace ==
    /\ attempt.at = "reveal" => attempt.row.id["key"] # None
    /\ attempt.at = "announce" =>
         attempt.row.id[attempt.stage] = None /\ attempt.stage \notin attempt.row.unknown
    /\ attempt.at \in {"send", "sent", "refused", "find", "save"} => attempt.stage \in attempt.row.unknown
    /\ attempt.at \in {"send", "refused"} => Untouched(attempt.stage, attempt.row.op)
    /\ attempt.at \in {"commit", "failing"} =>
         attempt.stage = "account" /\ attempt.row.id["account"] # None /\ attempt.row.unknown = {}
AttemptInv == attempt.at # "idle" => RowInHand /\ RowSaved /\ RowPlace

(* The leases keep onboardings and cleanups apart. *)
CleanupInv == cleanup.at # "idle" => cleanup.key \in Keys /\ attempt.at = "idle"

DeletionInv ==
    /\ deletion.at # "idle" => deletion.account \in Accounts /\ maker[deletion.account] # None
    /\ deletion.key # None => maker[deletion.key] # None
    /\ deletion.at \in {"keyGone", "account", "accountSent", "gone"} => deletion.key \notin live
    /\ deletion.at = "gone" => deletion.account \notin live

SyncInv == \A a \in sync.listed : maker[a] # None

World == OnceInv /\ UsesInv /\ RowsInv /\ ClearInv /\ BoundInv /\ NothingForgotten
Actors == AttemptInv /\ CleanupInv /\ CleanupSpares /\ DeletionInv /\ SyncInv
IInv == TypeOK /\ World /\ Actors
-----------------------------------------------------------------------------
(* What the actions leave alone. *)
LEMMA WorldKept ==
  ASSUME World, UNCHANGED <<live, maker, uses, creating, pending, begun, known, bound, lost>>
  PROVE  World'
<1>1. OnceInv' /\ UsesInv' /\ BoundInv'
  BY DEF World, OnceInv, UsesInv, BoundInv
<1>2. RowsInv' /\ ClearInv'
  BY DEF World, RowsInv, HasOwn, InOrder, ClearInv, Untouched
<1>3. NothingForgotten'
  BY DEF World, NothingForgotten, Protected, Made
<1> QED BY <1>1, <1>2, <1>3 DEF World

(* The attempt does not depend on what others do locally, nor on deletions. *)
LEMMA AttemptKept ==
  ASSUME AttemptInv, UNCHANGED <<attempt, maker, creating, pending, begun>>
  PROVE  AttemptInv'
BY DEF AttemptInv, RowInHand, HasOwn, RowSaved, RowPlace, Untouched

(* Nor does the cleanup on anything but keys, accounts and creations. *)
LEMMA CleanupKept ==
  ASSUME CleanupInv /\ CleanupSpares, UNCHANGED <<cleanup, live, uses, creating, lost>>,
         attempt'.at = attempt.at
  PROVE  CleanupInv' /\ CleanupSpares'
BY DEF CleanupInv, CleanupSpares

(* Nor the deletion on anything but what exists. *)
LEMMA DeletionKept ==
  ASSUME DeletionInv, UNCHANGED <<deletion, maker, live>>
  PROVE  DeletionInv'
BY DEF DeletionInv

(* Nor the synchronisation: what was listed stays made. *)
LEMMA SyncKept ==
  ASSUME SyncInv, UNCHANGED <<sync, maker>>
  PROVE  SyncInv'
BY DEF SyncInv

(* Onboardings and cleanups need the same resource. *)
LEMMA LeasesExclude ==
  /\ Free(CleanupLease) => attempt.at = "idle"
  /\ Free(OnboardingLease) => cleanup.at = "idle"
BY DEF Free, Leased, CleanupLease, OnboardingLease

(* The actions of the deletion and the synchronisation that only move on. *)
LEMMA DeletionMoves ==
  ASSUME IInv, UNCHANGED <<remote, local, attempt, cleanup, sync, lost>>,
         (\E a \in Accounts : DeleteBegin(a)) \/ KeyReadBack \/ KeyReconciled \/ AccountReadBack \/ DeletionEnds
  PROVE  IInv'
<1>1. TypeOK'
  BY OnboardingAssumption DEF IInv, TypeOK, DeleteBegin, KeyReadBack, KeyReconciled, AccountReadBack, DeletionEnds,
     DeletionGoesTo, NoDeletion, remote, local
<1>2. World' /\ AttemptInv' /\ CleanupInv' /\ CleanupSpares' /\ SyncInv'
  BY WorldKept, AttemptKept, CleanupKept, SyncKept DEF IInv, Actors, remote, local
<1>3. DeletionInv'
  <2> USE DEF DeletionInv, IInv, Actors, TypeOK, remote, local
  <2>1. CASE \E a \in Accounts : DeleteBegin(a)
    <3> PICK a \in Accounts : DeleteBegin(a)
      BY <2>1
    <3>1. a \in known /\ maker[a] # None
      BY DEF DeleteBegin, World, BoundInv
    <3>2. CASE deletion'.key = None
      BY <3>1, <3>2, OnboardingAssumption DEF DeleteBegin, Things
    <3>3. CASE deletion'.key # None
      <4> PICK k \in Keys : Exclusive(a, k) /\ deletion' = [at |-> "key", account |-> a, key |-> k]
        BY <3>3 DEF DeleteBegin
      <4>1. <<a, k>> \in bound
        BY DEF Exclusive
      <4>2. maker[k] # None
        BY <4>1, <3>1 DEF World, BoundInv
      <4> QED BY <4>2, <3>1
    <3> QED BY <3>2, <3>3
  <2>2. CASE KeyReadBack
    BY <2>2 DEF KeyReadBack, DeletionGoesTo
  <2>3. CASE KeyReconciled
    BY <2>3 DEF KeyReconciled, DeletionGoesTo
  <2>4. CASE AccountReadBack
    BY <2>4 DEF AccountReadBack, DeletionGoesTo
  <2>5. CASE DeletionEnds
    BY <2>5, OnboardingAssumption DEF DeletionEnds, NoDeletion
  <2> QED BY <2>1, <2>2, <2>3, <2>4, <2>5
<1> QED BY <1>1, <1>2, <1>3 DEF IInv, Actors

(* What the synchronisation lists exists, so that something has made it. *)
LEMMA SyncMoves ==
  ASSUME IInv, UNCHANGED <<remote, local, attempt, cleanup, deletion, lost>>,
         SyncDiscover \/ SyncLock \/ SyncRead \/ SyncConfirm \/ SyncEnds
  PROVE  IInv'
<1> USE DEF IInv, TypeOK, remote, local
<1>1. TypeOK'
  <2>1. CASE SyncDiscover
    BY <2>1 DEF SyncDiscover
  <2>2. CASE SyncLock
    BY <2>2 DEF SyncLock
  <2>3. CASE SyncRead
    BY <2>3 DEF SyncRead
  <2>4. CASE SyncConfirm
    BY <2>4 DEF SyncConfirm
  <2>5. CASE SyncEnds
    BY <2>5 DEF SyncEnds, NoSync
  <2> QED BY <2>1, <2>2, <2>3, <2>4, <2>5
<1>2. World' /\ AttemptInv' /\ CleanupInv' /\ CleanupSpares' /\ DeletionInv'
  BY WorldKept, AttemptKept, CleanupKept, DeletionKept DEF IInv, Actors, remote, local
<1>3. SyncInv'
  <2>1. CASE SyncRead
    BY <2>1 DEF Actors, SyncInv, World, UsesInv, SyncRead
  <2>2. CASE SyncDiscover \/ SyncEnds
    BY <2>2 DEF SyncInv, SyncDiscover, SyncEnds, NoSync
  <2>3. CASE SyncLock \/ SyncConfirm
    BY <2>3 DEF Actors, SyncInv, SyncLock, SyncConfirm
  <2> QED BY <2>1, <2>2, <2>3
<1> QED BY <1>1, <1>2, <1>3 DEF IInv, Actors

(* A key neither bound nor in a row is that of no account that is alive or on its
   way: the row would name it before the account is begun. *)
LEMMA CleanupMoves ==
  ASSUME IInv, UNCHANGED <<remote, local, attempt, deletion, sync, lost>>,
         NEW k \in Keys, CleanupBegin(k) \/ CleanupConfirm \/ CleanupEnd
  PROVE  IInv'
<1>1. TypeOK'
  BY DEF IInv, TypeOK, CleanupBegin, CleanupConfirm, CleanupEnd, NoCleanup, remote, local
<1>2. World' /\ AttemptInv' /\ DeletionInv' /\ SyncInv'
  BY WorldKept, AttemptKept, DeletionKept, SyncKept DEF IInv, Actors, remote, local
<1>3. CleanupInv'
  <2>1. CASE CleanupBegin(k)
    <3>1. attempt.at = "idle"
      BY <2>1, LeasesExclude DEF CleanupBegin
    <3> QED BY <2>1, <3>1 DEF CleanupInv, CleanupBegin
  <2>2. CASE CleanupConfirm
    BY <2>2 DEF IInv, Actors, TypeOK, CleanupInv, CleanupConfirm
  <2>3. CASE CleanupEnd
    BY <2>3 DEF CleanupInv, CleanupEnd, NoCleanup
  <2> QED BY <2>1, <2>2, <2>3
<1>4. CleanupSpares'
  <2>1. CASE CleanupBegin(k) \/ CleanupEnd
    BY <2>1 DEF CleanupSpares, CleanupBegin, CleanupEnd, NoCleanup
  <2>2. CASE CleanupConfirm
    <3> DEFINE key == cleanup.key
    <3>1. key \in Keys /\ key \notin Protected /\ key # None
      BY <2>2, OnboardingAssumption DEF IInv, Actors, CleanupInv, CleanupConfirm
    <3>2. ASSUME NEW a \in (Accounts \cap live) \ lost, uses[a] = key
          PROVE  FALSE
      <4>1. maker[a] # None /\ maker[a] \in Ops /\ maker[key] = maker[a]
        BY <3>2 DEF IInv, World, UsesInv, TypeOK, Things
      <4>2. CASE \E b \in bound : b[1] = a
        BY <3>1, <3>2, <4>2 DEF IInv, World, BoundInv, Protected
      <4>3. ASSUME NEW i \in Intents, pending[i].op = maker[a],
                   pending[i].id["account"] = a \/ "account" \in pending[i].unknown
            PROVE  FALSE
        <5>1. pending[i].id["key"] # None
          BY <4>3, OnboardingAssumption DEF IInv, World, RowsInv, InOrder
        <5>2. pending[i].id["key"] \in Keys /\ maker[pending[i].id["key"]] = maker[a]
          BY <5>1, <4>3 DEF IInv, World, RowsInv, HasOwn, TypeOK, Rows, Ids, Of, Stages
        <5>3. pending[i].id["key"] = key
          BY <5>2, <4>1, <3>1 DEF IInv, World, OnceInv, Of, Stages
        <5> QED BY <5>3, <3>1 DEF Protected
      <4> QED BY <4>2, <4>3, <3>2 DEF IInv, World, NothingForgotten
    <3>3. ASSUME NEW r \in creating, r.key = key
          PROVE  FALSE
      <4>1. r.what = "account" /\ maker[key] = r.op /\ r.op \in Ops
        BY <3>1, <3>3 DEF IInv, World, UsesInv, TypeOK, Requests, Stages
      <4>2. PICK i \in Intents : pending[i].op = r.op /\ "account" \in pending[i].unknown
        BY <4>1 DEF IInv, World, NothingForgotten
      <4>3. pending[i].id["key"] # None
        BY <4>2 DEF IInv, World, RowsInv, InOrder
      <4>4. pending[i].id["key"] \in Keys /\ maker[pending[i].id["key"]] = r.op
        BY <4>2, <4>3 DEF IInv, World, RowsInv, HasOwn, TypeOK, Rows, Ids, Of, Stages
      <4>5. pending[i].id["key"] = key
        BY <4>1, <4>4, <3>1 DEF IInv, World, OnceInv, Of, Stages
      <4> QED BY <4>5, <3>1 DEF Protected
    <3>4. cleanup'.key = key /\ creating' = creating /\ live' = live /\ lost' = lost /\ uses' = uses
      BY <2>2 DEF CleanupConfirm, IInv, TypeOK, remote
    <3> QED BY <3>2, <3>3, <3>4 DEF CleanupSpares
  <2> QED BY <2>1, <2>2
<1> QED BY <1>1, <1>2, <1>3, <1>4 DEF IInv, Actors

(* The attempt goes on without a change to anything else. *)
LEMMA AttemptMoves ==
  ASSUME IInv, UNCHANGED <<remote, local, cleanup, deletion, sync, lost>>,
         CleanupInv' , TypeOK', AttemptInv'
  PROVE  IInv'
BY WorldKept, DeletionKept, SyncKept DEF IInv, Actors, remote, local, CleanupSpares

(* An onboarding resumes a row where the row says it ended. *)
LEMMA BeginAgain ==
  ASSUME IInv, NEW i \in Intents, attempt.at = "idle", Free(OnboardingLease),
         pending[i] # NoRow, Starts(i, pending[i]),
         UNCHANGED <<remote, local, cleanup, deletion, sync, lost>>
  PROVE  IInv'
<1> DEFINE row == pending[i]
<1>1. row \in Rows /\ row.op \in begun /\ row.op \in Ops /\ HasOwn(row) /\ InOrder(row)
  BY OnboardingAssumption DEF IInv, TypeOK, World, RowsInv
<1>2. attempt' = [at |-> KeyPhase(row), stage |-> "key", intent |-> i, row |-> row]
  BY DEF Starts
<1>3. TypeOK'
  BY <1>1, <1>2 DEF IInv, TypeOK, KeyPhase, remote, local, Stages
<1>4. CleanupInv'
  BY LeasesExclude DEF CleanupInv
<1>5. AttemptInv'
  <2>1. RowInHand'
    BY <1>1, <1>2 DEF RowInHand, HasOwn, remote
  <2>2. RowSaved'
    BY <1>2 DEF RowSaved, KeyPhase, local
  <2>3. RowPlace'
    <3>1. row.id["key"] = None /\ "key" \notin row.unknown => Untouched("key", row.op)
      BY <1>1, OnboardingAssumption DEF IInv, World, ClearInv, Stages
    <3> QED BY <1>2, <3>1 DEF RowPlace, KeyPhase
  <2> QED BY <2>1, <2>2, <2>3 DEF AttemptInv
<1> QED BY <1>3, <1>4, <1>5, AttemptMoves

(* What an active attempt has in hand. *)
LEMMA InHand ==
  ASSUME IInv, attempt.at # "idle"
  PROVE  /\ RowInHand /\ RowSaved /\ RowPlace
         /\ cleanup.at = "idle"
         /\ attempt.intent \in Intents /\ attempt.row \in Rows /\ attempt.stage \in Stages
         /\ attempt.row.op \in Ops /\ attempt.row.op # None
         /\ attempt.row = [op |-> attempt.row.op, id |-> attempt.row.id, unknown |-> attempt.row.unknown]
         /\ attempt.row.id \in Ids /\ attempt.row.unknown \in SUBSET Stages
         /\ attempt = [at |-> attempt.at, stage |-> attempt.stage,
                       intent |-> attempt.intent, row |-> attempt.row]
<1>1. RowInHand /\ RowSaved /\ RowPlace /\ cleanup.at = "idle"
  BY DEF IInv, Actors, AttemptInv, CleanupInv
<1>2. attempt.row \in Rows /\ attempt.stage \in Stages
      /\ attempt = [at |-> attempt.at, stage |-> attempt.stage, intent |-> attempt.intent, row |-> attempt.row]
  BY DEF IInv, TypeOK
<1>3. attempt.intent \in Intents /\ attempt.row.op \in Ops /\ attempt.row.op # None
  BY <1>1, OnboardingAssumption DEF RowInHand
<1> QED BY <1>1, <1>2, <1>3 DEF Rows

(* An onboarding may be given up at any point. *)
LEMMA IdleAgain ==
  ASSUME IInv, attempt' = Idle, UNCHANGED <<remote, local, cleanup, deletion, sync, lost>>
  PROVE  IInv'
<1>1. TypeOK'
  BY DEF IInv, TypeOK, Idle, NoRow, Rows, Ids, Stages, remote, local
<1>2. CleanupInv' /\ AttemptInv'
  BY DEF IInv, Actors, CleanupInv, AttemptInv, Idle
<1> QED BY <1>1, <1>2, AttemptMoves

(* The actions that only change the attempt's place, with its row as it is. *)
LEMMA PlaceMoves ==
  ASSUME IInv, Reveal \/ Unclear
  PROVE  IInv'
<1>1. attempt.at \in {"reveal", "sent"} /\ UNCHANGED <<remote, local, cleanup, deletion, sync, lost>>
  BY DEF Reveal, Unclear
<1> USE InHand, <1>1
<1>2. TypeOK'
  <2>1. AccountPhase(attempt.row) \in {"commit", "find", "announce"}
    BY DEF AccountPhase
  <2>2. \E at \in {"commit", "find", "announce"}, w \in Stages :
           attempt' = [at |-> at, stage |-> w, intent |-> attempt.intent, row |-> attempt.row]
    BY <2>1 DEF Reveal, Unclear, GoesTo, Stages
  <2> QED BY <2>2 DEF IInv, TypeOK, remote, local
<1>3. CleanupInv'
  BY DEF CleanupInv
<1>4. attempt'.row = attempt.row /\ attempt'.intent = attempt.intent
  BY DEF Reveal, Unclear, GoesTo
<1>5. CASE Unclear
  <2>1. attempt'.at = "find" /\ attempt'.stage = attempt.stage
    BY <1>5 DEF Unclear, GoesTo
  <2>2. RowInHand'
    BY <1>4, <2>1 DEF RowInHand, HasOwn, remote
  <2>3. RowSaved'
    BY <1>4, <2>1 DEF RowSaved, local
  <2>4. attempt.stage \in attempt.row.unknown
    BY <1>5 DEF RowPlace, Unclear
  <2>5. RowPlace'
    BY <1>4, <2>1, <2>4 DEF RowPlace
  <2> QED BY <1>2, <1>3, <2>2, <2>3, <2>5, AttemptMoves DEF AttemptInv
<1>6. CASE Reveal
  <2>1. attempt'.at = AccountPhase(attempt.row) /\ attempt'.stage = "account" /\ attempt.at = "reveal"
    BY <1>6 DEF Reveal
  <2>2. attempt.row.id["key"] # None /\ pending[attempt.intent] = attempt.row
    BY <2>1 DEF RowPlace, RowSaved
  <2>3. InOrder(attempt.row)
    BY <2>2 DEF IInv, World, RowsInv
  <2>4. attempt.row.unknown \subseteq Stages /\ Stages = {"key", "account"}
    BY DEF Rows, Stages
  <2>5. RowPlace'
    BY <2>1, <2>2, <2>3, <2>4, <1>4 DEF RowPlace, AccountPhase, InOrder
  <2>6. RowInHand' /\ RowSaved'
    BY <2>1, <2>2, <1>4 DEF RowInHand, RowSaved, HasOwn, AccountPhase, remote, local
  <2> QED BY <1>2, <1>3, <2>5, <2>6, AttemptMoves DEF AttemptInv
<1> QED BY <1>5, <1>6

(* The attempt learns the ID of what its operation has made. *)
LEMMA Learning ==
  ASSUME IInv, NEW x \in Things, Answered(x) \/ Find(x)
  PROVE  IInv'
<1>1. attempt.at \in {"sent", "find"} /\ UNCHANGED <<remote, local, cleanup, deletion, sync, lost>>
  BY DEF Answered, Find
<1> USE InHand, <1>1
<1> DEFINE w == attempt.stage
           row == attempt.row
<1>2. x \in Of(w) /\ maker[x] = row.op /\ Learns(x)
  BY DEF Answered, Find, Made
<1>3. w \in row.unknown /\ pending[attempt.intent] = row
  BY DEF RowPlace, RowSaved
<1>4. row.id[w] = None /\ row.id \in Ids /\ x # None
  BY <1>2, <1>3, OnboardingAssumption DEF IInv, World, RowsInv, InOrder, Rows, Things
<1>5. /\ attempt'.at = "save" /\ attempt'.stage = w /\ attempt'.intent = attempt.intent
      /\ attempt'.row = [row EXCEPT !.id[w] = x]
      /\ attempt' \in [at : {"save"}, stage : Stages, intent : Intents, row : {attempt'.row}]
  BY <1>2 DEF Learns
<1>6. attempt'.row \in Rows /\ attempt'.row.id = [row.id EXCEPT ![w] = x]
  BY <1>2, <1>4, <1>5 DEF Rows, Ids, Of
<1>7. TypeOK'
  BY <1>5, <1>6 DEF IInv, TypeOK, remote, local
<1>8. CleanupInv'
  BY DEF CleanupInv
<1>9. RowInHand'
  BY <1>2, <1>4, <1>5, <1>6 DEF RowInHand, HasOwn, Rows, Ids, remote
<1>10. RowSaved'
  <2>1. [[row.id EXCEPT ![w] = x] EXCEPT ![w] = None] = row.id /\ [row.id EXCEPT ![w] = x][w] = x
    BY <1>4 DEF Ids
  <2>2. row = [op |-> row.op, id |-> row.id, unknown |-> row.unknown]
    BY DEF Rows
  <2>3. attempt'.row = [op |-> row.op, id |-> [row.id EXCEPT ![w] = x], unknown |-> row.unknown]
    BY <1>5, <2>2
  <2>4. attempt'.row.id[w] = x /\ [attempt'.row EXCEPT !.id[w] = None] = row
    BY <2>1, <2>2, <2>3
  <2> QED BY <1>4, <1>3, <1>5, <2>4 DEF RowSaved, local
<1>11. RowPlace'
  BY <1>3, <1>5 DEF RowPlace, Rows
<1> QED BY <1>7, <1>8, <1>9, <1>10, <1>11, AttemptMoves DEF AttemptInv
-----------------------------------------------------------------------------
(* A pending row is written: whatever its operation has made or begun, it
   names or flags. *)
Covers(row) == \A w \in Stages : row.id[w] = None /\ w \notin row.unknown => Untouched(w, row.op)
Writes(i, row) ==
    /\ pending' = [pending EXCEPT ![i] = row] /\ begun' = begun \cup {row.op}
    /\ UNCHANGED <<remote, known, bound, lost>>
    /\ row.op \in Ops /\ pending[i].op \in {None, row.op}
    /\ \A j \in Intents \ {i} : pending[j].op # row.op
    /\ HasOwn(row) /\ InOrder(row) /\ Covers(row)

LEMMA RowWritten ==
  ASSUME IInv, NEW i \in Intents, NEW row \in Rows, Writes(i, row)
  PROVE  World' /\ pending' \in [Intents -> Rows]
<1> USE DEF IInv, World, TypeOK, Writes, Covers
<1>1. OnceInv' /\ UsesInv' /\ BoundInv'
  BY DEF OnceInv, UsesInv, BoundInv, remote
<1>2. pending' \in [Intents -> Rows] /\ pending'[i] = row /\ \A j \in Intents \ {i} : pending'[j] = pending[j]
  OBVIOUS
<1>3. row.op # None /\ row.op \in begun'
  BY OnboardingAssumption
<1>4. RowsInv'
  <2> SUFFICES ASSUME NEW j \in Intents
               PROVE  /\ pending'[j].op = None => pending'[j] = NoRow
                      /\ pending'[j].op # None => pending'[j].op \in begun'
                      /\ \A k \in Intents : pending'[j].op # None /\ pending'[k].op = pending'[j].op => j = k
                      /\ HasOwn(pending[j])' /\ InOrder(pending'[j])
    BY DEF RowsInv, InOrder
  <2>1. HasOwn(pending'[j]) /\ InOrder(pending'[j])
    BY <1>2 DEF RowsInv
  <2>2. HasOwn(pending[j])'
    BY <2>1 DEF HasOwn, remote
  <2> QED BY <1>2, <1>3, <2>1, <2>2 DEF RowsInv
<1>5. ClearInv'
  <2>1. ASSUME NEW j \in Intents, NEW w \in Stages,
               pending'[j].op # None, pending'[j].id[w] = None, w \notin pending'[j].unknown
        PROVE  Untouched(w, pending'[j].op)
    BY <1>2, <2>1 DEF ClearInv
  <2>2. \A o \in Ops \ begun', w \in Stages : Untouched(w, o)
    BY DEF ClearInv
  <2>3. maker' = maker /\ creating' = creating
    BY DEF remote
  <2> QED BY <2>1, <2>2, <2>3 DEF ClearInv, Untouched
<1>6. ASSUME NEW w \in Stages, NEW x \in Of(w), maker[x] = row.op
      PROVE  row.id[w] = x \/ w \in row.unknown
  <2>1. row.id[w] \in Of(w) \cup {None}
    BY DEF Rows, Ids
  <2> QED BY <1>6, <2>1 DEF Untouched, HasOwn, OnceInv
<1>7. NothingForgotten'
  <2>1. ASSUME NEW r \in creating
        PROVE  \E j \in Intents : pending'[j].op = r.op /\ r.what \in pending'[j].unknown
    <3>1. PICK j \in Intents : pending[j].op = r.op /\ r.what \in pending[j].unknown
      BY DEF NothingForgotten
    <3>2. r.what \in Stages /\ r.op \in Ops
      BY DEF Requests
    <3>3. CASE j # i
      BY <1>2, <3>1, <3>3
    <3>4. CASE j = i
      <4>1. r.op = row.op
        BY <3>1, <3>2, <3>4, OnboardingAssumption
      <4>2. ~Untouched(r.what, row.op)
        BY <4>1 DEF Untouched
      <4>3. row.id[r.what] = None
        <5> SUFFICES ASSUME row.id[r.what] # None PROVE FALSE
          OBVIOUS
        <5>1. row.id[r.what] \in Of(r.what) /\ maker[row.id[r.what]] = r.op
          BY <3>2, <4>1 DEF HasOwn, Rows, Ids
        <5> QED BY <5>1 DEF OnceInv
      <4> QED BY <1>2, <3>2, <4>1, <4>2, <4>3
    <3> QED BY <3>3, <3>4
  <2>2. ASSUME NEW k \in Keys \cap live
        PROVE  \/ k \in Protected'
               \/ \E j \in Intents : pending'[j].op = maker[k] /\ "key" \in pending'[j].unknown
               \/ \E a \in Made("account", maker[k]) : a \notin live \/ a \in lost
    <3>1. k # None /\ maker[k] # None
      BY OnboardingAssumption DEF UsesInv
    <3>2. CASE maker[k] = row.op
      <4>1. row.id["key"] = k \/ "key" \in row.unknown
        BY <1>6, <3>2 DEF Of, Stages
      <4> QED BY <1>2, <3>2, <4>1 DEF Protected
    <3>3. CASE maker[k] # row.op
      <4>1. pending[i].id["key"] # k
        <5>1. pending[i].op = None => pending[i] = NoRow
          BY DEF RowsInv
        <5>2. pending[i].id["key"] # None => maker[pending[i].id["key"]] = pending[i].op
          BY DEF RowsInv, HasOwn, Stages
        <5> QED BY <3>1, <3>3, <5>1, <5>2
      <4>2. k \in Protected => k \in Protected'
        BY <1>2, <4>1 DEF Protected
      <4>3. ASSUME NEW j \in Intents, pending[j].op = maker[k], "key" \in pending[j].unknown
            PROVE  pending'[j] = pending[j]
        BY <1>2, <3>1, <3>3, <4>3
      <4> QED BY <4>2, <4>3 DEF NothingForgotten
    <3> QED BY <3>2, <3>3
  <2>3. ASSUME NEW a \in (Accounts \cap live) \ lost
        PROVE  \/ \E b \in bound : b[1] = a
               \/ \E j \in Intents :
                    /\ pending'[j].op = maker[a]
                    /\ pending'[j].id["account"] = a \/ "account" \in pending'[j].unknown
    <3>1. maker[a] # None
      BY DEF UsesInv
    <3>2. CASE maker[a] = row.op
      <4>1. row.id["account"] = a \/ "account" \in row.unknown
        BY <1>6, <3>2 DEF Of, Stages
      <4> QED BY <1>2, <3>2, <4>1
    <3>3. CASE maker[a] # row.op
      <4>1. ASSUME NEW j \in Intents, pending[j].op = maker[a]
            PROVE  pending'[j] = pending[j]
        BY <1>2, <3>1, <3>3, <4>1
      <4> QED BY <4>1 DEF NothingForgotten
    <3> QED BY <3>2, <3>3
  <2>4. maker' = maker /\ creating' = creating /\ live' = live /\ lost' = lost /\ bound' = bound
    BY DEF remote
  <2> HIDE DEF IInv, World, TypeOK
  <2>5. \A o : Made("account", o)' = Made("account", o)
    BY <2>4 DEF Made
  <2> QED BY <2>1, <2>2, <2>3, <2>4, <2>5 DEF NothingForgotten
<1> QED BY <1>1, <1>2, <1>4, <1>5, <1>7

(* The row of the onboarding at work is written. *)
(* What is left to show of an action that writes the row of the attempt. *)
LEMMA AttemptWrites ==
  ASSUME IInv, World', pending' \in [Intents -> Rows], begun' \subseteq Ops,
         known' \subseteq Accounts, bound' \subseteq Accounts \X Keys, cleanup.at = "idle",
         UNCHANGED <<remote, cleanup, deletion, sync, lost>>,
         attempt' \in [at : {"idle", "reveal", "announce", "send", "sent", "refused", "find",
                             "save", "commit", "failing"},
                       stage : Stages, intent : Intents \cup {None}, row : Rows],
         AttemptInv'
  PROVE  IInv'
<1>1. TypeOK'
  BY DEF IInv, TypeOK, remote
<1>2. CleanupInv' /\ CleanupSpares'
  BY DEF CleanupInv, CleanupSpares
<1> QED BY <1>1, <1>2, DeletionKept, SyncKept DEF IInv, Actors, remote

(* The absence of a row is a row that names nothing. *)
LEMMA NoRowFacts ==
  NoRow \in Rows /\ HasOwn(NoRow) /\ InOrder(NoRow) /\ Idle.row = NoRow /\ Idle.at = "idle"
  /\ Idle \in [at : {"idle"}, stage : Stages, intent : {None}, row : {NoRow}]
BY DEF NoRow, Rows, Ids, HasOwn, InOrder, Idle, Stages

(* A new operation starts with nothing made. *)
LEMMA BeginNew ==
  ASSUME IInv, NEW i \in Intents, NEW o \in Ops \ begun,
         attempt.at = "idle", Free(OnboardingLease), pending[i] = NoRow,
         Starts(i, [NoRow EXCEPT !.op = o]),
         pending' = [pending EXCEPT ![i] = [NoRow EXCEPT !.op = o]],
         begun' = begun \cup {o},
         UNCHANGED <<remote, known, bound, cleanup, deletion, sync, lost>>
  PROVE  IInv'
<1> DEFINE row == [NoRow EXCEPT !.op = o]
<1>1. row = [op |-> o, id |-> [w \in Stages |-> None], unknown |-> {}] /\ NoRow.op = None
  BY DEF NoRow
<1>2. row \in Rows /\ HasOwn(row) /\ InOrder(row) /\ row.op = o /\ \A w \in Stages : row.id[w] = None
  BY <1>1 DEF Rows, Ids, HasOwn, InOrder, Stages
<1>3. \A w \in Stages : Untouched(w, o)
  BY DEF IInv, World, ClearInv
<1>4. \A j \in Intents : pending[j].op # o
  BY OnboardingAssumption DEF IInv, World, RowsInv
<1>5. World' /\ pending' \in [Intents -> Rows]
  <2>1. Writes(i, row)
    BY <1>2, <1>3, <1>4, <1>1 DEF Writes, Covers
  <2> HIDE DEF row
  <2> QED BY <1>2, <2>1, RowWritten
<1>6. attempt' = [at |-> "announce", stage |-> "key", intent |-> i, row |-> row]
  BY <1>1 DEF Starts, KeyPhase, Stages
<1>7. AttemptInv'
  <2>1. RowInHand'
    BY <1>2, <1>6 DEF RowInHand, HasOwn, remote
  <2>2. pending'[i] = row
    BY DEF IInv, TypeOK
  <2>3. RowSaved'
    BY <1>6, <2>2 DEF RowSaved
  <2>4. RowPlace'
    BY <1>1, <1>6 DEF RowPlace, Stages
  <2> QED BY <2>1, <2>3, <2>4 DEF AttemptInv
<1>8. begun' \subseteq Ops /\ known' \subseteq Accounts /\ bound' \subseteq Accounts \X Keys
  BY DEF IInv, TypeOK
<1>9. cleanup.at = "idle"
  BY LeasesExclude
<1> QED BY <1>2, <1>5, <1>6, <1>7, <1>8, <1>9, AttemptWrites DEF Stages

(* What is about to be begun is flagged. *)
LEMMA Announcing ==
  ASSUME IInv, Announce
  PROVE  IInv'
<1> DEFINE w == attempt.stage
           i == attempt.intent
           row == [op |-> attempt.row.op, id |-> attempt.row.id, unknown |-> attempt.row.unknown \cup {w}]
<1>1. attempt.at = "announce" /\ UNCHANGED <<remote, begun, known, bound, cleanup, deletion, sync, lost>>
  BY DEF Announce
<1> USE InHand, <1>1
<1>2. Flagged = row /\ pending' = [pending EXCEPT ![i] = row]
  <2>1. Flagged = row
    BY DEF Flagged
  <2> QED BY <2>1 DEF Announce, Saves
<1>3. attempt' = [at |-> "send", stage |-> w, intent |-> i, row |-> row]
  BY <1>2 DEF Announce
<1>4. pending[i] = attempt.row /\ attempt.row.id[w] = None /\ w \notin attempt.row.unknown
  BY DEF RowSaved, RowPlace
<1>5. InOrder(attempt.row) /\ HasOwn(attempt.row) /\ attempt.row.op \in begun
      /\ \A j \in Intents \ {i} : pending[j].op # attempt.row.op
  BY <1>4 DEF IInv, World, RowsInv
<1>6. row \in Rows
  BY DEF Rows
<1>7. HasOwn(row) /\ InOrder(row)
  BY <1>4, <1>5 DEF HasOwn, InOrder, RowInHand, Stages
<1>8. \A v \in Stages : attempt.row.id[v] = None /\ v \notin attempt.row.unknown
                           => Untouched(v, attempt.row.op)
  BY <1>4 DEF IInv, World, ClearInv
<1>9. World' /\ pending' \in [Intents -> Rows]
  <2>1. row.op = attempt.row.op /\ begun' = begun \cup {row.op}
    BY <1>5
  <2>2. Covers(row)
    BY <1>8 DEF Covers
  <2> HIDE DEF row
  <2>3. Writes(i, row)
    BY <1>2, <1>4, <1>5, <1>7, <2>1, <2>2 DEF Writes
  <2> QED BY <1>6, <2>3, RowWritten
<1>10. AttemptInv'
  <2>1. RowInHand'
    BY <1>3, <1>7 DEF RowInHand, HasOwn, remote
  <2>2. RowSaved'
    BY <1>2, <1>3, <1>9 DEF RowSaved, IInv, TypeOK
  <2>3. Untouched(w, attempt.row.op)
    BY <1>4, <1>8
  <2>4. RowPlace'
    BY <1>3, <2>3 DEF RowPlace, Untouched, remote
  <2> QED BY <2>1, <2>2, <2>4 DEF AttemptInv
<1>11. begun' \subseteq Ops /\ known' \subseteq Accounts /\ bound' \subseteq Accounts \X Keys
  BY DEF IInv, TypeOK
<1> QED BY <1>3, <1>6, <1>9, <1>10, <1>11, AttemptWrites

(* A refused creation is not flagged any more: nothing came of it. *)
LEMMA SavingRefused ==
  ASSUME IInv, SaveRefused
  PROVE  IInv'
<1> DEFINE w == attempt.stage
           i == attempt.intent
           row == [op |-> attempt.row.op, id |-> attempt.row.id, unknown |-> attempt.row.unknown \ {w}]
<1>1. /\ attempt.at = "refused" /\ attempt' = Idle
      /\ UNCHANGED <<remote, begun, known, bound, cleanup, deletion, sync, lost>>
  BY DEF SaveRefused
<1> USE InHand, <1>1
<1>2. pending' = [pending EXCEPT ![i] = row]
  <2>1. Unflagged = row
    BY DEF Unflagged
  <2> QED BY <2>1 DEF SaveRefused, Saves
<1>3. pending[i] = attempt.row /\ w \in attempt.row.unknown /\ Untouched(w, attempt.row.op)
  BY DEF RowSaved, RowPlace
<1>4. InOrder(attempt.row) /\ HasOwn(attempt.row) /\ attempt.row.op \in begun
      /\ \A j \in Intents \ {i} : pending[j].op # attempt.row.op
  BY <1>3 DEF IInv, World, RowsInv
<1>5. row \in Rows
  BY DEF Rows
<1>6. HasOwn(row) /\ InOrder(row)
  BY <1>4 DEF HasOwn, InOrder
<1>7. \A v \in Stages : attempt.row.id[v] = None /\ v \notin attempt.row.unknown
                           => Untouched(v, attempt.row.op)
  BY <1>3 DEF IInv, World, ClearInv
<1>8. World' /\ pending' \in [Intents -> Rows]
  <2>1. row.op = attempt.row.op /\ begun' = begun \cup {row.op}
    BY <1>4
  <2>2. Covers(row)
    BY <1>3, <1>7 DEF Covers
  <2> HIDE DEF row
  <2>3. Writes(i, row)
    BY <1>2, <1>3, <1>4, <1>6, <2>1, <2>2 DEF Writes
  <2> QED BY <1>5, <2>3, RowWritten
<1>9. AttemptInv'
  BY NoRowFacts DEF AttemptInv
<1>10. begun' \subseteq Ops /\ known' \subseteq Accounts /\ bound' \subseteq Accounts \X Keys
  BY DEF IInv, TypeOK
<1> QED BY <1>8, <1>9, <1>10, NoRowFacts, AttemptWrites

(* The ID takes the place of the flag. *)
LEMMA SavingFound ==
  ASSUME IInv, SaveFound
  PROVE  IInv'
<1> DEFINE w == attempt.stage
           i == attempt.intent
           old == attempt.row
           row == [op |-> old.op, id |-> old.id, unknown |-> old.unknown \ {w}]
<1>1. attempt.at = "save" /\ UNCHANGED <<remote, begun, known, bound, cleanup, deletion, sync, lost>>
  BY DEF SaveFound
<1> USE InHand, <1>1
<1>2. Unflagged = row /\ pending' = [pending EXCEPT ![i] = row]
  <2>1. Unflagged = row
    BY DEF Unflagged
  <2> QED BY <2>1 DEF SaveFound, Saves
<1>3. attempt' = [at |-> AccountPhase(row), stage |-> "account", intent |-> i, row |-> row]
  BY <1>2 DEF SaveFound
<1>4. /\ old.id[w] # None /\ w \in old.unknown
      /\ pending[i] = [op |-> old.op, id |-> [old.id EXCEPT ![w] = None], unknown |-> old.unknown]
  BY DEF RowSaved, RowPlace, Rows
<1>5. old.id \in Ids /\ old.unknown \in SUBSET Stages
  BY DEF Rows
<1>6. /\ \A v \in old.unknown : [old.id EXCEPT ![w] = None][v] = None
      /\ "account" \in old.unknown \/ [old.id EXCEPT ![w] = None]["account"] # None
           => [old.id EXCEPT ![w] = None]["key"] # None
      /\ old.op \in begun
      /\ \A j \in Intents \ {i} : pending[j].op # old.op
  <2>1. /\ pending[i].op = old.op /\ pending[i].unknown = old.unknown
        /\ pending[i].id = [old.id EXCEPT ![w] = None]
    BY <1>4
  <2>2. InOrder(pending[i]) /\ pending[i].op \in begun
        /\ \A j \in Intents \ {i} : pending[j].op # pending[i].op
    BY <2>1 DEF IInv, World, RowsInv
  <2> QED BY <2>1, <2>2 DEF InOrder
<1>7. row \in Rows
  BY DEF Rows
<1>8. HasOwn(row)
  BY DEF HasOwn, RowInHand
<1>9. InOrder(row)
  <2>1. \A v \in old.unknown \ {w} : old.id[v] = None
    BY <1>5, <1>6 DEF Ids
  <2>2. w = "account" => old.id["key"] # None
    BY DEF RowInHand
  <2>3. w = "key" => old.id["key"] # None
    BY <1>4
  <2> QED BY <2>1, <2>2, <2>3 DEF InOrder, Stages
<1>10. \A v \in Stages : old.id[v] = None /\ v \notin old.unknown \ {w} => Untouched(v, old.op)
  <2> TAKE v \in Stages
  <2> HAVE old.id[v] = None /\ v \notin old.unknown \ {w}
  <2>1. v # w /\ v \notin old.unknown /\ [old.id EXCEPT ![w] = None][v] = None
    BY <1>4, <1>5 DEF Ids
  <2>2. pending[i].op = old.op /\ pending[i].unknown = old.unknown /\ pending[i].id[v] = None
    BY <1>4, <2>1
  <2> QED BY <2>1, <2>2 DEF IInv, World, ClearInv
<1>11. World' /\ pending' \in [Intents -> Rows]
  <2>1. row.op = old.op /\ begun' = begun \cup {row.op}
    BY <1>6
  <2>2. Covers(row)
    BY <1>10 DEF Covers
  <2>3. pending[i].op = row.op
    BY <1>4
  <2>4. \A j \in Intents \ {i} : pending[j].op # row.op
    BY <1>6
  <2> HIDE DEF row
  <2>5. Writes(i, row)
    BY <1>2, <1>8, <1>9, <2>1, <2>2, <2>3, <2>4 DEF Writes
  <2> QED BY <1>7, <2>5, RowWritten
<1>12. AttemptInv'
  <2>1. row.id["key"] # None
    BY <1>4 DEF RowInHand, Stages
  <2>2. RowInHand'
    BY <1>3, <1>8, <2>1 DEF RowInHand, HasOwn, remote
  <2>3. RowSaved'
    BY <1>2, <1>3, <1>11 DEF RowSaved, IInv, TypeOK, AccountPhase
  <2>4. RowPlace'
    <3>1. row.id["account"] # None => row.unknown = {}
      BY <1>5, <1>9, <2>1 DEF InOrder, Stages
    <3> QED BY <1>3, <2>1, <3>1 DEF RowPlace, AccountPhase
  <2> QED BY <2>2, <2>3, <2>4 DEF AttemptInv
<1>13. begun' \subseteq Ops /\ known' \subseteq Accounts /\ bound' \subseteq Accounts \X Keys
  BY DEF IInv, TypeOK
<1>14. AccountPhase(row) \in {"commit", "find", "announce"} /\ "account" \in Stages
  BY DEF AccountPhase, Stages
<1> QED BY <1>3, <1>7, <1>11, <1>12, <1>13, <1>14, AttemptWrites

(* What is committed, the operation has made, and nothing of it is on its way. *)
LEMMA Committing ==
  ASSUME IInv, Commits
  PROVE  /\ World' /\ pending' \in [Intents -> Rows]
         /\ known' \subseteq Accounts /\ bound' \subseteq Accounts \X Keys
         /\ pending' = [pending EXCEPT ![attempt.intent] = NoRow]
         /\ attempt.row.op \in begun
         /\ \A j \in Intents : pending'[j].op # attempt.row.op
<1> DEFINE i == attempt.intent
           op == attempt.row.op
           k == attempt.row.id["key"]
           a == attempt.row.id["account"]
<1>1. /\ attempt.at = "commit" /\ known' = known \cup {a} /\ bound' = bound \cup {<<a, k>>}
      /\ pending' = [pending EXCEPT ![i] = NoRow] /\ UNCHANGED <<remote, begun, lost>>
  BY DEF Commits, Saves
<1> USE InHand, <1>1
<1>2. pending[i] = attempt.row /\ a # None /\ k # None /\ attempt.row.unknown = {}
  BY DEF RowSaved, RowPlace, RowInHand
<1>3. k \in Keys /\ a \in Accounts /\ maker[k] = op /\ maker[a] = op
  BY <1>2 DEF Ids, Of, RowInHand, HasOwn, Stages
<1>4. uses[a] = k
  <2>1. uses[a] \in Keys /\ maker[uses[a]] = op
    BY <1>3 DEF IInv, World, UsesInv
  <2> QED BY <1>3, <2>1 DEF IInv, World, OnceInv, Of, Stages
<1>5. /\ \A j \in Intents \ {i} : pending[j].op # op
      /\ op \in begun
  BY <1>2 DEF IInv, World, RowsInv
<1>6. pending'[i] = NoRow /\ NoRow.op = None /\ NoRow.unknown = {} /\ NoRow.id["key"] = None
      /\ \A j \in Intents \ {i} : pending'[j] = pending[j]
  BY DEF IInv, TypeOK, NoRow, Stages
<1>7. pending' \in [Intents -> Rows] /\ known' \subseteq Accounts /\ bound' \subseteq Accounts \X Keys
  BY <1>3, NoRowFacts DEF IInv, TypeOK
<1>8. live' = live /\ maker' = maker /\ uses' = uses /\ creating' = creating /\ begun' = begun /\ lost' = lost
  BY DEF remote
<1>9. OnceInv' /\ UsesInv'
  BY <1>8 DEF IInv, World, OnceInv, UsesInv
<1>10. BoundInv'
  BY <1>3, <1>4, <1>8 DEF IInv, World, BoundInv
<1>11. RowsInv'
  <2> SUFFICES ASSUME NEW j \in Intents
               PROVE  /\ pending'[j].op = None => pending'[j] = NoRow
                      /\ pending'[j].op # None => pending'[j].op \in begun
                      /\ \A h \in Intents : pending'[j].op # None /\ pending'[h].op = pending'[j].op => j = h
                      /\ HasOwn(pending[j])' /\ InOrder(pending'[j])
    BY <1>8 DEF RowsInv, InOrder
  <2>1. HasOwn(pending'[j]) /\ InOrder(pending'[j])
    BY <1>6, NoRowFacts DEF IInv, World, RowsInv
  <2>2. HasOwn(pending[j])'
    BY <2>1, <1>8 DEF HasOwn
  <2> QED BY <1>6, <2>1, <2>2 DEF IInv, World, RowsInv
<1>12. ClearInv'
  <2>1. ASSUME NEW j \in Intents, NEW w \in Stages,
               pending'[j].op # None, pending'[j].id[w] = None, w \notin pending'[j].unknown
        PROVE  Untouched(w, pending'[j].op)
    BY <1>6, <2>1 DEF IInv, World, ClearInv
  <2>2. \A o \in Ops \ begun, w \in Stages : Untouched(w, o)
    BY DEF IInv, World, ClearInv
  <2> QED BY <1>8, <2>1, <2>2 DEF ClearInv, Untouched
<1>13. NothingForgotten'
  <2>1. ASSUME NEW r \in creating
        PROVE  \E j \in Intents : pending'[j].op = r.op /\ r.what \in pending'[j].unknown
    <3>1. PICK j \in Intents : pending[j].op = r.op /\ r.what \in pending[j].unknown
      BY DEF IInv, World, NothingForgotten
    <3>2. j # i
      BY <1>2, <3>1
    <3> QED BY <1>6, <3>1, <3>2
  <2>2. ASSUME NEW x \in Keys \cap live
        PROVE  \/ x \in Protected'
               \/ \E j \in Intents : pending'[j].op = maker[x] /\ "key" \in pending'[j].unknown
               \/ \E b \in Made("account", maker[x]) : b \notin live \/ b \in lost
    <3>1. k \in Protected'
      <4>1. <<a, k>> \in bound' /\ <<a, k>>[2] = k
        OBVIOUS
      <4> QED BY <4>1 DEF Protected
    <3>2. ASSUME NEW j \in Intents, j # i PROVE pending'[j] = pending[j]
      BY <1>6, <3>2
    <3>3. CASE x = k
      BY <3>1, <3>3
    <3>4. CASE x # k
      <4>1. x \in Protected => x \in Protected'
        BY <1>2, <3>2, <3>4 DEF Protected
      <4>2. ASSUME NEW j \in Intents, "key" \in pending[j].unknown PROVE j # i
        BY <1>2, <4>2
      <4> QED BY <3>2, <4>1, <4>2 DEF IInv, World, NothingForgotten
    <3> QED BY <3>3, <3>4
  <2>3. ASSUME NEW y \in (Accounts \cap live) \ lost
        PROVE  \/ \E b \in bound' : b[1] = y
               \/ \E j \in Intents :
                    /\ pending'[j].op = maker[y]
                    /\ pending'[j].id["account"] = y \/ "account" \in pending'[j].unknown
    <3>1. CASE y = a
      <4>1. <<a, k>> \in bound' /\ <<a, k>>[1] = a
        OBVIOUS
      <4> QED BY <3>1, <4>1
    <3>2. CASE y # a
      <4>1. ASSUME NEW j \in Intents, pending[j].id["account"] = y \/ "account" \in pending[j].unknown
            PROVE  pending'[j] = pending[j]
        BY <1>2, <1>6, <3>2, <4>1
      <4> QED BY <4>1 DEF IInv, World, NothingForgotten
    <3> QED BY <3>1, <3>2
  <2>4. \A o : Made("account", o)' = Made("account", o)
    BY <1>8 DEF Made
  <2> QED BY <1>8, <2>1, <2>2, <2>3, <2>4 DEF NothingForgotten
<1>14. \A j \in Intents : pending'[j].op # op
  BY <1>5, <1>6
<1> QED BY <1>5, <1>7, <1>9, <1>10, <1>11, <1>12, <1>13, <1>14 DEF World

(* A commit ends the attempt, or leaves a row behind that goes on being its own. *)
LEMMA CommitSteps ==
  ASSUME IInv, Commit \/ CommitUnanswered
  PROVE  IInv'
<1>1. Commits /\ attempt.at = "commit" /\ UNCHANGED <<remote, begun, cleanup, deletion, sync, lost>>
  BY DEF Commit, CommitUnanswered, Commits
<1> USE InHand, <1>1
<1>2. begun' \subseteq Ops
  BY DEF IInv, TypeOK
<1>3. CASE Commit
  <2>1. attempt' = Idle /\ AttemptInv'
    BY <1>3, NoRowFacts DEF Commit, AttemptInv
  <2> QED BY <1>2, <2>1, NoRowFacts, Committing, AttemptWrites
<1>4. CASE CommitUnanswered
  <2>1. attempt' = [at |-> "failing", stage |-> attempt.stage, intent |-> attempt.intent, row |-> attempt.row]
    BY <1>4 DEF CommitUnanswered, GoesTo
  <2>2. RowInHand'
    BY <2>1 DEF RowInHand, HasOwn, remote
  <2>3. RowSaved'
    <3>1. pending' = [pending EXCEPT ![attempt.intent] = NoRow] /\ pending \in [Intents -> Rows]
      BY Committing DEF IInv, TypeOK
    <3> QED BY <2>1, <3>1, Committing DEF RowSaved
  <2>4. RowPlace'
    BY <2>1 DEF RowPlace
  <2> QED BY <1>2, <2>1, <2>2, <2>3, <2>4, Committing, AttemptWrites DEF AttemptInv
<1> QED BY <1>3, <1>4

(* The row that is saved again names all that its operation has made. *)
LEMMA SavingFailed ==
  ASSUME IInv, SaveFailing
  PROVE  IInv'
<1> DEFINE i == attempt.intent
           row == attempt.row
<1>1. /\ attempt.at = "failing" /\ attempt' = Idle /\ pending' = [pending EXCEPT ![i] = row]
      /\ UNCHANGED <<remote, begun, known, bound, cleanup, deletion, sync, lost>>
  BY DEF SaveFailing, Saves
<1> USE InHand, <1>1
<1>2. /\ pending[i] = NoRow /\ row.op \in begun /\ \A j \in Intents : pending[j].op # row.op
      /\ row.id["account"] # None /\ row.id["key"] # None /\ row.unknown = {}
  BY DEF RowSaved, RowPlace, RowInHand
<1>3. HasOwn(row) /\ InOrder(row) /\ Covers(row)
  BY <1>2 DEF RowInHand, InOrder, Covers, Stages
<1>4. Writes(i, row)
  BY <1>2, <1>3 DEF Writes, NoRow
<1>5. AttemptInv'
  BY NoRowFacts DEF AttemptInv
<1>6. begun' \subseteq Ops /\ known' \subseteq Accounts /\ bound' \subseteq Accounts \X Keys
  BY DEF IInv, TypeOK
<1> QED BY <1>4, <1>5, <1>6, NoRowFacts, RowWritten, AttemptWrites
-----------------------------------------------------------------------------
(* A creation is sent only when none of its kind was before. *)
LEMMA Sending ==
  ASSUME IInv, Send
  PROVE  IInv'
<1> DEFINE w == attempt.stage
           op == attempt.row.op
<1>1. /\ attempt.at = "send" /\ creating' = creating \cup {Request}
      /\ UNCHANGED <<live, maker, uses, deleting, local, cleanup, deletion, sync, lost>>
  BY DEF Send
<1> USE InHand, <1>1
<1>2. /\ Untouched(w, op) /\ pending[attempt.intent] = attempt.row /\ w \in attempt.row.unknown
      /\ HasOwn(attempt.row)
  BY DEF RowPlace, RowSaved, RowInHand
<1>3. /\ Request \in Requests /\ Request.what = w /\ Request.op = op
      /\ w = "key" => Request.key = None
      /\ w = "account" => Request.key \in Keys /\ maker[Request.key] = op
  <2>1. w = "account" => attempt.row.id["key"] \in Keys /\ maker[attempt.row.id["key"]] = op
    BY <1>2 DEF RowInHand, HasOwn, Ids, Of, Stages
  <2> QED BY <2>1 DEF Request, Requests, Stages
<1>4. attempt' = [at |-> "sent", stage |-> w, intent |-> attempt.intent, row |-> attempt.row]
  BY DEF Send, GoesTo
<1>5. TypeOK'
  BY <1>3, <1>4 DEF IInv, TypeOK, local
<1>6. OnceInv'
  BY <1>2, <1>3 DEF IInv, World, OnceInv, Untouched
<1>7. UsesInv'
  BY <1>3 DEF IInv, World, UsesInv, Stages
<1>8. RowsInv' /\ BoundInv'
  BY DEF IInv, World, RowsInv, BoundInv, HasOwn, InOrder, local
<1>9. ClearInv'
  <2>1. op \in begun /\ \A i \in Intents : pending[i].op = op => pending[i] = attempt.row
    BY <1>2 DEF IInv, World, RowsInv
  <2>2. ASSUME NEW v \in Stages, NEW o, Untouched(v, o), v # w \/ o # op
        PROVE  Untouched(v, o)'
    BY <1>3, <2>2 DEF Untouched
  <2> QED BY <1>2, <2>1, <2>2 DEF IInv, World, ClearInv, local
<1>10. NothingForgotten'
  BY <1>2, <1>3 DEF IInv, World, NothingForgotten, Protected, Made, local
<1>11. AttemptInv'
  BY <1>2, <1>4 DEF AttemptInv, RowInHand, HasOwn, RowSaved, RowPlace, local
<1>12. CleanupInv' /\ CleanupSpares'
  BY DEF CleanupInv, CleanupSpares
<1> QED BY <1>5, <1>6, <1>7, <1>8, <1>9, <1>10, <1>11, <1>12, DeletionKept, SyncKept DEF IInv, World, Actors

(* A creation that is refused leaves nothing of its kind. *)
LEMMA Refusing ==
  ASSUME IInv, Refused
  PROVE  IInv'
<1> DEFINE w == attempt.stage
           op == attempt.row.op
<1>1. /\ attempt.at = "sent" /\ Request \in creating /\ creating' = creating \ {Request}
      /\ UNCHANGED <<live, maker, uses, deleting, local, cleanup, deletion, sync, lost>>
  BY DEF Refused
<1> USE InHand, <1>1
<1>2. Request.what = w /\ Request.op = op
  BY DEF Request
<1>3. pending[attempt.intent] = attempt.row /\ w \in attempt.row.unknown
  BY DEF RowPlace, RowSaved
<1>4. attempt' = [at |-> "refused", stage |-> w, intent |-> attempt.intent, row |-> attempt.row]
  BY DEF Refused, GoesTo
<1>5. TypeOK'
  BY <1>4 DEF IInv, TypeOK, local
<1>6. OnceInv' /\ UsesInv' /\ BoundInv'
  BY DEF IInv, World, OnceInv, UsesInv, BoundInv, local
<1>7. RowsInv' /\ ClearInv'
  BY DEF IInv, World, RowsInv, ClearInv, HasOwn, InOrder, Untouched, local
<1>8. NothingForgotten'
  BY DEF IInv, World, NothingForgotten, Protected, Made, local
<1>9. Untouched(w, op)'
  BY <1>2, <1>4 DEF IInv, World, OnceInv, Untouched
<1>10. RowInHand' /\ RowSaved'
  BY <1>3, <1>4 DEF RowInHand, HasOwn, RowSaved, local
<1>11. RowPlace'
  BY <1>3, <1>4, <1>9 DEF RowPlace
<1>12. CleanupInv' /\ CleanupSpares'
  BY DEF CleanupInv, CleanupSpares
<1> QED BY <1>5, <1>6, <1>7, <1>8, <1>10, <1>11, <1>12, DeletionKept, SyncKept DEF IInv, World, Actors, AttemptInv

(* A creation takes effect under an ID that nothing made, or named, before. *)
LEMMA CreationLanding ==
  ASSUME IInv, NEW r \in creating, CreationLands(r)
  PROVE  IInv'
<1> DEFINE w == r.what
<1>1. PICK x \in Made(w, None) :
         /\ maker' = [maker EXCEPT ![x] = r.op]
         /\ uses' = IF w = "account" THEN [uses EXCEPT ![x] = r.key] ELSE uses
         /\ live' = live \cup {x}
  BY DEF CreationLands
<1>2. /\ creating' = creating \ {r}
      /\ UNCHANGED <<deleting, pending, begun, known, bound, attempt, cleanup, deletion, sync, lost>>
  BY DEF CreationLands, local
<1>3. /\ w \in Stages /\ r.op \in Ops /\ r.op # None /\ r \in Requests
      /\ w = "account" => r.key \in Keys /\ maker[r.key] = r.op
  BY OnboardingAssumption DEF IInv, TypeOK, Requests, World, UsesInv
<1>4. x \in Of(w) /\ x \in Things /\ maker[x] = None /\ x # None
  BY <1>1, <1>3, OnboardingAssumption DEF Made, Of, Things, Stages
<1>5. \A y \in Things : y # x => maker'[y] = maker[y]
  BY <1>1, <1>4 DEF IInv, TypeOK
<1>6. maker'[x] = r.op
  BY <1>1, <1>4 DEF IInv, TypeOK
<1>7. \A v \in Stages : x \in Of(v) => v = w
  BY <1>3, <1>4, OnboardingAssumption DEF Of, Stages
<1>8. \A v \in Stages : Of(v) \subseteq Things
  BY DEF Of, Things, Stages
<1>9. \A y \in Things : maker[y] # None => y # x /\ maker'[y] = maker[y]
  BY <1>4, <1>5
<1>10. \A s \in creating : s \in Requests /\ s.what \in Stages /\ s.op \in Ops /\ s.op # None
  BY OnboardingAssumption DEF IInv, TypeOK, Requests
<1>11. TypeOK'
  <2>1. w = "account" => x \in Accounts
    BY <1>4 DEF Of
  <2>2. uses' \in [Accounts -> Keys \cup {None}]
    BY <1>1, <1>3, <2>1 DEF IInv, TypeOK
  <2>3. maker' \in [Things -> Ops \cup {None}] /\ live' \subseteq Things
    BY <1>1, <1>3, <1>4 DEF IInv, TypeOK
  <2> QED BY <1>2, <2>2, <2>3 DEF IInv, TypeOK
<1>12. OnceInv'
  <2>1. ASSUME NEW o \in Ops, NEW v \in Stages, NEW y \in Of(v), NEW z \in Of(v), maker'[y] = o, maker'[z] = o
        PROVE  y = z
    <3>1. \A u \in Of(v) : u # x => maker'[u] = maker[u]
      BY <1>5, <1>8
    <3>2. CASE x \notin {y, z}
      BY <2>1, <3>1, <3>2 DEF IInv, World, OnceInv
    <3>3. CASE x \in {y, z}
      <4>1. v = w /\ o = r.op
        BY <1>6, <1>7, <2>1, <3>3
      <4> QED BY <2>1, <3>1, <3>3, <4>1 DEF IInv, World, OnceInv
    <3> QED BY <3>2, <3>3
  <2>2. ASSUME NEW s \in creating', NEW y \in Of(s.what)
        PROVE  maker'[y] # s.op
    <3>1. s \in creating /\ s # r /\ s.what \in Stages
      BY <1>2, <1>10
    <3>2. CASE y = x
      BY <1>6, <1>7, <3>1, <3>2 DEF IInv, World, OnceInv
    <3>3. CASE y # x
      BY <1>5, <1>8, <3>1, <3>3 DEF IInv, World, OnceInv
    <3> QED BY <3>2, <3>3
  <2> QED BY <1>2, <2>1, <2>2 DEF IInv, World, OnceInv
<1>13. UsesInv'
  <2>1. \A y \in live' : maker'[y] # None
    BY <1>1, <1>3, <1>6, <1>9 DEF IInv, World, UsesInv, TypeOK
  <2>2. ASSUME NEW a \in Accounts, maker'[a] # None
        PROVE  uses'[a] \in Keys /\ maker'[uses'[a]] = maker'[a]
    <3>1. a \in Things /\ Keys \subseteq Things
      BY DEF Things
    <3>2. CASE a = x
      <4>1. w = "account"
        BY <1>7, <3>2 DEF Of, Stages
      <4>2. uses'[a] = r.key
        BY <1>1, <3>2, <4>1 DEF IInv, TypeOK
      <4> QED BY <1>3, <1>6, <1>9, <3>1, <3>2, <4>1, <4>2
    <3>3. CASE a # x
      <4>1. maker[a] # None /\ maker'[a] = maker[a]
        BY <1>5, <2>2, <3>1, <3>3
      <4>2. uses'[a] = uses[a]
        BY <1>1, <3>3 DEF IInv, TypeOK
      <4>3. uses[a] \in Keys /\ maker[uses[a]] = maker[a]
        BY <4>1 DEF IInv, World, UsesInv
      <4> QED BY <1>9, <3>1, <4>1, <4>2, <4>3
    <3> QED BY <3>2, <3>3
  <2>3. ASSUME NEW s \in creating'
        PROVE  /\ s.what = "key" => s.key = None
               /\ s.what = "account" => s.key \in Keys /\ maker'[s.key] = s.op
    <3>1. s \in creating /\ Keys \subseteq Things /\ s.op # None
      BY <1>2, <1>10 DEF Things
    <3> QED BY <1>9, <3>1 DEF IInv, World, UsesInv
  <2> QED BY <2>1, <2>2, <2>3 DEF UsesInv
<1>14. ASSUME NEW row \in Rows, HasOwn(row), row.op # None
       PROVE  HasOwn(row)'
  <2>1. \A v \in Stages : row.id[v] # None => row.id[v] \in Things
    BY DEF Rows, Ids, Of, Things, Stages
  <2> QED BY <1>9, <1>14, <2>1 DEF HasOwn
<1>15. ASSUME NEW v \in Stages, NEW o, Untouched(v, o)
       PROVE  Untouched(v, o)'
  <2>1. ASSUME NEW y \in Of(v) PROVE maker'[y] # o
    <3>1. CASE y = x
      BY <1>6, <1>7, <1>15, <3>1 DEF Untouched
    <3>2. CASE y # x
      BY <1>5, <1>8, <1>15, <3>2 DEF Untouched
    <3> QED BY <3>1, <3>2
  <2> QED BY <1>2, <1>15, <2>1 DEF Untouched
<1>16. RowsInv'
  <2> SUFFICES ASSUME NEW i \in Intents PROVE HasOwn(pending[i])'
    BY <1>2 DEF IInv, World, RowsInv, InOrder
  <2>1. pending[i] \in Rows /\ HasOwn(pending[i]) /\ (pending[i].op = None => pending[i] = NoRow)
    BY DEF IInv, TypeOK, World, RowsInv
  <2>2. CASE pending[i].op = None
    BY <1>2, <2>1, <2>2 DEF HasOwn, NoRow
  <2>3. CASE pending[i].op # None
    <3>1. \A v \in Stages : pending[i].id[v] # None => maker'[pending[i].id[v]] = pending[i].op
      BY <1>14, <2>1, <2>3 DEF HasOwn
    <3> QED BY <1>2, <3>1 DEF HasOwn
  <2> QED BY <2>2, <2>3
<1>17. ClearInv'
  <2>1. ASSUME NEW i \in Intents, NEW v \in Stages,
               pending[i].op # None, pending[i].id[v] = None, v \notin pending[i].unknown
        PROVE  Untouched(v, pending[i].op)'
    <3>1. Untouched(v, pending[i].op)
      BY <2>1 DEF IInv, World, ClearInv
    <3>2. (\A y \in Of(v) : maker'[y] # pending[i].op) /\ \A s \in creating' : s.what = v => s.op # pending[i].op
      BY <3>1, <1>15 DEF Untouched
    <3> QED BY <1>2, <3>2 DEF Untouched
  <2>2. ASSUME NEW o \in Ops \ begun, NEW v \in Stages PROVE Untouched(v, o)'
    <3>1. Untouched(v, o)
      BY DEF IInv, World, ClearInv
    <3> QED BY <3>1, <1>15
  <2> QED BY <1>2, <2>1, <2>2 DEF ClearInv, Untouched
<1>18. BoundInv'
  <2>1. \A b \in bound : b[1] \in Accounts /\ b[2] \in Keys /\ b[1] \in Things /\ b[2] \in Things
    BY DEF IInv, TypeOK, Things
  <2>2. ASSUME NEW a \in Accounts, maker[a] # None PROVE maker'[a] = maker[a] /\ uses'[a] = uses[a]
    BY <1>1, <1>9, <2>2 DEF IInv, TypeOK, Things
  <2> QED BY <1>2, <1>9, <2>1, <2>2 DEF IInv, World, BoundInv, TypeOK
<1>19. NothingForgotten'
  <2>1. PICK i \in Intents : pending[i].op = r.op /\ w \in pending[i].unknown
    BY DEF IInv, World, NothingForgotten
  <2>2. ASSUME NEW s \in creating'
        PROVE  \E j \in Intents : pending[j].op = s.op /\ s.what \in pending[j].unknown
    BY <1>2, <2>2 DEF IInv, World, NothingForgotten
  <2>3. ASSUME NEW k \in Keys \cap live'
        PROVE  \/ k \in Protected
               \/ \E j \in Intents : pending[j].op = maker'[k] /\ "key" \in pending[j].unknown
               \/ \E a \in Made("account", maker[k])' : a \notin live' \/ a \in lost
    <3>1. k \in Things
      BY DEF Things
    <3>2. CASE k = x
      <4>1. w = "key"
        BY <1>7, <3>2 DEF Of, Stages
      <4> QED BY <1>6, <2>1, <3>2, <4>1
    <3>3. CASE k # x
      <4>1. k \in live /\ maker'[k] = maker[k] /\ maker[k] # None
        BY <1>1, <1>5, <3>1, <3>3 DEF IInv, World, UsesInv
      <4>2. ASSUME NEW a \in Made("account", maker[k]), a \notin live \/ a \in lost
            PROVE  a \in Made("account", maker[k])' /\ (a \notin live' \/ a \in lost)
        <5>1. a \in Accounts /\ a \in Things /\ maker[a] = maker[k]
          BY <4>2 DEF Made, Of, Things
        <5>2. a # x /\ maker'[a] = maker[a]
          BY <1>9, <4>1, <5>1
        <5> QED BY <1>1, <4>1, <4>2, <5>1, <5>2 DEF Made, Of
      <4> QED BY <4>1, <4>2 DEF IInv, World, NothingForgotten
    <3> QED BY <3>2, <3>3
  <2>4. ASSUME NEW a \in (Accounts \cap live') \ lost
        PROVE  \/ \E b \in bound : b[1] = a
               \/ \E j \in Intents :
                    /\ pending[j].op = maker'[a]
                    /\ pending[j].id["account"] = a \/ "account" \in pending[j].unknown
    <3>1. a \in Things
      BY DEF Things
    <3>2. CASE a = x
      <4>1. w = "account"
        BY <1>7, <3>2 DEF Of, Stages
      <4> QED BY <1>6, <2>1, <3>2, <4>1
    <3>3. CASE a # x
      <4>1. a \in live /\ maker'[a] = maker[a]
        BY <1>1, <1>5, <3>1, <3>3
      <4> QED BY <4>1 DEF IInv, World, NothingForgotten
    <3> QED BY <3>2, <3>3
  <2>5. Protected' = Protected
    BY <1>2 DEF Protected
  <2> QED BY <1>2, <2>2, <2>3, <2>4, <2>5 DEF NothingForgotten
<1>20. AttemptInv'
  <2> SUFFICES ASSUME attempt.at # "idle" PROVE RowInHand' /\ RowSaved' /\ RowPlace'
    BY <1>2 DEF AttemptInv
  <2> USE InHand
  <2>1. HasOwn(attempt.row)'
    <3>1. \A v \in Stages : attempt.row.id[v] # None => maker'[attempt.row.id[v]] = attempt.row.op
      BY <1>14 DEF HasOwn, RowInHand
    <3> QED BY <1>2, <3>1 DEF HasOwn
  <2>2. RowInHand'
    BY <1>2, <2>1 DEF RowInHand
  <2>3. RowSaved'
    BY <1>2 DEF RowSaved
  <2>4. Untouched(attempt.stage, attempt.row.op) => Untouched(attempt.stage, attempt.row.op)'
    <3>1. \A v \in Stages : \A o : Untouched(v, o)
            => (\A y \in Of(v) : maker'[y] # o) /\ \A s \in creating' : s.what = v => s.op # o
      BY <1>15 DEF Untouched
    <3> QED BY <1>2, <3>1 DEF Untouched
  <2>5. RowPlace'
    BY <1>2, <2>4 DEF RowPlace
  <2> QED BY <2>2, <2>3, <2>5
<1>21. CleanupInv' /\ CleanupSpares'
  <2>1. CleanupInv'
    BY <1>2 DEF IInv, Actors, CleanupInv
  <2>2. ASSUME cleanup.at \in {"cleared", "deleting"}, NEW a \in (Accounts \cap live') \ lost
        PROVE  uses'[a] # cleanup.key
    <3>1. CASE a = x
      <4>1. w = "account"
        BY <1>7, <3>1 DEF Of, Stages
      <4>2. uses'[a] = r.key
        BY <1>1, <3>1, <4>1 DEF IInv, TypeOK
      <4> QED BY <2>2, <4>2 DEF IInv, Actors, CleanupSpares
    <3>2. CASE a # x
      <4>1. uses'[a] = uses[a] /\ a \in live
        BY <1>1, <3>2 DEF IInv, TypeOK
      <4> QED BY <2>2, <4>1 DEF IInv, Actors, CleanupSpares
    <3> QED BY <3>1, <3>2
  <2>3. CleanupSpares'
    BY <1>2, <2>2 DEF IInv, Actors, CleanupSpares
  <2> QED BY <2>1, <2>3
<1>22. DeletionInv'
  <2>1. deletion.at # "idle" => deletion.account \in Things
    BY DEF IInv, Actors, DeletionInv, Things
  <2>2. deletion.key # None => deletion.key \in Things
    BY DEF IInv, TypeOK, Things
  <2>3. x # None /\ maker[x] = None
    BY <1>4
  <2>4. deletion.key = None => deletion.key \notin live'
    BY <1>11, OnboardingAssumption DEF TypeOK, Things
  <2> QED BY <1>1, <1>2, <1>9, <2>1, <2>2, <2>3, <2>4 DEF IInv, Actors, DeletionInv
<1>23. SyncInv'
  BY <1>2, <1>9 DEF IInv, Actors, SyncInv, TypeOK, Things
<1> QED BY <1>11, <1>12, <1>13, <1>16, <1>17, <1>18, <1>19, <1>20, <1>21, <1>22, <1>23
        DEF IInv, World, Actors

(* A deletion that takes effect disturbs nothing that is relied upon. *)
LEMMA DeletionLanding ==
  ASSUME IInv, NEW x \in Things, DeletionLands(x)
  PROVE  IInv'
<1>1. /\ live' = live \ {x} /\ deleting' = deleting \ {x}
      /\ UNCHANGED <<maker, uses, creating, local, attempt, cleanup, deletion, sync, lost>>
  BY DEF DeletionLands
<1>2. TypeOK'
  BY <1>1 DEF IInv, TypeOK, local
<1>3. OnceInv' /\ UsesInv' /\ BoundInv'
  BY <1>1 DEF IInv, World, OnceInv, UsesInv, BoundInv, local
<1>4. RowsInv' /\ ClearInv'
  BY <1>1 DEF IInv, World, RowsInv, ClearInv, HasOwn, InOrder, Untouched, local
<1>5. NothingForgotten'
  BY <1>1 DEF IInv, World, NothingForgotten, Protected, Made, local
<1>6. AttemptInv'
  BY <1>1, AttemptKept DEF IInv, Actors, local
<1>7. CleanupInv' /\ CleanupSpares' /\ DeletionInv' /\ SyncInv'
  BY <1>1 DEF IInv, Actors, CleanupInv, CleanupSpares, DeletionInv, SyncInv
<1> QED BY <1>2, <1>3, <1>4, <1>5, <1>6, <1>7 DEF IInv, World, Actors
-----------------------------------------------------------------------------
(* The deletions that are sent. *)
LEMMA DeletionsSent ==
  ASSUME IInv, CleanupDelete \/ DeleteKey \/ DeleteAccount
  PROVE  IInv'
<1>1. UNCHANGED <<live, maker, uses, creating, local, attempt, sync, lost>>
  BY DEF CleanupDelete, DeleteKey, DeleteAccount
<1>2. World' /\ AttemptInv' /\ SyncInv'
  BY <1>1, WorldKept, AttemptKept, SyncKept DEF IInv, Actors, local
<1>3. TypeOK'
  <2>1. deleting' \subseteq Things
    <3>1. CASE CleanupDelete
      BY <3>1 DEF IInv, TypeOK, Actors, CleanupInv, CleanupDelete, Things
    <3>2. CASE DeleteKey
      BY <3>2 DEF IInv, TypeOK, DeleteKey
    <3>3. CASE DeleteAccount
      BY <3>3 DEF IInv, TypeOK, Actors, DeletionInv, DeleteAccount, Things
    <3> QED BY <3>1, <3>2, <3>3
  <2>2. cleanup' \in [at : {"idle", "listed", "cleared", "deleting"}, key : Keys \cup {None}]
    BY DEF IInv, TypeOK, CleanupDelete, DeleteKey, DeleteAccount
  <2>3. deletion' \in [at : {"idle", "key", "keySent", "keyGone", "account", "accountSent", "gone"},
                       account : Accounts \cup {None}, key : Keys \cup {None}]
    BY DEF IInv, TypeOK, CleanupDelete, DeleteKey, DeleteAccount, DeletionGoesTo
  <2> QED BY <1>1, <2>1, <2>2, <2>3 DEF IInv, TypeOK, local
<1>4. CleanupInv' /\ CleanupSpares'
  <2>1. /\ cleanup'.key = cleanup.key
        /\ cleanup'.at = cleanup.at \/ (cleanup.at = "cleared" /\ cleanup'.at = "deleting")
    BY DEF IInv, TypeOK, CleanupDelete, DeleteKey, DeleteAccount
  <2> QED BY <1>1, <2>1 DEF IInv, Actors, CleanupInv, CleanupSpares
<1>5. DeletionInv'
  <2>1. CASE CleanupDelete
    BY <2>1, DeletionKept DEF IInv, Actors, CleanupDelete
  <2>2. CASE DeleteKey
    BY <2>2 DEF IInv, Actors, TypeOK, DeletionInv, DeleteKey, DeletionGoesTo
  <2>3. CASE DeleteAccount
    BY <2>3 DEF IInv, Actors, TypeOK, DeletionInv, DeleteAccount, DeletionGoesTo
  <2> QED BY <2>1, <2>2, <2>3
<1> QED BY <1>2, <1>3, <1>4, <1>5 DEF IInv, Actors

(* Local rows of accounts are removed: of one that is gone, of those that a
   snapshot does not have. *)
LEMMA RowsRemoved ==
  ASSUME IInv, UNCHANGED <<remote, pending, begun>>,
         known' \subseteq Accounts, \A a \in known' : maker[a] # None,
         bound' = {b \in bound : b[1] \in known'},
         lost \subseteq lost',
         \A a \in known \ known' : a \notin live \/ a \in lost'
  PROVE  World' /\ bound' \subseteq Accounts \X Keys
<1>1. OnceInv' /\ UsesInv'
  BY DEF IInv, World, OnceInv, UsesInv, remote
<1>2. RowsInv' /\ ClearInv'
  BY DEF IInv, World, RowsInv, ClearInv, HasOwn, InOrder, Untouched, remote
<1>3. BoundInv'
  BY DEF IInv, World, BoundInv, remote
<1>4. NothingForgotten'
  <2>1. live' = live /\ maker' = maker /\ creating' = creating
    BY DEF remote
  <2>2. \A o : Made("account", o)' = Made("account", o)
    BY <2>1 DEF Made
  <2>3. ASSUME NEW k \in Keys \cap live
        PROVE  \/ k \in Protected'
               \/ \E j \in Intents : pending[j].op = maker[k] /\ "key" \in pending[j].unknown
               \/ \E a \in Made("account", maker[k]) : a \notin live \/ a \in lost'
    <3>1. CASE \E b \in bound : b[2] = k
      <4> PICK b \in bound : b[2] = k
        BY <3>1
      <4>1. b[1] \in known /\ b[1] \in Accounts /\ maker[b[1]] = maker[k]
        BY DEF IInv, TypeOK, World, BoundInv
      <4>2. CASE b[1] \in known'
        BY <4>2 DEF Protected
      <4>3. CASE b[1] \notin known'
        BY <4>1, <4>3 DEF Made, Of
      <4> QED BY <4>2, <4>3
    <3>2. CASE \E i \in Intents : pending[i].id["key"] = k
      BY <3>2 DEF Protected
    <3>3. CASE k \notin Protected
      BY <3>3 DEF IInv, World, NothingForgotten
    <3> QED BY <3>1, <3>2, <3>3 DEF Protected
  <2>4. ASSUME NEW a \in (Accounts \cap live) \ lost'
        PROVE  \/ \E b \in bound' : b[1] = a
               \/ \E j \in Intents :
                    /\ pending[j].op = maker[a]
                    /\ pending[j].id["account"] = a \/ "account" \in pending[j].unknown
    <3>1. a \in known => a \in known'
      BY <2>4
    <3>2. \A b \in bound : b[1] = a => b \in bound'
      BY <3>1 DEF IInv, World, BoundInv
    <3> QED BY <2>4, <3>2 DEF IInv, World, NothingForgotten
  <2> QED BY <2>1, <2>2, <2>3, <2>4 DEF IInv, World, NothingForgotten
<1> QED BY <1>1, <1>2, <1>3, <1>4 DEF World, IInv, TypeOK

(* The local rows go when the account has gone. *)
LEMMA ProjectionDeleted ==
  ASSUME IInv, DeleteProjection
  PROVE  IInv'
<1>1. /\ deletion.at = "gone" /\ known' = known \ {deletion.account}
      /\ bound' = {b \in bound : b[1] # deletion.account} /\ deletion' = NoDeletion
      /\ UNCHANGED <<remote, pending, begun, attempt, cleanup, sync, lost>>
  BY DEF DeleteProjection
<1>2. deletion.account \notin live
  BY <1>1 DEF IInv, Actors, DeletionInv
<1>3. bound' = {b \in bound : b[1] \in known'}
  BY <1>1 DEF IInv, World, BoundInv
<1>4. World' /\ bound' \subseteq Accounts \X Keys
  BY <1>1, <1>2, <1>3, RowsRemoved DEF IInv, TypeOK, World, BoundInv
<1>5. TypeOK'
  BY <1>1, <1>4 DEF IInv, TypeOK, NoDeletion, remote
<1>6. DeletionInv'
  BY <1>1, <1>5, OnboardingAssumption DEF DeletionInv, NoDeletion
<1> QED BY <1>1, <1>4, <1>5, <1>6, AttemptKept, CleanupKept, SyncKept DEF IInv, Actors, remote

(* The snapshot removes local rows; of accounts that exist, they join the history. *)
LEMMA Synchronised ==
  ASSUME IInv, SyncCommit
  PROVE  IInv'
<1>1. /\ known' = sync.listed /\ bound' = {b \in bound : b[1] \in sync.listed}
      /\ lost' = lost \cup ((known \ sync.listed) \cap live) /\ sync' = NoSync
      /\ UNCHANGED <<remote, pending, begun, attempt, cleanup, deletion>>
  BY DEF SyncCommit
<1>2. known' \subseteq Accounts /\ \A a \in known' : maker[a] # None
  BY <1>1 DEF IInv, TypeOK, Actors, SyncInv
<1>3. World' /\ bound' \subseteq Accounts \X Keys
  BY <1>1, <1>2, RowsRemoved
<1>4. TypeOK'
  BY <1>1, <1>2, <1>3 DEF IInv, TypeOK, NoSync, remote
<1>5. CleanupInv' /\ CleanupSpares'
  BY <1>1 DEF IInv, Actors, CleanupInv, CleanupSpares, remote
<1>6. SyncInv'
  BY <1>1 DEF SyncInv, NoSync
<1> QED BY <1>1, <1>3, <1>4, <1>5, <1>6, AttemptKept, DeletionKept DEF IInv, Actors, remote
-----------------------------------------------------------------------------
(* Nothing has been made. *)
LEMMA Initially ==
  Init => IInv
<1> SUFFICES ASSUME Init PROVE IInv
  OBVIOUS
<1>1. TypeOK
  BY NoRowFacts DEF Init, TypeOK, Things, Idle, NoCleanup, NoDeletion, NoSync, Stages
<1>2. OnceInv /\ UsesInv /\ BoundInv
  <2>1. \A w \in Stages : Of(w) \subseteq Things
    BY DEF Of, Things, Stages
  <2> QED BY <2>1, OnboardingAssumption DEF Init, OnceInv, UsesInv, BoundInv, Things
<1>3. RowsInv
  BY NoRowFacts DEF Init, RowsInv, NoRow
<1>4. ClearInv
  <2>1. \A w \in Stages : Of(w) \subseteq Things
    BY DEF Of, Things, Stages
  <2> QED BY <2>1, OnboardingAssumption DEF Init, ClearInv, Untouched, NoRow
<1>5. NothingForgotten
  BY DEF Init, NothingForgotten
<1>6. AttemptInv /\ CleanupInv /\ CleanupSpares /\ SyncInv
  BY DEF Init, AttemptInv, CleanupInv, CleanupSpares, SyncInv, Idle, NoCleanup, NoSync
<1>7. DeletionInv
  BY DEF Init, DeletionInv, NoDeletion
<1> QED BY <1>1, <1>2, <1>3, <1>4, <1>5, <1>6, <1>7 DEF IInv, World, Actors

(* Every action keeps the invariant. *)
LEMMA Stepping ==
  IInv /\ [Next]_vars => IInv'
<1> SUFFICES ASSUME IInv, [Next]_vars PROVE IInv'
  OBVIOUS
<1>1. CASE AttemptStep
  <2>1. ASSUME NEW i \in Intents, Begin(i) PROVE IInv'
    BY <2>1, BeginAgain, BeginNew DEF Begin, local
  <2>2. ASSUME NEW x \in Things, Answered(x) \/ Find(x) PROVE IInv'
    BY <2>2, Learning
  <2>3. CASE GiveUp
    BY <2>3, IdleAgain DEF GiveUp
  <2> QED
    BY <1>1, <2>1, <2>2, <2>3, PlaceMoves, Announcing, Sending, Refusing, SavingRefused, SavingFound,
       CommitSteps, SavingFailed DEF AttemptStep
<1>2. CASE CleanupStep
  <2>1. ASSUME NEW k \in Keys, CleanupBegin(k) PROVE IInv'
    BY <2>1, CleanupMoves DEF CleanupBegin
  <2>2. CASE CleanupConfirm \/ CleanupEnd
    <3>1. Keys # {}
      BY <2>2 DEF IInv, Actors, CleanupInv, CleanupConfirm, CleanupEnd
    <3> QED BY <2>2, <3>1, CleanupMoves DEF CleanupConfirm, CleanupEnd
  <2> QED BY <1>2, <2>1, <2>2, DeletionsSent DEF CleanupStep
<1>3. CASE DeletionStep
  <2>1. CASE (\E a \in Accounts : DeleteBegin(a)) \/ KeyReadBack \/ KeyReconciled \/ AccountReadBack \/ DeletionEnds
    <3>1. UNCHANGED <<remote, local, attempt, cleanup, sync, lost>>
      BY <2>1 DEF DeleteBegin, KeyReadBack, KeyReconciled, AccountReadBack, DeletionEnds
    <3> QED BY <2>1, <3>1, DeletionMoves
  <2> QED BY <1>3, <2>1, DeletionsSent, ProjectionDeleted DEF DeletionStep
<1>4. CASE SyncStep
  <2>1. CASE SyncDiscover \/ SyncLock \/ SyncRead \/ SyncConfirm \/ SyncEnds
    <3>1. UNCHANGED <<remote, local, attempt, cleanup, deletion, lost>>
      BY <2>1 DEF SyncDiscover, SyncLock, SyncRead, SyncConfirm, SyncEnds
    <3> QED BY <2>1, <3>1, SyncMoves
  <2> QED BY <1>4, <2>1, Synchronised DEF SyncStep
<1>5. CASE RemoteStep
  BY <1>5, CreationLanding, DeletionLanding DEF RemoteStep
<1>6. CASE UNCHANGED vars
  <2>1. UNCHANGED <<live, maker, uses, creating, deleting, pending, begun, known, bound,
                    attempt, cleanup, deletion, sync, lost>>
    BY <1>6 DEF vars, remote, local
  <2>2. TypeOK'
    BY <2>1 DEF IInv, TypeOK
  <2> QED BY <2>1, <2>2, WorldKept, AttemptKept, CleanupKept, DeletionKept, SyncKept DEF IInv, Actors
<1> QED BY <1>1, <1>2, <1>3, <1>4, <1>5, <1>6 DEF Next

(* The invariant holds in every state. *)
LEMMA Always ==
  Spec => []IInv
BY Initially, Stepping, PTL DEF Spec
-----------------------------------------------------------------------------
(* Every variable keeps its type. *)
THEOREM TypesKept ==
  Spec => []TypeOK
<1>1. IInv => TypeOK
  BY DEF IInv
<1> QED BY <1>1, Always, PTL

(* An operation makes at most one key and one account, and only what one
   operation has made is bound together: pending_json and the markers of Onboard
   are enough, however often it is resumed and whatever answers are lost. *)
THEOREM OperationsCreateOnce ==
  Spec => []CreatedOnce
<1>1. IInv => CreatedOnce
  <2>1. ASSUME IInv, NEW o \in Ops, NEW w \in Stages, NEW x \in Made(w, o), NEW y \in Made(w, o)
        PROVE  x = y
    BY <2>1 DEF IInv, World, OnceInv, Made
  <2> QED BY <2>1 DEF IInv, World, BoundInv, CreatedOnce
<1> QED BY <1>1, Always, PTL

(* A row, or a binding, leads to whatever has been made or may still be; only keys
   of accounts deleted or pruned are left to the cleanup. *)
THEOREM RowsLeadToAll ==
  Spec => []NothingForgotten
<1>1. IInv => NothingForgotten
  BY DEF IInv, World
<1> QED BY <1>1, Always, PTL

(* The cleanup of unbound keys does not take the key of an account that exists or
   that is on its way. *)
THEOREM CleanupSparesKeys ==
  Spec => []CleanupSpares
<1>1. IInv => CleanupSpares
  BY DEF IInv, Actors
<1> QED BY <1>1, Always, PTL

(* A deletion goes from the key to the account to the local rows, each gone
   before the next, even when creations and other deletions land meanwhile. *)
THEOREM KeysGoFirst ==
  Spec => []KeyBeforeAccount
<1>1. IInv => KeyBeforeAccount
  BY DEF IInv, Actors, DeletionInv, KeyBeforeAccount
<1> QED BY <1>1, Always, PTL
-----------------------------------------------------------------------------
(* CreatedPairs, step by step.  A creation that lands is the first of its kind
   for its operation (OnceInv), and an account's names the key of that operation
   (UsesInv). *)
LEMMA PairsMade ==
  ASSUME IInv, NEW r \in creating, CreationLands(r)
  PROVE  Pairs!PairNext
<1>1. PICK x \in Made(r.what, None) :
        /\ maker' = [maker EXCEPT ![x] = r.op]
        /\ uses' = IF r.what = "account" THEN [uses EXCEPT ![x] = r.key] ELSE uses
        /\ live' = live \cup {x}
  BY DEF CreationLands
<1>2. bound' = bound
  BY DEF CreationLands, local
<1>3. r.op \in Ops /\ r.what \in Stages
  BY DEF IInv, TypeOK, Requests
<1>4. x \in Of(r.what) /\ maker[x] = None
  BY DEF Made
<1>5. \A y \in Of(r.what) : maker[y] # r.op
  BY DEF IInv, World, OnceInv
<1>6. CASE r.what = "key"
  <2>1. Pairs!MakeKey(r.op, x)
    BY <1>1, <1>2, <1>4, <1>5, <1>6 DEF Pairs!MakeKey, Pairs!Makes, Of
  <2> QED BY <2>1, <1>3, <1>4, <1>6 DEF Pairs!PairNext, Of
<1>7. CASE r.what = "account"
  <2>1. r.key \in Keys /\ maker[r.key] = r.op
    BY <1>7 DEF IInv, World, UsesInv
  <2>2. Pairs!MakeAccount(r.op, x)
    BY <1>1, <1>2, <1>4, <1>5, <1>7, <2>1 DEF Pairs!MakeAccount, Pairs!Makes, Of
  <2> QED BY <2>2, <1>3, <1>4, <1>7 DEF Pairs!PairNext, Of
<1> QED BY <1>3, <1>6, <1>7 DEF Stages

(* What the attempt commits was made by its operation, the account with the key
   (RowInHand, RowPlace). *)
LEMMA PairsBound ==
  ASSUME IInv, Commit \/ CommitUnanswered
  PROVE  Pairs!PairNext
<1>1. attempt.at = "commit" /\ Commits
  BY DEF Commit, CommitUnanswered, Commits
<1> DEFINE k == attempt.row.id["key"]
           a == attempt.row.id["account"]
<1>2. k # None /\ a # None /\ HasOwn(attempt.row)
  BY <1>1, InHand DEF RowInHand, RowPlace
<1>3. k \in Keys /\ a \in Accounts /\ maker[k] = attempt.row.op /\ maker[a] = attempt.row.op
  BY <1>1, <1>2, InHand DEF Ids, Of, Stages, HasOwn
<1>4. attempt.row.op # None
  BY <1>1, InHand
<1>5. uses[a] = k
  <2> HIDE DEF a, k
  <2>1. uses[a] \in Keys /\ maker[uses[a]] = attempt.row.op
    BY <1>3, <1>4 DEF IInv, World, UsesInv
  <2>2. attempt.row.op \in Ops
    BY <1>1, InHand
  <2> QED BY <1>3, <2>1, <2>2 DEF IInv, World, OnceInv, Of, Stages
<1>6. bound' = bound \cup {<<a, k>>} /\ UNCHANGED <<maker, uses, live>>
  BY <1>1 DEF Commits, remote
<1>7. Pairs!Bind(a, k)
  <2> HIDE DEF a, k
  <2> QED BY <1>3, <1>4, <1>5, <1>6 DEF Pairs!Bind
<1> QED BY <1>3, <1>7 DEF Pairs!PairNext

(* Rows are removed by account, one or many. *)
LEMMA PairsRemoved ==
  ASSUME IInv, DeleteProjection \/ SyncCommit
  PROVE  Pairs!PairNext
<1>1. bound \subseteq Accounts \X Keys /\ UNCHANGED <<maker, uses, live>>
  BY DEF IInv, TypeOK, DeleteProjection, SyncCommit, remote
<1>2. CASE DeleteProjection
  <2>1. deletion.account \in Accounts /\ bound' = {b \in bound : b[1] \notin {deletion.account}}
    BY <1>2 DEF DeleteProjection, IInv, TypeOK
  <2>2. Pairs!Unbind({deletion.account})
    BY <1>1, <2>1 DEF Pairs!Unbind
  <2> QED BY <2>1, <2>2 DEF Pairs!PairNext
<1>3. CASE SyncCommit
  <2>1. bound' = {b \in bound : b[1] \notin Accounts \ sync.listed}
    BY <1>1, <1>3 DEF SyncCommit
  <2>2. Pairs!Unbind(Accounts \ sync.listed)
    BY <1>1, <2>1 DEF Pairs!Unbind
  <2> QED BY <2>2 DEF Pairs!PairNext
<1> QED BY <1>2, <1>3

(* Every step of the actors and the services is one of CreatedPairs or none. *)
LEMMA PairsStep ==
  ASSUME IInv, [Next]_vars
  PROVE  [Pairs!PairNext]_(Pairs!pairVars)
<1> USE DEF Pairs!pairVars
<1>1. CASE AttemptStep
  <2>1. CASE Commit \/ CommitUnanswered
    BY <2>1, PairsBound
  <2>2. CASE ~(Commit \/ CommitUnanswered)
    <3>1. UNCHANGED <<maker, uses, live, bound>>
      BY <1>1, <2>2 DEF AttemptStep, Begin, Answered, Find, Reveal, Announce, Send, Refused, Unclear,
         SaveRefused, SaveFound, SaveFailing, GiveUp, remote, local
    <3> QED BY <3>1
  <2> QED BY <2>1, <2>2
<1>2. CASE CleanupStep
  BY <1>2 DEF CleanupStep, CleanupBegin, CleanupConfirm, CleanupDelete, CleanupEnd, remote, local
<1>3. CASE DeletionStep
  <2>1. CASE DeleteProjection
    BY <2>1, PairsRemoved
  <2>2. CASE ~DeleteProjection
    BY <1>3, <2>2 DEF DeletionStep, DeleteBegin, DeleteKey, KeyReadBack, KeyReconciled, DeleteAccount,
       AccountReadBack, DeletionEnds, remote, local
  <2> QED BY <2>1, <2>2
<1>4. CASE SyncStep
  <2>1. CASE SyncCommit
    BY <2>1, PairsRemoved
  <2>2. CASE ~SyncCommit
    BY <1>4, <2>2 DEF SyncStep, SyncDiscover, SyncLock, SyncRead, SyncConfirm, SyncEnds, remote, local
  <2> QED BY <2>1, <2>2
<1>5. CASE RemoteStep
  <2>1. ASSUME NEW r \in creating, CreationLands(r) PROVE Pairs!PairNext
    BY <2>1, PairsMade
  <2>2. ASSUME NEW x \in Things, DeletionLands(x)
        PROVE  Pairs!PairNext \/ UNCHANGED <<maker, uses, live, bound>>
    <3>1. live' = live \ {x} /\ UNCHANGED <<maker, uses, bound>>
      BY <2>2 DEF DeletionLands, local
    <3>2. CASE x \in live
      BY <3>1, <3>2 DEF Pairs!PairNext, Pairs!Delete
    <3>3. CASE x \notin live
      BY <3>1, <3>3
    <3> QED BY <3>2, <3>3
  <2> QED BY <1>5, <2>1, <2>2 DEF RemoteStep
<1>6. CASE UNCHANGED vars
  BY <1>6 DEF vars, remote, local
<1> QED BY <1>1, <1>2, <1>3, <1>4, <1>5, <1>6 DEF Next

(* With its rows, flags and markers, retries and lost answers, the console makes
   its pairs as CreatedPairs says: each key and each account once, and none that
   was deleted comes back. *)
THEOREM OnboardingMakesPairs ==
  Spec => ImplementsPairs
<1>1. Init => Pairs!PairInit
  BY DEF Init, Pairs!PairInit, Things
<1>2. IInv /\ [Next]_vars => [Pairs!PairNext]_(Pairs!pairVars)
  BY PairsStep
<1> QED BY <1>1, <1>2, Always, PTL DEF Spec, ImplementsPairs, Pairs!PairSpec
=============================================================================

------------------------------ MODULE Onboarding ------------------------------
(* The accounts that the console makes: onboarding (package onboarding, Onboard
   and the cleanup of keys), their deletion (package accountdelete) and the
   synchronisation with Sub2API (management.Service.Sync), over the tables of
   package business.

   An onboarding makes a key at the upstream, then an account at Sub2API that
   uses it, and at last the local rows that bind the two.  Neither creation is
   idempotent and any answer may be lost, so the intent is first saved as a
   pending row, with a flag while a creation may be under way, and whatever is
   made carries the operation's marker, by which it can be found again.

   One upstream and one Sub2API.  A step of an actor is one remote call or one
   local transaction; leases are what MutationLease shows them to be, and an
   actor writes locally only while its lease lasts.  An actor may give up
   anywhere: an error, the end of its context, a lost lease, or the process
   ends; its requests may land all the same, later or never. *)
EXTENDS Integers, FiniteSets

CONSTANTS
    Intents,  (* upstream group and local groups: what a pending row is for *)
    Ops,      (* operation IDs, each used for one row                        *)
    Keys,     (* IDs the upstream gives to keys                              *)
    Accounts, (* IDs Sub2API gives to accounts                               *)
    None

ASSUME OnboardingAssumption ==
    /\ Keys \cap Accounts = {}
    /\ None \notin Intents \cup Ops \cup Keys \cup Accounts

VARIABLES
    live,     (* keys and accounts that exist remotely                     *)
    maker,    (* the operation whose marker a key or an account carries    *)
    uses,     (* the key in an account's credentials                       *)
    creating, (* creations on their way                                    *)
    deleting, (* deletions on their way                                    *)
    pending,  (* onboarding_pending, by intent                             *)
    begun,    (* operations that have had a row                            *)
    known,    (* accounts                                                  *)
    bound,    (* bindings: an account and its key                          *)
    attempt,  (* the onboarding that has the lease of the key catalogue    *)
    cleanup,  (* the cleanup of unbound keys                               *)
    deletion, (* the deletion of an account                                *)
    sync,     (* the synchronisation of the management snapshot            *)
    lost      (* history: accounts pruned locally while they existed       *)

remote == <<live, maker, uses, creating, deleting>>
local  == <<pending, begun, known, bound>>
vars   == <<remote, local, attempt, cleanup, deletion, sync, lost>>

Stages  == {"key", "account"}
Of(w)   == IF w = "key" THEN Keys ELSE Accounts
Things  == Keys \cup Accounts
Made(w, o) == {x \in Of(w) : maker[x] = o}

NoRow == [op |-> None, id |-> [w \in Stages |-> None], unknown |-> {}]
Idle  == [at |-> "idle", stage |-> "key", intent |-> None, row |-> NoRow]
NoCleanup  == [at |-> "idle", key |-> None]
NoDeletion == [at |-> "idle", account |-> None, key |-> None]
NoSync     == [at |-> "idle", ids |-> {}, listed |-> {}]

Init ==
    /\ live = {} /\ creating = {} /\ deleting = {}
    /\ maker = [x \in Things |-> None]
    /\ uses = [a \in Accounts |-> None]
    /\ pending = [i \in Intents |-> NoRow] /\ begun = {}
    /\ known = {} /\ bound = {}
    /\ attempt = Idle /\ cleanup = NoCleanup
    /\ deletion = NoDeletion /\ sync = NoSync
    /\ lost = {}

(* Keys that rows and bindings name. *)
Protected == {b[2] : b \in bound} \cup {pending[i].id["key"] : i \in Intents}
-----------------------------------------------------------------------------
(* Leases, as far as they tell these actors apart.

   The operators whose comment begins with "Bug" are not part of the model:
   each is a mistake that one of the properties below would find.

   Bug: the cleanup takes the upstream only. *)
CleanupLeaseUpstream == {"upstream"}

OnboardingLease == {"key catalogue"}
CleanupLease    == {"upstream", "key catalogue"}
DeletionLease(key) == {"account catalogue"} \cup IF key = None THEN {} ELSE {"upstream"}
SyncLease       == {"account catalogue"}

Leased ==
    UNION {IF attempt.at = "idle" THEN {} ELSE OnboardingLease,
           IF cleanup.at = "idle" THEN {} ELSE CleanupLease,
           IF deletion.at = "idle" THEN {} ELSE DeletionLease(deletion.key),
           IF sync.at \in {"idle", "discovered"} THEN {} ELSE SyncLease}
Free(resources) == resources \cap Leased = {}
-----------------------------------------------------------------------------
(* A creation takes effect, under an ID never used before. *)
CreationLands(r) ==
    /\ r \in creating
    /\ \E x \in Made(r.what, None) :
         /\ maker' = [maker EXCEPT ![x] = r.op]
         /\ uses' = IF r.what = "account" THEN [uses EXCEPT ![x] = r.key] ELSE uses
         /\ live' = live \cup {x}
    /\ creating' = creating \ {r}
    /\ UNCHANGED <<deleting, local, attempt, cleanup, deletion, sync, lost>>

(* A deletion takes effect. *)
DeletionLands(x) ==
    /\ x \in deleting
    /\ live' = live \ {x}
    /\ deleting' = deleting \ {x}
    /\ UNCHANGED <<maker, uses, creating, local, attempt, cleanup, deletion, sync, lost>>
-----------------------------------------------------------------------------
(* Onboard.  Where it goes on with a row whose key, or whose account, is
   recorded, may have been made, or has yet to be made. *)
KeyPhase(row) ==
    IF row.id["key"] # None THEN "reveal"
    ELSE IF "key" \in row.unknown THEN "find" ELSE "announce"
AccountPhase(row) ==
    IF row.id["account"] # None THEN "commit"
    ELSE IF "account" \in row.unknown THEN "find" ELSE "announce"

Starts(i, row) ==
    attempt' = [at |-> KeyPhase(row), stage |-> "key", intent |-> i, row |-> row]

(* The lease, and the intent's pending row: the one there is, or a new one. *)
Begin(i) ==
    /\ attempt.at = "idle" /\ Free(OnboardingLease)
    /\ \/ /\ pending[i] # NoRow
          /\ Starts(i, pending[i])
          /\ UNCHANGED <<pending, begun>>
       \/ /\ pending[i] = NoRow
          /\ \E o \in Ops \ begun :
               /\ Starts(i, [NoRow EXCEPT !.op = o])
               /\ pending' = [pending EXCEPT ![i] = [NoRow EXCEPT !.op = o]]
               /\ begun' = begun \cup {o}
    /\ UNCHANGED <<remote, known, bound, cleanup, deletion, sync, lost>>

GoesTo(at) == attempt' = [attempt EXCEPT !.at = at]

(* SavePendingOnboarding. *)
Saves(row) == pending' = [pending EXCEPT ![attempt.intent] = row]

(* RevealKey: the recorded key still exists. *)
Reveal ==
    /\ attempt.at = "reveal" /\ attempt.row.id["key"] \in live
    /\ attempt' = [attempt EXCEPT !.at = AccountPhase(attempt.row), !.stage = "account"]
    /\ UNCHANGED <<remote, local, cleanup, deletion, sync, lost>>

Flagged == [attempt.row EXCEPT !.unknown = @ \cup {attempt.stage}]

(* Bug: the flag is set but not saved before the creation is sent. *)
AnnounceUnsaved ==
    /\ attempt.at = "announce"
    /\ attempt' = [attempt EXCEPT !.at = "send", !.row = Flagged]
    /\ UNCHANGED <<remote, local, cleanup, deletion, sync, lost>>

(* Before a creation is sent the row says that it may have been. *)
Announce ==
    /\ attempt.at = "announce"
    /\ Saves(Flagged)
    /\ attempt' = [attempt EXCEPT !.at = "send", !.row = Flagged]
    /\ UNCHANGED <<remote, begun, known, bound, cleanup, deletion, sync, lost>>

Request ==
    [what |-> attempt.stage, op |-> attempt.row.op,
     key |-> IF attempt.stage = "key" THEN None ELSE attempt.row.id["key"]]

Send ==
    /\ attempt.at = "send"
    /\ creating' = creating \cup {Request}
    /\ GoesTo("sent")
    /\ UNCHANGED <<live, maker, uses, deleting, local, cleanup, deletion, sync, lost>>

Learns(x) == attempt' = [attempt EXCEPT !.at = "save", !.row.id[attempt.stage] = x]

(* The creation is answered with the new ID, ... *)
Answered(x) ==
    /\ attempt.at = "sent"
    /\ x \in Made(attempt.stage, attempt.row.op)
    /\ Learns(x)
    /\ UNCHANGED <<remote, local, cleanup, deletion, sync, lost>>

(* ... refused, so that it will not take effect, ... *)
Refused ==
    /\ attempt.at = "sent" /\ Request \in creating
    /\ creating' = creating \ {Request}
    /\ GoesTo("refused")
    /\ UNCHANGED <<live, maker, uses, deleting, local, cleanup, deletion, sync, lost>>

(* Bug: any error is taken for a refusal. *)
UnclearRefused ==
    /\ attempt.at = "sent"
    /\ GoesTo("refused")
    /\ UNCHANGED <<remote, local, cleanup, deletion, sync, lost>>

(* ... or neither: no answer, an unreadable one, a server error. *)
Unclear ==
    /\ attempt.at = "sent"
    /\ GoesTo("find")
    /\ UNCHANGED <<remote, local, cleanup, deletion, sync, lost>>

(* The catalogue has exactly one thing with the marker: it is the operation's.
   If it has none, the attempt gives up and the flag stays. *)
Find(x) ==
    /\ attempt.at = "find"
    /\ Made(attempt.stage, attempt.row.op) \cap live = {x}
    /\ Learns(x)
    /\ UNCHANGED <<remote, local, cleanup, deletion, sync, lost>>

Unflagged == [attempt.row EXCEPT !.unknown = @ \ {attempt.stage}]

SaveRefused ==
    /\ attempt.at = "refused"
    /\ Saves(Unflagged)
    /\ attempt' = Idle
    /\ UNCHANGED <<remote, begun, known, bound, cleanup, deletion, sync, lost>>

(* The ID is saved; on to the account, or to the local rows. *)
SaveFound ==
    /\ attempt.at = "save"
    /\ Saves(Unflagged)
    /\ attempt' = [attempt EXCEPT !.row = Unflagged, !.stage = "account",
                                  !.at = AccountPhase(Unflagged)]
    /\ UNCHANGED <<remote, begun, known, bound, cleanup, deletion, sync, lost>>

(* CommitOnboardingProjection: account, binding, and the row is deleted. *)
Commits ==
    /\ attempt.at = "commit"
    /\ known' = known \cup {attempt.row.id["account"]}
    /\ bound' = bound \cup {<<attempt.row.id["account"], attempt.row.id["key"]>>}
    /\ Saves(NoRow)
    /\ UNCHANGED <<remote, begun, cleanup, deletion, sync, lost>>

Commit == Commits /\ attempt' = Idle

(* It has committed but answers with an error: pendingFailure saves the row. *)
CommitUnanswered == Commits /\ GoesTo("failing")
SaveFailing ==
    /\ attempt.at = "failing"
    /\ Saves(attempt.row)
    /\ attempt' = Idle
    /\ UNCHANGED <<remote, begun, known, bound, cleanup, deletion, sync, lost>>

GiveUp ==
    /\ attempt.at # "idle" /\ attempt' = Idle
    /\ UNCHANGED <<remote, local, cleanup, deletion, sync, lost>>
-----------------------------------------------------------------------------
(* executeKeyCleanup, for one of the keys its user has chosen: it exists and is
   neither bound nor in a row, looked up under the lease, ... *)
CleanupBegin(k) ==
    /\ cleanup.at = "idle" /\ Free(CleanupLease)
    /\ k \in live \ Protected
    /\ cleanup' = [at |-> "listed", key |-> k]
    /\ UNCHANGED <<remote, local, attempt, deletion, sync, lost>>

(* ... and once more before its deletion is sent. *)
CleanupConfirm ==
    /\ cleanup.at = "listed" /\ cleanup.key \notin Protected
    /\ cleanup' = [cleanup EXCEPT !.at = "cleared"]
    /\ UNCHANGED <<remote, local, attempt, deletion, sync, lost>>

CleanupDelete ==
    /\ cleanup.at = "cleared"
    /\ deleting' = deleting \cup {cleanup.key}
    /\ cleanup' = [cleanup EXCEPT !.at = "deleting"]
    /\ UNCHANGED <<live, maker, uses, creating, local, attempt, deletion, sync, lost>>

CleanupEnd ==
    /\ cleanup.at # "idle" /\ cleanup' = NoCleanup
    /\ UNCHANGED <<remote, local, attempt, deletion, sync, lost>>
-----------------------------------------------------------------------------
(* ConfirmAccountDeleteScope: the key is the account's and nobody else's. *)
Exclusive(a, k) ==
    /\ <<a, k>> \in bound
    /\ \A b \in bound : b[2] = k => b[1] = a
    /\ \A i \in Intents : pending[i].id["key"] # k

KeysOf(a) == {b[2] : b \in {c \in bound : c[1] = a}}

(* Delete, of an account without a binding or with one. *)
DeleteBegin(a) ==
    /\ deletion.at = "idle" /\ a \in known
    /\ \/ /\ KeysOf(a) = {} /\ Free(DeletionLease(None))
          /\ deletion' = [at |-> "account", account |-> a, key |-> None]
       \/ \E k \in Keys :
            /\ KeysOf(a) = {k} /\ Free(DeletionLease(k)) /\ Exclusive(a, k)
            /\ deletion' = [at |-> "key", account |-> a, key |-> k]
    /\ UNCHANGED <<remote, local, attempt, cleanup, sync, lost>>

DeletionGoesTo(at) == deletion' = [deletion EXCEPT !.at = at]

DeleteKey ==
    /\ deletion.at = "key"
    /\ \/ /\ deletion.key \in live
          /\ deleting' = deleting \cup {deletion.key}
          /\ DeletionGoesTo("keySent")
       \/ /\ deletion.key \notin live
          /\ DeletionGoesTo("keyGone")
          /\ UNCHANGED deleting
    /\ UNCHANGED <<live, maker, uses, creating, local, attempt, cleanup, sync, lost>>

(* Bug: the catalogue is not read again. *)
KeyReadBackTrusting ==
    /\ deletion.at = "keySent"
    /\ DeletionGoesTo("keyGone")
    /\ UNCHANGED <<remote, local, attempt, cleanup, sync, lost>>

(* Whatever the answer was, the catalogue no longer has the key. *)
KeyReadBack ==
    /\ deletion.at = "keySent" /\ deletion.key \notin live
    /\ DeletionGoesTo("keyGone")
    /\ UNCHANGED <<remote, local, attempt, cleanup, sync, lost>>

(* ReconcileDeletedUpstreamKeyProjection. *)
KeyReconciled ==
    /\ deletion.at = "keyGone" /\ Exclusive(deletion.account, deletion.key)
    /\ DeletionGoesTo("account")
    /\ UNCHANGED <<remote, local, attempt, cleanup, sync, lost>>

DeleteAccount ==
    /\ deletion.at = "account"
    /\ deleting' = deleting \cup {deletion.account}
    /\ DeletionGoesTo("accountSent")
    /\ UNCHANGED <<live, maker, uses, creating, local, attempt, cleanup, sync, lost>>

AccountReadBack ==
    /\ deletion.at = "accountSent" /\ deletion.account \notin live
    /\ DeletionGoesTo("gone")
    /\ UNCHANGED <<remote, local, attempt, cleanup, sync, lost>>

(* DeleteAccountProjection, DeleteAccountProjectionWithScope. *)
DeleteProjection ==
    /\ deletion.at = "gone" /\ deletion.account \in known
    /\ deletion.key # None => Exclusive(deletion.account, deletion.key)
    /\ known' = known \ {deletion.account}
    /\ bound' = {b \in bound : b[1] # deletion.account}
    /\ deletion' = NoDeletion
    /\ UNCHANGED <<remote, pending, begun, attempt, cleanup, sync, lost>>

DeletionEnds ==
    /\ deletion.at # "idle" /\ deletion' = NoDeletion
    /\ UNCHANGED <<remote, local, attempt, cleanup, sync, lost>>
-----------------------------------------------------------------------------
(* Sync: discover the accounts to lock, lock them, read again, check that the
   locks cover what there is now, and take the snapshot over. *)
SyncDiscover ==
    /\ sync.at = "idle" /\ Free(SyncLease)
    /\ sync' = [at |-> "discovered", ids |-> (live \cap Accounts) \cup known, listed |-> {}]
    /\ UNCHANGED <<remote, local, attempt, cleanup, deletion, lost>>

SyncLock ==
    /\ sync.at = "discovered" /\ Free(SyncLease)
    /\ sync' = [sync EXCEPT !.at = "locked"]
    /\ UNCHANGED <<remote, local, attempt, cleanup, deletion, lost>>

SyncRead ==
    /\ sync.at = "locked"
    /\ sync' = [sync EXCEPT !.at = "read", !.listed = live \cap Accounts]
    /\ UNCHANGED <<remote, local, attempt, cleanup, deletion, lost>>

SyncConfirm ==
    /\ sync.at = "read" /\ sync.listed \cup known \subseteq sync.ids
    /\ sync' = [sync EXCEPT !.at = "confirmed"]
    /\ UNCHANGED <<remote, local, attempt, cleanup, deletion, lost>>

(* SyncCompleteManagementSnapshot: what is not in the snapshot is pruned. *)
SyncCommit ==
    /\ sync.at = "confirmed"
    /\ known' = sync.listed
    /\ bound' = {b \in bound : b[1] \in sync.listed}
    /\ lost' = lost \cup ((known \ sync.listed) \cap live)
    /\ sync' = NoSync
    /\ UNCHANGED <<remote, pending, begun, attempt, cleanup, deletion>>

SyncEnds ==
    /\ sync.at # "idle" /\ sync' = NoSync
    /\ UNCHANGED <<remote, local, attempt, cleanup, deletion, lost>>
-----------------------------------------------------------------------------
AttemptStep ==
    \/ \E i \in Intents : Begin(i)
    \/ \E x \in Things : Answered(x) \/ Find(x)
    \/ Reveal \/ Announce \/ Send \/ Refused \/ Unclear \/ SaveRefused \/ SaveFound
    \/ Commit \/ CommitUnanswered \/ SaveFailing \/ GiveUp
CleanupStep ==
    \/ \E k \in Keys : CleanupBegin(k)
    \/ CleanupConfirm \/ CleanupDelete \/ CleanupEnd
DeletionStep ==
    \/ \E a \in Accounts : DeleteBegin(a)
    \/ DeleteKey \/ KeyReadBack \/ KeyReconciled \/ DeleteAccount \/ AccountReadBack
    \/ DeleteProjection \/ DeletionEnds
SyncStep == SyncDiscover \/ SyncLock \/ SyncRead \/ SyncConfirm \/ SyncCommit \/ SyncEnds
RemoteStep ==
    \/ \E r \in creating : CreationLands(r)
    \/ \E x \in Things : DeletionLands(x)

Next == AttemptStep \/ CleanupStep \/ DeletionStep \/ SyncStep \/ RemoteStep
Spec == Init /\ [][Next]_vars
-----------------------------------------------------------------------------
Ids  == {f \in [Stages -> Things \cup {None}] : \A w \in Stages : f[w] \in Of(w) \cup {None}}
Rows == [op : Ops \cup {None}, id : Ids, unknown : SUBSET Stages]
Requests == [what : Stages, op : Ops, key : Keys \cup {None}]

(* Every variable has its type. *)
TypeOK ==
    /\ live \subseteq Things /\ deleting \subseteq Things
    /\ maker \in [Things -> Ops \cup {None}]
    /\ uses \in [Accounts -> Keys \cup {None}]
    /\ creating \subseteq Requests
    /\ pending \in [Intents -> Rows] /\ begun \subseteq Ops
    /\ known \subseteq Accounts /\ bound \subseteq Accounts \X Keys
    /\ attempt \in [at : {"idle", "reveal", "announce", "send", "sent", "refused", "find",
                          "save", "commit", "failing"},
                    stage : Stages, intent : Intents \cup {None}, row : Rows]
    /\ cleanup \in [at : {"idle", "listed", "cleared", "deleting"}, key : Keys \cup {None}]
    /\ deletion \in [at : {"idle", "key", "keySent", "keyGone", "account", "accountSent", "gone"},
                     account : Accounts \cup {None}, key : Keys \cup {None}]
    /\ sync \in [at : {"idle", "discovered", "locked", "read", "confirmed"},
                 ids : SUBSET Accounts, listed : SUBSET Accounts]
    /\ lost \subseteq Accounts

(* However often an operation is resumed, whatever answers were lost, it makes
   one key and one account, and a binding joins what one operation has made. *)
CreatedOnce ==
    /\ \A o \in Ops, w \in Stages : \A x, y \in Made(w, o) : x = y
    /\ \A b \in bound : maker[b[1]] = maker[b[2]] /\ uses[b[1]] = b[2]

(* What the console makes, or may still be making, it can find again: by its ID
   or by its operation's marker in a row, or in a binding.  Left behind are
   only keys of accounts that have been deleted or pruned. *)
NothingForgotten ==
    /\ \A r \in creating : \E i \in Intents :
         pending[i].op = r.op /\ r.what \in pending[i].unknown
    /\ \A k \in Keys \cap live :
         \/ k \in Protected
         \/ \E i \in Intents : pending[i].op = maker[k] /\ "key" \in pending[i].unknown
         \/ \E a \in Made("account", maker[k]) : a \notin live \/ a \in lost
    /\ \A a \in (Accounts \cap live) \ lost :
         \/ \E b \in bound : b[1] = a
         \/ \E i \in Intents :
              /\ pending[i].op = maker[a]
              /\ pending[i].id["account"] = a \/ "account" \in pending[i].unknown

(* The cleanup never deletes the key of an account that exists or is being
   created, except one that was pruned before. *)
CleanupSpares ==
    cleanup.at \in {"cleared", "deleting"} =>
      /\ \A a \in (Accounts \cap live) \ lost : uses[a] # cleanup.key
      /\ \A r \in creating : r.key # cleanup.key

(* The deletion of an account with a binding reaches the account only when its
   key no longer exists, and the local rows only when neither does. *)
KeyBeforeAccount ==
    deletion.key # None =>
      /\ deletion.at \in {"account", "accountSent", "gone"} => deletion.key \notin live
      /\ deletion.at = "gone" => deletion.account \notin live

(* Resumed, unanswered, retried, given up and cleaned up in any order, the
   operations make their keys and accounts as CreatedPairs says. *)
Pairs == INSTANCE CreatedPairs
ImplementsPairs == Pairs!PairSpec

(* What a synchronisation removes locally does not exist any more ("清理已删除账号",
   management_sync.go).  The code does not keep this: the snapshot's lease does not
   exclude onboarding. *)
PrunedAreGone == [][(known \ known') \cap live = {}]_vars
=============================================================================

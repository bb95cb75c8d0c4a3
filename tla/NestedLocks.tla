----------------------------- MODULE NestedLocks -----------------------------
(***************************************************************************)
(* Nested acquisition (internal/mutationguard/guard.go): what a call of    *)
(* Acquire may take while the contexts around it hold other resources, and *)
(* the in-process locks it takes where the repository keeps no leases.     *)
(*                                                                         *)
(* A call is one execution of Acquire, made in the context of no call or   *)
(* of one that holds its resources (heldResourceState and its parents).    *)
(* Several may be made in one context, by goroutines.  Resources are their *)
(* names in lexicographic order.  The leases themselves, with clocks,      *)
(* failures and preemption, are MutationLease's: here a lease is taken and *)
(* given back in one step.                                                 *)
(***************************************************************************)
EXTENDS Integers, FiniteSets

CONSTANTS
    Calls,
    NoCall,
    Requests,     (* what callers ask for, before it is resolved            *)
    Resources,    (* what is locked                                         *)
    Resolutions,  (* what requests may resolve to                           *)
    Entries,      (* identities of localLock objects                        *)
    MaxDrifts     (* bound on the changes of the resolution                 *)

ASSUME NestedAssumption ==
    /\ IsFiniteSet(Calls) /\ NoCall \notin Calls
    /\ IsFiniteSet(Resources) /\ Resources \subseteq Int
    /\ Resolutions \subseteq [Requests -> (SUBSET Resources) \ {{}}]
    /\ "lease" \notin Entries
    /\ MaxDrifts \in Nat

VARIABLES
    backed,      (* the repository keeps leases (leaseStore)                *)
    resolution,  (* what ResolveMutationResources answers now               *)
    drifts,
    pc,          (* where each call is                                      *)
    above,       (* the calls in whose contexts it was made                 *)
    requested,   (* what it asks for                                        *)
    resolved,    (* what that was resolved to                               *)
    locks,       (* the leases, or the entries with its token               *)
    at,          (* the entry it waits for, or is about to let go           *)
    next,        (* where it goes when it has given everything back         *)
    table,       (* localLockSet.entries                                    *)
    refs,        (* localLock.refs                                          *)
    ready        (* entries whose token is in the channel                   *)

resolver == <<resolution, drifts>>
calls    == <<pc, above, requested, resolved, locks, at, next>>
local    == <<table, refs, ready>>
vars     == <<backed, resolver, calls, local>>

(* A lock is a resource with the entry that was found for it; a lease has none. *)
Lease      == "lease"
AllEntries == Resources \X Entries
NoEntry    == <<>>
Held(c)    == {l[1] : l \in locks[c]}
Refers(c, e) == e \in locks[c] \/ e = at[c]
Unreferred(e) == e \notin table /\ \A c \in Calls : ~Refers(c, e)

Init ==
    /\ backed \in BOOLEAN
    /\ resolution \in Resolutions /\ drifts = 0
    /\ pc = [c \in Calls |-> "none"]
    /\ above = [c \in Calls |-> {}]
    /\ requested = [c \in Calls |-> {}]
    /\ resolved = [c \in Calls |-> {}]
    /\ locks = [c \in Calls |-> {}]
    /\ at = [c \in Calls |-> NoEntry]
    /\ next = [c \in Calls |-> "done"]
    /\ table = {} /\ ready = {}
    /\ refs = [e \in AllEntries |-> 0]

Goes(c, to) == pc' = [pc EXCEPT ![c] = to]

(* Acquire is called in the context of p, which still holds what it took. *)
Call(c, p, asked) ==
    /\ pc[c] = "none"
    /\ p # NoCall => pc[p] = "held"
    /\ above' = [above EXCEPT ![c] = IF p = NoCall THEN {} ELSE above[p] \cup {p}]
    /\ requested' = [requested EXCEPT ![c] = asked]
    /\ Goes(c, "resolving")
    /\ UNCHANGED <<backed, resolver, resolved, locks, at, next, local>>
-----------------------------------------------------------------------------
(* The frames that are active; a released one covers nothing and forbids nothing. *)
Frames(c)      == {a \in above[c] : pc[a] = "held"}
ChainLocked(c) == UNION {resolved[a] : a \in Frames(c)}
ChainAsked(c)  == UNION {requested[a] : a \in Frames(c)}

(* The operators whose comment begins with "Bug" are not part of the model: each
   is a mistake that one of the properties below would find.

   Bug: any order of nested calls is allowed. *)
StopsAtOverlap(c, r) == r \cap ChainLocked(c) # {} \/ requested[c] \cap ChainAsked(c) # {}

(* Bug: only resolved names are compared with those of the chain. *)
StopsByNames(c, r) ==
    \/ r \cap ChainLocked(c) # {}
    \/ \E x \in ChainLocked(c), y \in r : y <= x

(* resolvedResourcesHeld.  A call whose resources the chain holds goes on without
   locks of its own; one that overlaps in part, or whose request the chain has
   under another resolution, or that would lock backwards, is refused.  Neither
   takes anything. *)
Stops(c, r) ==
    \/ r \cap ChainLocked(c) # {}
    \/ requested[c] \cap ChainAsked(c) # {}
    \/ \E x \in ChainLocked(c), y \in r : y <= x

ResolvedNow(c) == UNION {resolution[q] : q \in requested[c]}

Resolve(c) ==
    /\ pc[c] = "resolving"
    /\ resolved' = [resolved EXCEPT ![c] = ResolvedNow(c)]
    /\ Goes(c, IF Stops(c, ResolvedNow(c)) THEN "done" ELSE IF backed THEN "trying" ELSE "locking")
    /\ UNCHANGED <<backed, resolver, above, requested, locks, at, next, local>>

(* AcquireMutationLease: all of them or, for now, none. *)
TakeLease(c) ==
    /\ pc[c] = "trying"
    /\ \A d \in Calls \ {c} : Held(d) \cap resolved[c] = {}
    /\ locks' = [locks EXCEPT ![c] = resolved[c] \X {Lease}]
    /\ Goes(c, "confirming")
    /\ UNCHANGED <<backed, resolver, above, requested, resolved, at, next, local>>
-----------------------------------------------------------------------------
(* localLockSet.acquire: one after the other, in order. *)
Todo(c) == resolved[c] \ Held(c)
IsNext(c, r) == r \in Todo(c) /\ \A s \in Todo(c) : r <= s

(* acquireOne: under the mutex it finds the resource's entry or creates one. *)
Refer(c) ==
    /\ pc[c] = "locking" /\ at[c] = NoEntry
    /\ \E e \in AllEntries :
          /\ IsNext(c, e[1])
          /\ \/ e \in table /\ UNCHANGED <<table, ready>>
             \/ /\ \A d \in table : d[1] # e[1]
                /\ Unreferred(e)
                /\ table' = table \cup {e} /\ ready' = ready \cup {e}
          /\ refs' = [refs EXCEPT ![e] = @ + 1]
          /\ at' = [at EXCEPT ![c] = e]
    /\ UNCHANGED <<backed, resolver, pc, above, requested, resolved, locks, next>>

(* It receives the token. *)
TakeToken(c) ==
    /\ pc[c] = "locking" /\ at[c] \in ready
    /\ ready' = ready \ {at[c]}
    /\ locks' = [locks EXCEPT ![c] = @ \cup {at[c]}]
    /\ at' = [at EXCEPT ![c] = NoEntry]
    /\ Goes(c, IF Todo(c) = {at[c][1]} THEN "confirming" ELSE "locking")
    /\ UNCHANGED <<backed, resolver, above, requested, resolved, next, table, refs>>

(* Bug: an entry is forgotten by the first that lets it go. *)
LetGoForgets(e) ==
    /\ refs' = [refs EXCEPT ![e] = @ - 1]
    /\ table' = table \ {e}

(* releaseReference: the last one to refer to it deletes the entry. *)
LetGo(e) ==
    /\ refs' = [refs EXCEPT ![e] = @ - 1]
    /\ table' = IF refs[e] = 1 THEN table \ {e} ELSE table

(* What was taken is given back, and the call goes on from there. *)
GivesBack(c, to) ==
    /\ next' = [next EXCEPT ![c] = to]
    /\ Goes(c, IF locks[c] = {} THEN to ELSE "releasing")

(* Bug: whoever gives up waiting keeps its reference. *)
GiveUpReferring(c) ==
    /\ pc[c] \in {"resolving", "trying", "locking", "confirming"}
    /\ at' = [at EXCEPT ![c] = NoEntry]
    /\ GivesBack(c, "done")
    /\ UNCHANGED <<backed, resolver, above, requested, resolved, locks, local>>

(* The context ends, or the resolution or the database fails. *)
GiveUp(c) ==
    /\ pc[c] \in {"resolving", "trying", "locking", "confirming"}
    /\ IF at[c] = NoEntry THEN UNCHANGED <<refs, table>> ELSE LetGo(at[c])
    /\ at' = [at EXCEPT ![c] = NoEntry]
    /\ GivesBack(c, "done")
    /\ UNCHANGED <<backed, resolver, above, requested, resolved, locks, ready>>

(* The request is resolved once more and must not have changed. *)
Confirm(c) ==
    /\ pc[c] = "confirming"
    /\ IF ResolvedNow(c) = resolved[c]
       THEN Goes(c, "held") /\ UNCHANGED next
       ELSE GivesBack(c, "resolving")
    /\ UNCHANGED <<backed, resolver, above, requested, resolved, locks, at, local>>

(* release: the frame is inactive at once. *)
Release(c) ==
    /\ pc[c] = "held"
    /\ GivesBack(c, "done")
    /\ UNCHANGED <<backed, resolver, above, requested, resolved, locks, at, local>>

ReturnLease(c) ==
    /\ backed /\ pc[c] = "releasing"
    /\ locks' = [locks EXCEPT ![c] = {}]
    /\ Goes(c, next[c])
    /\ UNCHANGED <<backed, resolver, above, requested, resolved, at, next, local>>

(* The tokens go back in the opposite order, each before its reference. *)
ReturnToken(c) ==
    /\ ~backed /\ pc[c] = "releasing" /\ at[c] = NoEntry
    /\ \E e \in locks[c] :
          /\ \A r \in Held(c) : r <= e[1]
          /\ ready' = ready \cup {e}
          /\ locks' = [locks EXCEPT ![c] = @ \ {e}]
          /\ at' = [at EXCEPT ![c] = e]
    /\ UNCHANGED <<backed, resolver, pc, above, requested, resolved, next, table, refs>>

DropReference(c) ==
    /\ pc[c] = "releasing" /\ at[c] # NoEntry
    /\ LetGo(at[c])
    /\ at' = [at EXCEPT ![c] = NoEntry]
    /\ Goes(c, IF locks[c] = {} THEN next[c] ELSE "releasing")
    /\ UNCHANGED <<backed, resolver, above, requested, resolved, locks, next, ready>>
-----------------------------------------------------------------------------
(* The identities behind the requests change (upstream reconciliation). *)
Drift ==
    /\ drifts < MaxDrifts /\ drifts' = drifts + 1
    /\ resolution' \in Resolutions
    /\ UNCHANGED <<backed, calls, local>>

(* Every call has been made and has ended. *)
Finished == (\A c \in Calls : pc[c] = "done") /\ UNCHANGED vars

Step(c) ==
    \/ Resolve(c) \/ TakeLease(c) \/ Refer(c) \/ TakeToken(c) \/ Confirm(c) \/ GiveUp(c)
    \/ Release(c) \/ ReturnLease(c) \/ ReturnToken(c) \/ DropReference(c)

Next ==
    \/ \E c \in Calls : \/ \E p \in Calls \cup {NoCall}, asked \in (SUBSET Requests) \ {{}} : Call(c, p, asked)
                        \/ Step(c)
    \/ Drift
    \/ Finished

Spec == Init /\ [][Next]_vars
-----------------------------------------------------------------------------
TypeOK ==
    /\ backed \in BOOLEAN
    /\ resolution \in Resolutions /\ drifts \in Nat
    /\ pc \in [Calls -> {"none", "resolving", "trying", "locking", "confirming", "held",
                         "releasing", "done"}]
    /\ above \in [Calls -> SUBSET Calls]
    /\ requested \in [Calls -> SUBSET Requests]
    /\ resolved \in [Calls -> SUBSET Resources]
    /\ locks \in [Calls -> SUBSET (Resources \X (Entries \cup {Lease}))]
    /\ at \in [Calls -> AllEntries \cup {NoEntry}]
    /\ next \in [Calls -> {"resolving", "done"}]
    /\ table \subseteq AllEntries /\ ready \subseteq AllEntries
    /\ refs \in [AllEntries -> Int]

(* What keeps c from going on: a lock of d that it wants, or a call made in its
   own context, which it waits for before it releases. *)
WaitsFor(c, d) ==
    \/ c # d /\ pc[c] = "trying" /\ Held(d) \cap resolved[c] # {}
    \/ c # d /\ pc[c] = "locking" /\ at[c] \in locks[d]
    \/ pc[c] = "held" /\ c \in above[d] /\ pc[d] \notin {"none", "done"}

(* Nobody waits in a circle, for a deadline to end it: of any calls at least one
   waits for none of the others.  This holds across chains of nested calls,
   goroutines in one context and resolutions that change, because of the order
   in which a chain may lock (guard.go:376). *)
NoCircularWait ==
    \A S \in (SUBSET Calls) \ {{}} : \E c \in S : \A d \in S : ~WaitsFor(c, d)

(* No resource is locked by two calls, although entries are deleted and created
   anew while others wait for them (guard.go:769). *)
Exclusive == \A c, d \in Calls : c # d => Held(c) \cap Held(d) = {}

(* An entry exists exactly while somebody refers to it: none is deleted under a
   waiter, none is left by one that gave up (guard.go:748). *)
EntriesExact ==
    \A e \in AllEntries :
        /\ refs[e] = Cardinality({c \in Calls : Refers(c, e)})
        /\ e \in table <=> refs[e] > 0

(* Along a chain no request is locked twice, not even when it resolves to
   something else by the time of the second call (guard.go:387). *)
LockedOnce ==
    \A c \in Calls : pc[c] = "held" =>
        /\ requested[c] \cap ChainAsked(c) = {}
        /\ resolved[c] \cap ChainLocked(c) = {}
=============================================================================

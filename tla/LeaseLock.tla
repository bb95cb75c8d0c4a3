------------------------------ MODULE LeaseLock ------------------------------
(***************************************************************************)
(* What the mutation guard promises: the calls in force at any moment hold *)
(* disjoint sets of resources.  A call comes into force with all of its    *)
(* resources or none, ends once, and never comes back into force.          *)
(***************************************************************************)
CONSTANTS Calls, Resources

VARIABLES
    inForce,   (* the calls whose guarded context may still be used *)
    held,      (* the resources of each call                        *)
    ended      (* the calls that were in force and no longer are    *)

lockVars == <<inForce, held, ended>>

LockInit ==
    /\ inForce = {} /\ ended = {}
    /\ held = [c \in Calls |-> {}]

(* Calls not in force may change their minds about what they want. *)
KeepHeld == \A c \in inForce : held'[c] = held[c]

Grant(c) ==
    /\ c \notin inForce \cup ended
    /\ \A d \in inForce : held[d] \cap held[c] = {}
    /\ inForce' = inForce \cup {c}
    /\ UNCHANGED <<held, ended>>

(* Time may end several calls at once, some before they came into force. *)
End(S) ==
    /\ inForce' = inForce \ S
    /\ ended' = ended \cup S
    /\ KeepHeld

Rethink ==
    /\ KeepHeld
    /\ UNCHANGED <<inForce, ended>>

LockNext ==
    \/ \E c \in Calls : Grant(c)
    \/ \E S \in SUBSET (Calls \ ended) : End(S)
    \/ Rethink

LockSpec == LockInit /\ [][LockNext]_lockVars
=============================================================================

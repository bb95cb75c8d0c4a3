---------------------------- MODULE TaskLifecycle ----------------------------
(***************************************************************************)
(* What the task store promises about each task: it is accepted once, ends *)
(* once, keeps its verdict, and once deleted is gone for good; and of the  *)
(* tasks that share an operation at most one is active at any time.        *)
(***************************************************************************)
CONSTANTS Tasks, Verdicts, Rivals   (* Rivals(t): the tasks t excludes *)

VARIABLE life

LifeInit == life = [t \in Tasks |-> "absent"]

Moves(t, from, to) == life[t] \in from /\ life' = [life EXCEPT ![t] = to]

Accept(t) == Moves(t, {"absent"}, "active") /\ \A r \in Rivals[t] : life[r] # "active"

(* A task may be recorded with its verdict at once. *)
End(t) == \E v \in Verdicts : Moves(t, {"absent", "active"}, v)

(* Startup ends every task it cannot resume, and a cleanup deletes many. *)
EndMany(S, v) ==
    /\ \A t \in S : life[t] = "active"
    /\ life' = [t \in Tasks |-> IF t \in S THEN v ELSE life[t]]
DeleteMany(S) ==
    /\ \A t \in S : life[t] \in Verdicts
    /\ life' = [t \in Tasks |-> IF t \in S THEN "deleted" ELSE life[t]]

LifeNext ==
    \/ \E t \in Tasks : Accept(t) \/ End(t)
    \/ \E S \in SUBSET Tasks : DeleteMany(S) \/ \E v \in Verdicts : EndMany(S, v)

LifeSpec == LifeInit /\ [][LifeNext]_life
=============================================================================

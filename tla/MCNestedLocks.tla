---------------------------- MODULE MCNestedLocks ----------------------------
(* NestedLocks for TLC: two hosts that exchange or share their identities. *)
EXTENDS NestedLocks, TLC

CONSTANTS q1, q2

Identities == {q1 :> {1} @@ q2 :> {2}, q1 :> {2} @@ q2 :> {1}, q1 :> {1, 2} @@ q2 :> {2}}
Symmetry == Permutations(Calls)
=============================================================================

--------------------------- MODULE MCRoutingWrite ---------------------------
(* Two accounts of one upstream with room for two: one can have it all, or
   each can have one. *)
EXTENDS RoutingWrite, TLC

(* One of each: at work with a concurrency of one, paused with two. *)
OneOrTwo == {[on |-> TRUE, conc |-> 1], [on |-> FALSE, conc |-> 2]}

(* The accounts are alike at first; a round may leave them otherwise. *)
AlikeInit == Init /\ \A a, b \in Accounts : remote[a] = remote[b]
AlikeSpec == AlikeInit /\ [][Next]_vars

AccountSymmetry == Permutations(Accounts)
=============================================================================

--------------------------- MODULE MCMutationLease ---------------------------
(* MutationLease for TLC: two hosts that are separate upstreams or share one
   identity, so that calls that name different hosts may conflict; an account
   may be attached to both of them. *)
EXTENDS MutationLease, TLC

CONSTANTS h1, h2, acc, c1, c2, c3

OneHost       == {[q \in {h1} |-> {q}]}
SharedOrNot   == {[q \in {h1, h2} |-> {q}], [q \in {h1, h2} |-> {h1, h2}],
                  [q \in {h1, h2} |-> {q, acc}]}
SameRequest   == [c \in Calls |-> h1]
TwoRequests   == (c1 :> h1) @@ (c2 :> h2)
=============================================================================

------------------------------ MODULE SlotPool ------------------------------
(***************************************************************************)
(* What a task group promises its callers about execution slots, without   *)
(* counters, queues or wake-ups: a slot is taken only while the pool is    *)
(* open and the holders are fewer than the limit in force (0 means no      *)
(* limit), the limit may change at any time without touching the holders,  *)
(* and a closed pool never hands out a slot again.                         *)
(***************************************************************************)
EXTENDS Integers, FiniteSets

CONSTANTS Workers, Limits

VARIABLES holders, limit, open

poolVars == <<holders, limit, open>>

PoolInit ==
    /\ holders = {}
    /\ limit \in Limits \cup {0}
    /\ open = TRUE

Take(w) ==
    /\ open
    /\ w \notin holders
    /\ limit = 0 \/ Cardinality(holders) < limit
    /\ holders' = holders \cup {w}
    /\ UNCHANGED <<limit, open>>

Return(w) ==
    /\ w \in holders
    /\ holders' = holders \ {w}
    /\ UNCHANGED <<limit, open>>

Resize(l) ==
    /\ limit' = l
    /\ UNCHANGED <<holders, open>>

Close ==
    /\ open' = FALSE
    /\ UNCHANGED <<holders, limit>>

PoolNext ==
    \/ \E w \in Workers : Take(w) \/ Return(w)
    \/ \E l \in Limits : Resize(l)
    \/ Close

PoolSpec == PoolInit /\ [][PoolNext]_poolVars
=============================================================================

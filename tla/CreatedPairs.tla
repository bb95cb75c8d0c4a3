---------------------------- MODULE CreatedPairs ----------------------------
(***************************************************************************)
(* What the console promises about the things it makes, without rows,      *)
(* flags, retries or answers: an operation makes a key, once, and then an  *)
(* account that uses it, once; nothing is made twice, comes back or        *)
(* changes hands; and a binding joins an account with the key it uses, of  *)
(* one operation.                                                          *)
(***************************************************************************)
CONSTANTS Ops, Keys, Accounts, None

VARIABLES
    maker,   (* the operation that has made a key or an account *)
    uses,    (* the key of an account                           *)
    live,    (* what has been made and has not been deleted     *)
    bound    (* the accounts recorded with their keys           *)

pairVars == <<maker, uses, live, bound>>

PairInit ==
    /\ maker = [x \in Keys \cup Accounts |-> None]
    /\ uses = [a \in Accounts |-> None]
    /\ live = {} /\ bound = {}

Makes(o, x, kind) ==
    /\ \A y \in kind : maker[y] # o
    /\ maker[x] = None
    /\ maker' = [maker EXCEPT ![x] = o]
    /\ live' = live \cup {x}
    /\ UNCHANGED bound

MakeKey(o, k) == Makes(o, k, Keys) /\ UNCHANGED uses

MakeAccount(o, a) ==
    /\ Makes(o, a, Accounts)
    /\ \E k \in Keys : maker[k] = o /\ uses' = [uses EXCEPT ![a] = k]

Delete(x) ==
    /\ live' = live \ {x}
    /\ UNCHANGED <<maker, uses, bound>>

Bind(a, k) ==
    /\ maker[a] # None /\ maker[a] = maker[k] /\ uses[a] = k
    /\ bound' = bound \cup {<<a, k>>}
    /\ UNCHANGED <<maker, uses, live>>

(* Of many accounts at once, by a synchronisation. *)
Unbind(S) ==
    /\ bound' = {b \in bound : b[1] \notin S}
    /\ UNCHANGED <<maker, uses, live>>

PairNext ==
    \/ \E o \in Ops : \/ \E k \in Keys : MakeKey(o, k)
                      \/ \E a \in Accounts : MakeAccount(o, a)
    \/ \E x \in live : Delete(x)
    \/ \E a \in Accounts, k \in Keys : Bind(a, k)
    \/ \E S \in SUBSET Accounts : Unbind(S)

PairSpec == PairInit /\ [][PairNext]_pairVars
=============================================================================

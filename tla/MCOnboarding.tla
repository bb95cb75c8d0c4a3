---------------------------- MODULE MCOnboarding ----------------------------
EXTENDS Onboarding, TLC

CONSTANTS i1, i2, o1, o2, k1, k2, a1, a2

(* Intents, operations, keys and accounts are interchangeable. *)
Alike == UNION {Permutations(Intents), Permutations(Ops), Permutations(Keys), Permutations(Accounts)}
=============================================================================

-------------------------- MODULE NestedLocksProofs --------------------------
(***************************************************************************)
(* Proofs about NestedLocks, for any calls, chains of contexts, requests   *)
(* and resolutions that change at any time: whatever is held excludes      *)
(* others, no chain locks a request twice, no entry is lost or left, and   *)
(* no calls wait for each other in a circle.                               *)
(***************************************************************************)
EXTENDS NestedLocks, FiniteSetTheorems, WellFoundedInduction, TLAPS

(* A context is used once its call holds something, and by a call that has a
   context of its own, and all the contexts around that one. *)
AboveInv ==
    \A c \in Calls : \A a \in above[c] :
        /\ a # c /\ above[a] \subseteq above[c]
        /\ pc[c] # "none"
        /\ pc[a] \in {"held", "done"} \/ (pc[a] = "releasing" /\ next[a] = "done")

(* What a call has got leave to take lies beyond all that its chain holds, and
   was asked for by nobody in the chain. *)
Leave == {"trying", "locking", "confirming", "held"}
ChainInv ==
    \A c \in Calls : pc[c] \in Leave => \A a \in Frames(c) :
        /\ \A x \in resolved[a], y \in resolved[c] : x < y
        /\ requested[a] \cap requested[c] = {}

(* The locks of a call are some of its resources, taken in order. *)
LocksInv ==
    \A c \in Calls :
        /\ \A l \in locks[c] : l[1] \in resolved[c]
        /\ pc[c] \in {"none", "resolving", "trying", "done"} => locks[c] = {}
        /\ pc[c] = "locking" => \A x \in Held(c), y \in Todo(c) : x < y

(* Who refers to an entry without its token waits for the token, in order, or has
   just given it back. *)
AtInv ==
    \A c \in Calls : at[c] # NoEntry =>
        /\ pc[c] \in {"locking", "releasing"}
        /\ at[c] \notin locks[c]
        /\ pc[c] = "locking" => IsNext(c, at[c][1])

(* There are leases or entries, never both. *)
ModeInv ==
    /\ backed => /\ table = {} /\ ready = {} /\ refs = [e \in AllEntries |-> 0]
                 /\ \A c \in Calls : /\ at[c] = NoEntry /\ pc[c] # "locking"
                                     /\ \A l \in locks[c] : l[2] = Lease
    /\ ~backed => \A c \in Calls : pc[c] # "trying" /\ locks[c] \subseteq AllEntries

(* A resource has one entry, and its token is in one place. *)
TokenInv ==
    /\ \A e, f \in table : e[1] = f[1] => e = f
    /\ \A c \in Calls : locks[c] \cap ready = {}
    /\ \A c, d \in Calls : c # d => locks[c] \cap locks[d] = {}

Inv == /\ TypeOK /\ AboveInv /\ ChainInv /\ LocksInv /\ AtInv /\ ModeInv /\ TokenInv
       /\ EntriesExact
-----------------------------------------------------------------------------
(* Whatever requests resolve to are resources. *)
LEMMA ResolvedType ==
  ASSUME TypeOK, NEW c \in Calls
  PROVE  ResolvedNow(c) \subseteq Resources
BY NestedAssumption DEF TypeOK, ResolvedNow

(* Every step keeps the variables in their ranges. *)
LEMMA TypeStep == TypeOK /\ ModeInv /\ [Next]_vars => TypeOK'
<1> SUFFICES ASSUME TypeOK /\ ModeInv, [Next]_vars PROVE TypeOK'
    OBVIOUS
<1>1. ASSUME NEW c \in Calls, NEW p \in Calls \cup {NoCall}, NEW asked \in (SUBSET Requests) \ {{}},
             Call(c, p, asked)
      PROVE  TypeOK'
    BY <1>1, NestedAssumption DEF TypeOK, Call, Goes, resolver, calls, local
<1>2. ASSUME NEW c \in Calls, Resolve(c) PROVE TypeOK'
    BY <1>2, ResolvedType DEF TypeOK, Goes, resolver, calls, local, Resolve
<1>3. ASSUME NEW c \in Calls, TakeLease(c) PROVE TypeOK'
    BY <1>3 DEF TypeOK, AllEntries, Goes, resolver, calls, local, Lease, TakeLease
<1>4. ASSUME NEW c \in Calls, Refer(c) PROVE TypeOK'
    BY <1>4 DEF TypeOK, AllEntries, Goes, resolver, calls, local, NoEntry, Refer
<1>5. ASSUME NEW c \in Calls, TakeToken(c) PROVE TypeOK'
    BY <1>5 DEF TypeOK, AllEntries, Goes, resolver, calls, local, NoEntry, TakeToken
<1>6. ASSUME NEW c \in Calls, GiveUp(c) PROVE TypeOK'
    BY <1>6 DEF TypeOK, AllEntries, Goes, resolver, calls, local, GivesBack, LetGo, NoEntry, GiveUp
<1>7. ASSUME NEW c \in Calls, Confirm(c) PROVE TypeOK'
    BY <1>7 DEF TypeOK, AllEntries, Goes, resolver, calls, local, GivesBack, Confirm
<1>8. ASSUME NEW c \in Calls, Release(c) PROVE TypeOK'
    BY <1>8 DEF TypeOK, AllEntries, Goes, resolver, calls, local, GivesBack, Release
<1>9. ASSUME NEW c \in Calls, ReturnLease(c) PROVE TypeOK'
    BY <1>9 DEF TypeOK, AllEntries, Goes, resolver, calls, local, ReturnLease
<1>10. ASSUME NEW c \in Calls, ReturnToken(c) PROVE TypeOK'
    BY <1>10 DEF TypeOK, ModeInv, Goes, resolver, calls, local, NoEntry, ReturnToken
<1>11. ASSUME NEW c \in Calls, DropReference(c) PROVE TypeOK'
    BY <1>11 DEF TypeOK, AllEntries, Goes, resolver, calls, local, LetGo, NoEntry, DropReference
<1>12. CASE Drift
    BY <1>12 DEF TypeOK, Drift, calls, local
<1>13. CASE UNCHANGED vars
    BY <1>13 DEF TypeOK, vars, resolver, calls, local
<1>14. QED
    BY <1>1, <1>2, <1>3, <1>4, <1>5, <1>6, <1>7, <1>8, <1>9, <1>10, <1>11, <1>12, <1>13 DEF Next, Step, Finished

(* Contexts are made of calls that have been granted, and stay what they are. *)
LEMMA AboveStep == TypeOK /\ AboveInv /\ [Next]_vars => AboveInv'
<1> SUFFICES ASSUME TypeOK /\ AboveInv, [Next]_vars PROVE AboveInv'
    OBVIOUS
<1>1. ASSUME NEW c \in Calls, NEW p \in Calls \cup {NoCall}, NEW asked \in (SUBSET Requests) \ {{}},
             Call(c, p, asked)
      PROVE  AboveInv'
    BY <1>1, NestedAssumption DEF TypeOK, AboveInv, Call, Goes
<1>2. ASSUME NEW c \in Calls, Resolve(c) PROVE AboveInv'
    BY <1>2 DEF TypeOK, AboveInv, Goes, Resolve
<1>3. ASSUME NEW c \in Calls, TakeLease(c) PROVE AboveInv'
    BY <1>3 DEF TypeOK, AboveInv, Goes, TakeLease
<1>4. ASSUME NEW c \in Calls, Refer(c) PROVE AboveInv'
    BY <1>4 DEF TypeOK, AboveInv, Goes, Refer
<1>5. ASSUME NEW c \in Calls, TakeToken(c) PROVE AboveInv'
    BY <1>5 DEF TypeOK, AboveInv, Goes, TakeToken
<1>6. ASSUME NEW c \in Calls, GiveUp(c) PROVE AboveInv'
    BY <1>6 DEF TypeOK, AboveInv, Goes, GivesBack, GiveUp
<1>7. ASSUME NEW c \in Calls, Confirm(c) PROVE AboveInv'
    BY <1>7 DEF TypeOK, AboveInv, Goes, GivesBack, Confirm
<1>8. ASSUME NEW c \in Calls, Release(c) PROVE AboveInv'
    BY <1>8 DEF TypeOK, AboveInv, Goes, GivesBack, Release
<1>9. ASSUME NEW c \in Calls, ReturnLease(c) PROVE AboveInv'
    BY <1>9 DEF TypeOK, AboveInv, Goes, ReturnLease
<1>10. ASSUME NEW c \in Calls, ReturnToken(c) PROVE AboveInv'
    BY <1>10 DEF TypeOK, AboveInv, Goes, ReturnToken
<1>11. ASSUME NEW c \in Calls, DropReference(c) PROVE AboveInv'
    BY <1>11 DEF TypeOK, AboveInv, Goes, DropReference
<1>12. CASE Drift
    BY <1>12 DEF AboveInv, Drift, calls
<1>13. CASE UNCHANGED vars
    BY <1>13 DEF AboveInv, vars, calls
<1>14. QED
    BY <1>1, <1>2, <1>3, <1>4, <1>5, <1>6, <1>7, <1>8, <1>9, <1>10, <1>11, <1>12, <1>13 DEF Next, Step, Finished

(* What a call may take once it has not been stopped. *)
LEMMA LeaveGranted ==
  ASSUME TypeOK, NEW c \in Calls, NEW r \in SUBSET Resources, ~Stops(c, r), NEW a \in Frames(c)
  PROVE  /\ \A x \in resolved[a], y \in r : x < y
         /\ requested[a] \cap requested[c] = {}
<1>1. a \in Calls /\ resolved[a] \subseteq Resources
    BY DEF TypeOK, Frames
<1>2. resolved[a] \subseteq ChainLocked(c) /\ requested[a] \subseteq ChainAsked(c)
    BY DEF ChainLocked, ChainAsked
<1>3. ASSUME NEW x \in resolved[a], NEW y \in r PROVE x < y
    <2>1. x \in Int /\ y \in Int /\ ~(y <= x)
        BY <1>1, <1>2, NestedAssumption DEF Stops
    <2>2. QED
        BY <2>1
<1>4. requested[a] \cap requested[c] = {}
    BY <1>2 DEF Stops
<1>5. QED
    BY <1>3, <1>4

(* The chain of a call that may take what it asked for only shrinks. *)
LEMMA ChainStep == TypeOK /\ AboveInv /\ ChainInv /\ [Next]_vars => ChainInv'
<1> SUFFICES ASSUME TypeOK /\ AboveInv /\ ChainInv, [Next]_vars PROVE ChainInv'
    OBVIOUS
<1>1. ASSUME NEW c \in Calls, NEW p \in Calls \cup {NoCall}, NEW asked \in (SUBSET Requests) \ {{}},
             Call(c, p, asked)
      PROVE  ChainInv'
    BY <1>1, NestedAssumption DEF TypeOK, AboveInv, ChainInv, Frames, Leave, Call, Goes
<1>2. ASSUME NEW c \in Calls, Resolve(c) PROVE ChainInv'
    <2>1. ResolvedNow(c) \in SUBSET Resources
        BY ResolvedType
    <2> SUFFICES ASSUME NEW d \in Calls, pc'[d] \in Leave, NEW a \in above[d], pc'[a] = "held"
                 PROVE  /\ \A x \in resolved'[a], y \in resolved'[d] : x < y
                        /\ requested[a] \cap requested[d] = {}
        BY <1>2 DEF ChainInv, Frames, Resolve
    <2>2. a # c /\ a # d /\ a \in Calls /\ pc[a] = "held"
        BY <1>2 DEF AboveInv, TypeOK, Resolve, Goes
    <2>3. CASE d = c
        BY <2>1, <2>2, <2>3, <1>2, LeaveGranted DEF Frames, Leave, Resolve, Goes, TypeOK
    <2>4. CASE d # c
        BY <2>2, <2>4, <1>2 DEF ChainInv, Frames, Leave, Resolve, Goes, TypeOK
    <2>5. QED
        BY <2>3, <2>4
<1>3. ASSUME NEW c \in Calls, TakeLease(c) PROVE ChainInv'
    BY <1>3 DEF TypeOK, AboveInv, ChainInv, Frames, Leave, Goes, TakeLease
<1>4. ASSUME NEW c \in Calls, Refer(c) PROVE ChainInv'
    BY <1>4 DEF TypeOK, AboveInv, ChainInv, Frames, Leave, Goes, Refer
<1>5. ASSUME NEW c \in Calls, TakeToken(c) PROVE ChainInv'
    BY <1>5 DEF TypeOK, AboveInv, ChainInv, Frames, Leave, Goes, TakeToken
<1>6. ASSUME NEW c \in Calls, GiveUp(c) PROVE ChainInv'
    BY <1>6 DEF TypeOK, AboveInv, ChainInv, Frames, Leave, Goes, GivesBack, GiveUp
<1>7. ASSUME NEW c \in Calls, Confirm(c) PROVE ChainInv'
    BY <1>7 DEF TypeOK, AboveInv, ChainInv, Frames, Leave, Goes, GivesBack, Confirm
<1>8. ASSUME NEW c \in Calls, Release(c) PROVE ChainInv'
    BY <1>8 DEF TypeOK, AboveInv, ChainInv, Frames, Leave, Goes, GivesBack, Release
<1>9. ASSUME NEW c \in Calls, ReturnLease(c) PROVE ChainInv'
    BY <1>9 DEF TypeOK, AboveInv, ChainInv, Frames, Leave, Goes, ReturnLease
<1>10. ASSUME NEW c \in Calls, ReturnToken(c) PROVE ChainInv'
    BY <1>10 DEF TypeOK, AboveInv, ChainInv, Frames, Leave, Goes, ReturnToken
<1>11. ASSUME NEW c \in Calls, DropReference(c) PROVE ChainInv'
    BY <1>11 DEF TypeOK, AboveInv, ChainInv, Frames, Leave, Goes, DropReference
<1>12. CASE Drift
    BY <1>12 DEF ChainInv, Frames, Drift, calls
<1>13. CASE UNCHANGED vars
    BY <1>13 DEF ChainInv, Frames, vars, calls
<1>14. QED
    BY <1>1, <1>2, <1>3, <1>4, <1>5, <1>6, <1>7, <1>8, <1>9, <1>10, <1>11, <1>12, <1>13 DEF Next, Step, Finished

(* Locks are taken in order, and all of them given back. *)
LEMMA LocksStep == TypeOK /\ AtInv /\ ModeInv /\ LocksInv /\ [Next]_vars => LocksInv'
<1> SUFFICES ASSUME TypeOK /\ AtInv /\ ModeInv /\ LocksInv, [Next]_vars PROVE LocksInv'
    OBVIOUS
<1>1. ASSUME NEW c \in Calls, NEW p \in Calls \cup {NoCall}, NEW asked \in (SUBSET Requests) \ {{}},
             Call(c, p, asked)
      PROVE  LocksInv'
    BY <1>1, NestedAssumption DEF TypeOK, LocksInv, Held, Todo, Call, Goes
<1>2. ASSUME NEW c \in Calls, Resolve(c) PROVE LocksInv'
    BY <1>2 DEF TypeOK, LocksInv, Held, Todo, Goes, Resolve
<1>3. ASSUME NEW c \in Calls, TakeLease(c) PROVE LocksInv'
    BY <1>3 DEF TypeOK, LocksInv, Held, Todo, Goes, TakeLease
<1>4. ASSUME NEW c \in Calls, Refer(c) PROVE LocksInv'
    BY <1>4 DEF TypeOK, LocksInv, Held, Todo, Goes, Refer
<1>5. ASSUME NEW c \in Calls, TakeToken(c) PROVE LocksInv'
    <2>1. at[c] # NoEntry /\ IsNext(c, at[c][1])
        BY <1>5 DEF TypeOK, AtInv, ModeInv, TakeToken, NoEntry, AllEntries
    <2>2. Held(c)' = Held(c) \cup {at[c][1]}
        BY <1>5 DEF TypeOK, TakeToken, Held
    <2>3. \A d \in Calls \ {c} : locks'[d] = locks[d] /\ pc'[d] = pc[d]
        BY <1>5 DEF TypeOK, TakeToken, Goes
    <2>4. \A l \in locks'[c] : l[1] \in resolved[c]
        BY <1>5, <2>1 DEF TypeOK, TakeToken, LocksInv, IsNext, Todo
    <2>5. ASSUME NEW x \in Held(c)', NEW y \in Todo(c)' PROVE x < y
        <3>1. y \in Todo(c) /\ y # at[c][1] /\ at[c][1] \in Todo(c) /\ at[c][1] <= y
            BY <1>5, <2>1, <2>2 DEF TakeToken, Todo, IsNext
        <3>2. y \in Int /\ at[c][1] \in Int
            BY <3>1, NestedAssumption DEF TypeOK, Todo
        <3>3. x \in Held(c) => x < y
            BY <3>1, <1>5 DEF LocksInv, TakeToken
        <3>4. QED
            BY <3>1, <3>2, <3>3, <2>2
    <2>6. QED
        BY <1>5, <2>3, <2>4, <2>5 DEF TypeOK, TakeToken, LocksInv, Held, Todo, Goes
<1>6. ASSUME NEW c \in Calls, GiveUp(c) PROVE LocksInv'
    BY <1>6 DEF TypeOK, LocksInv, Held, Todo, Goes, GivesBack, GiveUp
<1>7. ASSUME NEW c \in Calls, Confirm(c) PROVE LocksInv'
    BY <1>7 DEF TypeOK, LocksInv, Held, Todo, Goes, GivesBack, Confirm
<1>8. ASSUME NEW c \in Calls, Release(c) PROVE LocksInv'
    BY <1>8 DEF TypeOK, LocksInv, Held, Todo, Goes, GivesBack, Release
<1>9. ASSUME NEW c \in Calls, ReturnLease(c) PROVE LocksInv'
    BY <1>9 DEF TypeOK, LocksInv, Held, Todo, Goes, ReturnLease
<1>10. ASSUME NEW c \in Calls, ReturnToken(c) PROVE LocksInv'
    BY <1>10 DEF TypeOK, LocksInv, Held, Todo, Goes, ReturnToken
<1>11. ASSUME NEW c \in Calls, DropReference(c) PROVE LocksInv'
    BY <1>11 DEF TypeOK, LocksInv, Held, Todo, Goes, DropReference
<1>12. CASE Drift
    BY <1>12 DEF LocksInv, Held, Todo, Drift, calls
<1>13. CASE UNCHANGED vars
    BY <1>13 DEF LocksInv, Held, Todo, vars, calls
<1>14. QED
    BY <1>1, <1>2, <1>3, <1>4, <1>5, <1>6, <1>7, <1>8, <1>9, <1>10, <1>11, <1>12, <1>13 DEF Next, Step, Finished

(* A reference without a token is the next lock, or the last given back. *)
LEMMA AtStep == TypeOK /\ AtInv /\ ModeInv /\ LocksInv /\ [Next]_vars => AtInv'
<1> SUFFICES ASSUME TypeOK /\ AtInv /\ ModeInv /\ LocksInv, [Next]_vars PROVE AtInv'
    OBVIOUS
<1>1. ASSUME NEW c \in Calls, NEW p \in Calls \cup {NoCall}, NEW asked \in (SUBSET Requests) \ {{}},
             Call(c, p, asked)
      PROVE  AtInv'
    BY <1>1, NestedAssumption DEF TypeOK, AtInv, IsNext, Held, Todo, Call, Goes
<1>2. ASSUME NEW c \in Calls, Resolve(c) PROVE AtInv'
    BY <1>2 DEF TypeOK, AtInv, ModeInv, IsNext, Held, Todo, Goes, Resolve
<1>3. ASSUME NEW c \in Calls, TakeLease(c) PROVE AtInv'
    BY <1>3 DEF TypeOK, AtInv, ModeInv, IsNext, Held, Todo, Goes, TakeLease
<1>4. ASSUME NEW c \in Calls, Refer(c) PROVE AtInv'
    BY <1>4 DEF TypeOK, AtInv, ModeInv, IsNext, Held, Todo, Goes, Refer
<1>5. ASSUME NEW c \in Calls, TakeToken(c) PROVE AtInv'
    BY <1>5 DEF TypeOK, AtInv, ModeInv, IsNext, Held, Todo, Goes, TakeToken
<1>6. ASSUME NEW c \in Calls, GiveUp(c) PROVE AtInv'
    BY <1>6 DEF TypeOK, AtInv, ModeInv, IsNext, Held, Todo, Goes, GivesBack, GiveUp
<1>7. ASSUME NEW c \in Calls, Confirm(c) PROVE AtInv'
    BY <1>7 DEF TypeOK, AtInv, ModeInv, IsNext, Held, Todo, Goes, GivesBack, Confirm
<1>8. ASSUME NEW c \in Calls, Release(c) PROVE AtInv'
    BY <1>8 DEF TypeOK, AtInv, ModeInv, IsNext, Held, Todo, Goes, GivesBack, Release
<1>9. ASSUME NEW c \in Calls, ReturnLease(c) PROVE AtInv'
    BY <1>9 DEF TypeOK, AtInv, ModeInv, IsNext, Held, Todo, Goes, ReturnLease
<1>10. ASSUME NEW c \in Calls, ReturnToken(c) PROVE AtInv'
    BY <1>10 DEF TypeOK, AtInv, ModeInv, IsNext, Held, Todo, Goes, ReturnToken
<1>11. ASSUME NEW c \in Calls, DropReference(c) PROVE AtInv'
    BY <1>11 DEF TypeOK, AtInv, ModeInv, IsNext, Held, Todo, Goes, DropReference
<1>12. CASE Drift
    BY <1>12 DEF AtInv, IsNext, Held, Todo, Drift, calls
<1>13. CASE UNCHANGED vars
    BY <1>13 DEF AtInv, IsNext, Held, Todo, vars, calls
<1>14. QED
    BY <1>1, <1>2, <1>3, <1>4, <1>5, <1>6, <1>7, <1>8, <1>9, <1>10, <1>11, <1>12, <1>13 DEF Next, Step, Finished

(* Where there are leases there are no entries. *)
LEMMA ModeStep == TypeOK /\ ModeInv /\ [Next]_vars => ModeInv'
<1> SUFFICES ASSUME TypeOK /\ ModeInv, [Next]_vars PROVE ModeInv'
    OBVIOUS
<1>1. ASSUME NEW c \in Calls, NEW p \in Calls \cup {NoCall}, NEW asked \in (SUBSET Requests) \ {{}},
             Call(c, p, asked)
      PROVE  ModeInv'
    BY <1>1, NestedAssumption DEF TypeOK, ModeInv, Call, Goes, local
<1>2. ASSUME NEW c \in Calls, Resolve(c) PROVE ModeInv'
    BY <1>2 DEF TypeOK, ModeInv, Goes, local, resolver, Resolve
<1>3. ASSUME NEW c \in Calls, TakeLease(c) PROVE ModeInv'
    BY <1>3 DEF TypeOK, ModeInv, Goes, local, resolver, Lease, TakeLease
<1>4. ASSUME NEW c \in Calls, Refer(c) PROVE ModeInv'
    BY <1>4 DEF TypeOK, ModeInv, Refer, NoEntry, AllEntries
<1>5. ASSUME NEW c \in Calls, TakeToken(c) PROVE ModeInv'
    BY <1>5 DEF TypeOK, ModeInv, Goes, TakeToken, NoEntry, AllEntries
<1>6. ASSUME NEW c \in Calls, GiveUp(c) PROVE ModeInv'
    BY <1>6 DEF TypeOK, ModeInv, Goes, local, resolver, GivesBack, NoEntry, GiveUp
<1>7. ASSUME NEW c \in Calls, Confirm(c) PROVE ModeInv'
    BY <1>7 DEF TypeOK, ModeInv, Goes, local, resolver, GivesBack, Confirm
<1>8. ASSUME NEW c \in Calls, Release(c) PROVE ModeInv'
    BY <1>8 DEF TypeOK, ModeInv, Goes, local, resolver, GivesBack, Release
<1>9. ASSUME NEW c \in Calls, ReturnLease(c) PROVE ModeInv'
    BY <1>9 DEF TypeOK, ModeInv, Goes, local, resolver, ReturnLease
<1>10. ASSUME NEW c \in Calls, ReturnToken(c) PROVE ModeInv'
    BY <1>10 DEF TypeOK, ModeInv, Goes, local, resolver, NoEntry, ReturnToken
<1>11. ASSUME NEW c \in Calls, DropReference(c) PROVE ModeInv'
    BY <1>11 DEF TypeOK, ModeInv, Goes, local, resolver, NoEntry, DropReference
<1>12. CASE Drift
    BY <1>12 DEF ModeInv, Drift, calls, local
<1>13. CASE UNCHANGED vars
    BY <1>13 DEF ModeInv, vars, calls, local
<1>14. QED
    BY <1>1, <1>2, <1>3, <1>4, <1>5, <1>6, <1>7, <1>8, <1>9, <1>10, <1>11, <1>12, <1>13 DEF Next, Step, Finished

(* Tokens go from the entry to one call and back; no entry gets a second one. *)
LEMMA TokenStep == TypeOK /\ AtInv /\ ModeInv /\ TokenInv /\ [Next]_vars => TokenInv'
<1> SUFFICES ASSUME TypeOK /\ AtInv /\ ModeInv /\ TokenInv, [Next]_vars PROVE TokenInv'
    OBVIOUS
<1>1. ASSUME NEW c \in Calls, NEW p \in Calls \cup {NoCall}, NEW asked \in (SUBSET Requests) \ {{}},
             Call(c, p, asked)
      PROVE  TokenInv'
    BY <1>1 DEF TypeOK, TokenInv, Call, local
<1>2. ASSUME NEW c \in Calls, Resolve(c) PROVE TokenInv'
    BY <1>2 DEF TypeOK, TokenInv, local, Resolve
<1>3. ASSUME NEW c \in Calls, TakeLease(c) PROVE TokenInv'
    BY <1>3 DEF TypeOK, ModeInv, TokenInv, Held, TakeLease, local
<1>4. ASSUME NEW c \in Calls, Refer(c) PROVE TokenInv'
    BY <1>4 DEF TypeOK, TokenInv, Unreferred, Refers, Refer
<1>5. ASSUME NEW c \in Calls, TakeToken(c) PROVE TokenInv'
    BY <1>5 DEF TypeOK, TokenInv, local, TakeToken
<1>6. ASSUME NEW c \in Calls, GiveUp(c) PROVE TokenInv'
    BY <1>6 DEF TypeOK, TokenInv, local, LetGo, GiveUp
<1>7. ASSUME NEW c \in Calls, Confirm(c) PROVE TokenInv'
    BY <1>7 DEF TypeOK, TokenInv, local, Confirm
<1>8. ASSUME NEW c \in Calls, Release(c) PROVE TokenInv'
    BY <1>8 DEF TypeOK, TokenInv, local, Release
<1>9. ASSUME NEW c \in Calls, ReturnLease(c) PROVE TokenInv'
    BY <1>9 DEF TypeOK, TokenInv, local, ReturnLease
<1>10. ASSUME NEW c \in Calls, ReturnToken(c) PROVE TokenInv'
    BY <1>10 DEF TypeOK, TokenInv, local, ReturnToken
<1>11. ASSUME NEW c \in Calls, DropReference(c) PROVE TokenInv'
    BY <1>11 DEF TypeOK, TokenInv, local, LetGo, DropReference
<1>12. CASE Drift
    BY <1>12 DEF TokenInv, Drift, calls, local
<1>13. CASE UNCHANGED vars
    BY <1>13 DEF TokenInv, vars, calls, local
<1>14. QED
    BY <1>1, <1>2, <1>3, <1>4, <1>5, <1>6, <1>7, <1>8, <1>9, <1>10, <1>11, <1>12, <1>13 DEF Next, Step, Finished

(* The entries stay exact when nobody changes what it refers to. *)
LEMMA SameReferences ==
  ASSUME EntriesExact, UNCHANGED <<refs, table>>,
         \A e \in AllEntries, c \in Calls : Refers(c, e)' <=> Refers(c, e)
  PROVE  EntriesExact'
<1>1. ASSUME NEW e \in AllEntries
      PROVE  {c \in Calls : Refers(c, e)}' = {c \in Calls : Refers(c, e)}
    OBVIOUS
<1>2. QED
    BY <1>1 DEF EntriesExact

(* Who refers to an entry is among finitely many. *)
LEMMA References ==
  ASSUME NEW e
  PROVE  /\ IsFiniteSet({c \in Calls : Refers(c, e)})
         /\ Cardinality({c \in Calls : Refers(c, e)}) \in Nat
<1>1. {c \in Calls : Refers(c, e)} \in SUBSET Calls
    OBVIOUS
<1>2. QED
    BY <1>1, FS_Subset, FS_CardinalityType, NestedAssumption

(* Letting go: the entry is deleted by the last one. *)
LEMMA LettingGo ==
  ASSUME TypeOK, AtInv, EntriesExact, NEW c \in Calls, at[c] # NoEntry, LetGo(at[c]),
         at' = [at EXCEPT ![c] = NoEntry], locks' = locks
  PROVE  EntriesExact'
<1>1. at[c] \in AllEntries /\ at[c] \notin locks[c]
    BY DEF TypeOK, AtInv
<1>2. ASSUME NEW e \in AllEntries, NEW d \in Calls
      PROVE  Refers(d, e)' <=> Refers(d, e) /\ ~(d = c /\ e = at[c])
    BY <1>1, <1>2 DEF Refers, TypeOK, NoEntry, AllEntries
<1>3. Refers(c, at[c])
    BY DEF Refers
<1>4. SUFFICES ASSUME NEW e \in AllEntries
               PROVE  /\ refs'[e] = Cardinality({d \in Calls : Refers(d, e)'})
                      /\ e \in table' <=> refs'[e] > 0
    BY DEF EntriesExact
<1>5. CASE e # at[c]
    <2>1. {d \in Calls : Refers(d, e)'} = {d \in Calls : Refers(d, e)}
        BY <1>2, <1>5
    <2>2. QED
        BY <2>1, <1>1, <1>5 DEF EntriesExact, LetGo, TypeOK
<1>6. CASE e = at[c]
    <2>1. {d \in Calls : Refers(d, e)'} = {d \in Calls : Refers(d, e)} \ {c}
        BY <1>2, <1>6
    <2>2. Cardinality({d \in Calls : Refers(d, e)'}) = Cardinality({d \in Calls : Refers(d, e)}) - 1
        <3> DEFINE K == {d \in Calls : Refers(d, e)}
        <3>1. c \in K /\ IsFiniteSet(K)
            BY <1>3, <1>6, References
        <3>2. Cardinality(K \ {c}) = Cardinality(K) - 1
            <4> HIDE DEF K
            <4>1. QED
                BY <3>1, FS_RemoveElement
        <3>3. QED
            BY <2>1, <3>2
    <2>3. refs[e] \in Nat /\ refs[e] = Cardinality({d \in Calls : Refers(d, e)}) /\ refs[e] # 0
        <3>1. refs[e] = Cardinality({d \in Calls : Refers(d, e)})
            BY DEF EntriesExact
        <3>2. {d \in Calls : Refers(d, e)} # {}
            BY <1>3, <1>6
        <3>3. QED
            BY <3>1, <3>2, References, FS_EmptySet
    <2>4. refs'[e] = refs[e] - 1 /\ (e \in table' <=> e \in table /\ refs[e] # 1)
        BY <1>6 DEF LetGo, TypeOK
    <2>5. e \in table
        BY <2>3 DEF EntriesExact
    <2>6. QED
        BY <2>2, <2>3, <2>4, <2>5
<1>7. QED
    BY <1>5, <1>6

(* Referring: a new entry or one more reference. *)
LEMMA Referring ==
  ASSUME TypeOK, LocksInv, ModeInv, EntriesExact, NEW c \in Calls, Refer(c)
  PROVE  EntriesExact'
<1>1. PICK f \in AllEntries : /\ IsNext(c, f[1])
                              /\ table' = table \cup {f}
                              /\ refs' = [refs EXCEPT ![f] = @ + 1]
                              /\ at' = [at EXCEPT ![c] = f]
    BY DEF Refer
<1>2. at[c] = NoEntry /\ f \notin locks[c] /\ locks' = locks
    BY <1>1 DEF Refer, IsNext, Todo, Held
<1>3. ASSUME NEW e \in AllEntries, NEW d \in Calls
      PROVE  Refers(d, e)' <=> Refers(d, e) \/ (d = c /\ e = f)
    BY <1>1, <1>2 DEF Refers, TypeOK, NoEntry, AllEntries
<1>4. ~Refers(c, f)
    BY <1>2 DEF Refers, NoEntry, AllEntries
<1>5. SUFFICES ASSUME NEW e \in AllEntries
               PROVE  /\ refs'[e] = Cardinality({d \in Calls : Refers(d, e)'})
                      /\ e \in table' <=> refs'[e] > 0
    BY DEF EntriesExact
<1>6. CASE e # f
    <2>1. {d \in Calls : Refers(d, e)'} = {d \in Calls : Refers(d, e)}
        BY <1>3, <1>6
    <2>2. QED
        BY <2>1, <1>1, <1>6 DEF EntriesExact, TypeOK
<1>7. CASE e = f
    <2>1. {d \in Calls : Refers(d, e)'} = {d \in Calls : Refers(d, e)} \cup {c}
        BY <1>3, <1>7
    <2>2. Cardinality({d \in Calls : Refers(d, e)'}) = Cardinality({d \in Calls : Refers(d, e)}) + 1
        BY <2>1, <1>4, <1>7, References, FS_AddElement
    <2>3. refs[e] = Cardinality({d \in Calls : Refers(d, e)})
        BY DEF EntriesExact
    <2>4. refs'[e] = refs[e] + 1 /\ e \in table'
        BY <1>1, <1>7 DEF TypeOK
    <2>5. QED
        BY <2>2, <2>3, <2>4, References
<1>8. QED
    BY <1>6, <1>7

(* Every reference is counted, and the last one takes the entry with it. *)
LEMMA EntriesStep == TypeOK /\ AtInv /\ LocksInv /\ ModeInv /\ EntriesExact /\ [Next]_vars => EntriesExact'
<1> SUFFICES ASSUME TypeOK /\ AtInv /\ LocksInv /\ ModeInv /\ EntriesExact, [Next]_vars PROVE EntriesExact'
    OBVIOUS
<1>1. ASSUME NEW c \in Calls, NEW p \in Calls \cup {NoCall}, NEW asked \in (SUBSET Requests) \ {{}},
             Call(c, p, asked)
      PROVE  EntriesExact'
    BY <1>1, SameReferences DEF Call, Refers, local
<1>2. ASSUME NEW c \in Calls, Resolve(c) PROVE EntriesExact'
    BY <1>2, SameReferences DEF TypeOK, ModeInv, AtInv, Refers, local, Resolve
<1>3. ASSUME NEW c \in Calls, TakeLease(c) PROVE EntriesExact'
    <2>1. backed /\ locks[c] = {}
        BY <1>3 DEF ModeInv, LocksInv, TakeLease
    <2>2. \A e \in AllEntries, d \in Calls : Refers(d, e)' <=> Refers(d, e)
        BY <1>3, <2>1, NestedAssumption DEF TypeOK, TakeLease, Refers, AllEntries, Lease
    <2>3. QED
        BY <1>3, <2>2, SameReferences DEF TakeLease, local
<1>4. ASSUME NEW c \in Calls, Refer(c) PROVE EntriesExact'
    BY <1>4, Referring
<1>5. ASSUME NEW c \in Calls, TakeToken(c) PROVE EntriesExact'
    <2>1. at[c] # NoEntry
        BY <1>5 DEF TypeOK, ModeInv, TakeToken, NoEntry, AllEntries
    <2>2. \A e \in AllEntries, d \in Calls : Refers(d, e)' <=> Refers(d, e)
        BY <1>5, <2>1 DEF TypeOK, TakeToken, Refers, AllEntries, NoEntry
    <2>3. QED
        BY <1>5, <2>2, SameReferences DEF TakeToken
<1>6. ASSUME NEW c \in Calls, GiveUp(c) PROVE EntriesExact'
    <2>1. CASE at[c] = NoEntry
        BY <1>6, <2>1, SameReferences DEF TypeOK, GiveUp, Refers
    <2>2. CASE at[c] # NoEntry
        BY <1>6, <2>2, LettingGo DEF GiveUp
    <2>3. QED
        BY <2>1, <2>2
<1>7. ASSUME NEW c \in Calls, Confirm(c) PROVE EntriesExact'
    BY <1>7, SameReferences DEF TypeOK, ModeInv, AtInv, Refers, local, Confirm
<1>8. ASSUME NEW c \in Calls, Release(c) PROVE EntriesExact'
    BY <1>8, SameReferences DEF TypeOK, ModeInv, AtInv, Refers, local, Release
<1>9. ASSUME NEW c \in Calls, ReturnLease(c) PROVE EntriesExact'
    <2>1. \A e \in AllEntries, d \in Calls : Refers(d, e)' <=> Refers(d, e)
        BY <1>9, NestedAssumption DEF TypeOK, ModeInv, ReturnLease, Refers, AllEntries, Lease
    <2>2. QED
        BY <1>9, <2>1, SameReferences DEF ReturnLease, local
<1>10. ASSUME NEW c \in Calls, ReturnToken(c) PROVE EntriesExact'
    <2>1. \A e \in AllEntries, d \in Calls : Refers(d, e)' <=> Refers(d, e)
        BY <1>10 DEF TypeOK, ReturnToken, Refers, AllEntries, NoEntry
    <2>2. QED
        BY <1>10, <2>1, SameReferences DEF ReturnToken
<1>11. ASSUME NEW c \in Calls, DropReference(c) PROVE EntriesExact'
    BY <1>11, LettingGo DEF DropReference
<1>12. CASE Drift
    BY <1>12, SameReferences DEF Drift, calls, local, Refers
<1>13. CASE UNCHANGED vars
    BY <1>13, SameReferences DEF vars, calls, local, Refers
<1>14. QED
    BY <1>1, <1>2, <1>3, <1>4, <1>5, <1>6, <1>7, <1>8, <1>9, <1>10, <1>11, <1>12, <1>13 DEF Next, Step, Finished

-----------------------------------------------------------------------------
(* The inductive invariant holds before the first call. *)
LEMMA InitInv == Init => Inv
<1> SUFFICES ASSUME Init PROVE Inv
    OBVIOUS
<1>1. TypeOK
    BY NestedAssumption DEF Init, TypeOK
<1>2. AboveInv /\ ChainInv /\ LocksInv /\ AtInv /\ ModeInv /\ TokenInv
    BY DEF Init, AboveInv, ChainInv, Frames, Leave, LocksInv, Held, Todo, AtInv, ModeInv, TokenInv
<1>3. EntriesExact
    <2>1. ASSUME NEW e \in AllEntries PROVE {c \in Calls : Refers(c, e)} = {}
        <3>1. ASSUME NEW c \in Calls PROVE ~Refers(c, e)
            <4>1. locks[c] = {} /\ at[c] = <<>>
                BY DEF Init, NoEntry
            <4>2. QED
                BY <4>1 DEF Refers, AllEntries
        <3>2. QED
            BY <3>1
    <2>2. QED
        BY <2>1, FS_EmptySet DEF EntriesExact, Init
<1>4. QED
    BY <1>1, <1>2, <1>3 DEF Inv

(* Every step keeps it. *)
LEMMA StepInv == Inv /\ [Next]_vars => Inv'
BY TypeStep, AboveStep, ChainStep, LocksStep, AtStep, ModeStep, TokenStep, EntriesStep DEF Inv

LEMMA Invariant == Spec => []Inv
<1>1. QED
    BY InitInv, StepInv, PTL DEF Spec

(* The variables keep their ranges: only resources are locked, and calls end in
   one of the states of Acquire. *)
THEOREM TypeCorrect == Spec => []TypeOK
<1>1. Inv => TypeOK
    BY DEF Inv
<1>2. QED
    BY <1>1, Invariant, PTL

(* The in-process locks and the leases are locks: no resource is held twice,
   although entries come and go under those who wait (guard.go:724). *)
THEOREM LocksExclude == Spec => []Exclusive
<1>1. Inv => Exclusive
    <2> SUFFICES ASSUME Inv, NEW c \in Calls, NEW d \in Calls, c # d,
                        NEW k \in locks[c], NEW l \in locks[d], k[1] = l[1]
                 PROVE  FALSE
        BY DEF Exclusive, Held
    <2>1. k # l
        BY DEF Inv, TokenInv
    <2>2. CASE backed
        BY <2>1, <2>2 DEF Inv, TypeOK, ModeInv
    <2>3. CASE ~backed
        <3>1. k \in AllEntries /\ l \in AllEntries
            BY <2>3 DEF Inv, ModeInv
        <3>2. ASSUME NEW e \in AllEntries, NEW b \in Calls, e \in locks[b] PROVE e \in table
            <4>1. b \in {a \in Calls : Refers(a, e)}
                BY <3>2 DEF Refers
            <4>2. Cardinality({a \in Calls : Refers(a, e)}) # 0
                BY <4>1, References, FS_EmptySet
            <4>3. QED
                BY <4>2, References DEF Inv, EntriesExact
        <3>3. k \in table /\ l \in table
            BY <3>1, <3>2
        <3>4. QED
            BY <2>1, <3>3 DEF Inv, TokenInv
    <2>4. QED
        BY <2>2, <2>3
<1>2. QED
    BY <1>1, Invariant, PTL

(* Entries are neither deleted under a waiter nor left behind by one that gave
   up (guard.go:769). *)
THEOREM EntriesAreExact == Spec => []EntriesExact
<1>1. Inv => EntriesExact
    BY DEF Inv
<1>2. QED
    BY <1>1, Invariant, PTL

(* A chain of contexts locks a request once, under whatever resolution
   (guard.go:387). *)
THEOREM ChainsLockOnce == Spec => []LockedOnce
<1>1. Inv => LockedOnce
    <2> SUFFICES ASSUME Inv, NEW c \in Calls, pc[c] = "held"
                 PROVE  /\ requested[c] \cap ChainAsked(c) = {}
                        /\ resolved[c] \cap ChainLocked(c) = {}
        BY DEF LockedOnce
    <2>1. ASSUME NEW a \in Frames(c)
          PROVE  requested[c] \cap requested[a] = {} /\ resolved[c] \cap resolved[a] = {}
        <3>1. a \in Calls /\ resolved[a] \subseteq Int
            BY NestedAssumption DEF Inv, TypeOK, Frames
        <3>2. \A x \in resolved[a], y \in resolved[c] : x < y
            BY DEF Inv, ChainInv, Leave
        <3>3. requested[c] \cap requested[a] = {}
            BY DEF Inv, ChainInv, Leave
        <3>4. QED
            BY <3>1, <3>2, <3>3
    <2>2. QED
        BY <2>1 DEF ChainAsked, ChainLocked
<1>2. QED
    BY <1>1, Invariant, PTL
-----------------------------------------------------------------------------
(* Why nobody waits in a circle.  Beyond(c) are the resources that come after all
   that c and its chain hold.  Who waits for a lock waits for one of these, and
   its holder has fewer of them; who waits for a nested call has at least those
   of the nested call, which is deeper.  So in a circle all waits would be for
   nested calls, ever deeper ones. *)
Grip(c)   == Held(c) \cup ChainLocked(c)
Beyond(c) == {s \in Resources : \A r \in Grip(c) : r < s}
Outside(c) == Calls \ above[c]

(* A finite, nonempty family of sets has a smallest one. *)
LEMMA Smallest ==
  ASSUME NEW U, IsFiniteSet(U), NEW F, F # {}, \A x \in F : x \subseteq U
  PROVE  \E x \in F : \A y \in F : y \subseteq x => y = x
<1>1. IsWellFoundedOn(StrictSubsetOrdering(U), SUBSET U)
    BY FS_StrictSubsetOrderingWellFounded, FS_FiniteSubsetsOfFinite
<1>2. PICK x \in F : \A y \in F : ~(<<y, x>> \in StrictSubsetOrdering(U))
    <2>1. F \subseteq SUBSET U
        OBVIOUS
    <2>2. QED
        BY <1>1, <2>1, WFMin
<1>3. ASSUME NEW y \in F, y \subseteq x PROVE y = x
    BY <1>2, <1>3 DEF StrictSubsetOrdering
<1>4. QED
    BY <1>3

(* Who waits for a lock waits for one that lies beyond all it holds. *)
LEMMA LockWait ==
  ASSUME Inv, NEW c \in Calls, NEW d \in Calls, pc[c] \in {"trying", "locking"}, WaitsFor(c, d)
  PROVE  Beyond(d) \subseteq Beyond(c) /\ Beyond(d) # Beyond(c)
<1>1. PICK r \in Held(d) : r \in resolved[c] /\ \A s \in Held(c) : s < r
    <2>1. CASE pc[c] = "trying"
        BY <2>1 DEF WaitsFor, Inv, LocksInv, Held
    <2>2. CASE pc[c] = "locking"
        <3>1. at[c] \in locks[d] /\ at[c] # NoEntry
            <4>1. at[c] \in locks[d]
                BY <2>2 DEF WaitsFor
            <4>2. at[c] \in Resources \X (Entries \cup {Lease})
                BY <4>1 DEF Inv, TypeOK
            <4>3. QED
                BY <4>1, <4>2 DEF NoEntry
        <3>2. at[c][1] \in Todo(c)
            BY <2>2, <3>1 DEF Inv, AtInv, IsNext
        <3>3. QED
            BY <2>2, <3>1, <3>2 DEF Inv, LocksInv, Held, Todo
    <2>3. QED
        BY <2>1, <2>2
<1>2. r \in Resources
    BY <1>1 DEF Inv, TypeOK
<1>3. \A s \in Grip(c) : s < r /\ s \in Resources
    <2>1. \A s \in ChainLocked(c) : s < r /\ s \in Resources
        <3>1. ASSUME NEW a \in Frames(c), NEW s \in resolved[a] PROVE s < r /\ s \in Resources
            BY <1>1 DEF Inv, ChainInv, Leave, TypeOK, Frames
        <3>2. QED
            BY <3>1 DEF ChainLocked
    <2>2. \A s \in Held(c) : s \in Resources
        BY DEF Inv, LocksInv, TypeOK, Held
    <2>3. QED
        BY <1>1, <2>1, <2>2 DEF Grip
<1>4. r \in Beyond(c) /\ r \notin Beyond(d)
    <2>1. r \in Grip(d) /\ ~(r < r)
        BY <1>1, <1>2, NestedAssumption DEF Grip
    <2>2. QED
        BY <1>2, <1>3, <2>1 DEF Beyond
<1>5. ASSUME NEW s \in Beyond(d) PROVE s \in Beyond(c)
    <2>1. s \in Resources /\ r < s
        BY <1>1 DEF Beyond, Grip
    <2>2. ASSUME NEW g \in Grip(c) PROVE g < s
        <3>1. g \in Int /\ r \in Int /\ s \in Int /\ g < r
            BY <2>1, <1>2, <1>3, NestedAssumption
        <3>2. QED
            BY <2>1, <3>1
    <2>3. QED
        BY <2>1, <2>2 DEF Beyond
<1>6. QED
    BY <1>4, <1>5

(* Who waits for a call made in its context holds no more than that call's chain. *)
LEMMA NestedWait ==
  ASSUME Inv, NEW c \in Calls, NEW d \in Calls, pc[c] = "held", c \in above[d]
  PROVE  Beyond(d) \subseteq Beyond(c) /\ Outside(d) \subseteq Outside(c) /\ Outside(d) # Outside(c)
<1>1. above[c] \subseteq above[d] /\ c \notin above[c]
    BY DEF Inv, AboveInv
<1>2. Frames(c) \subseteq Frames(d) /\ c \in Frames(d)
    BY <1>1 DEF Frames
<1>3. Held(c) \subseteq ChainLocked(d)
    BY <1>2 DEF Inv, LocksInv, Held, ChainLocked
<1>4. ChainLocked(c) \subseteq ChainLocked(d)
    BY <1>2 DEF ChainLocked
<1>5. QED
    BY <1>1, <1>3, <1>4 DEF Beyond, Grip, Outside

(* No calls wait for each other in a circle, whatever the chains and however the
   identities change (guard.go:426). *)
THEOREM NobodyWaitsInACircle == Spec => []NoCircularWait
<1>1. Inv => NoCircularWait
    <2> SUFFICES ASSUME Inv, NEW S \in (SUBSET Calls) \ {{}},
                        \A c \in S : \E d \in S : WaitsFor(c, d)
                 PROVE  FALSE
        BY DEF NoCircularWait
    <2>1. PICK b \in S : \A d \in S : Beyond(d) \subseteq Beyond(b) => Beyond(d) = Beyond(b)
        <3> DEFINE F == {Beyond(c) : c \in S}
        <3>1. F # {} /\ \A x \in F : x \subseteq Resources
            BY DEF Beyond
        <3>2. PICK x \in F : \A y \in F : y \subseteq x => y = x
            <4> HIDE DEF F
            <4>1. QED
                BY <3>1, Smallest, NestedAssumption
        <3>3. PICK b \in S : x = Beyond(b)
            OBVIOUS
        <3>4. \A d \in S : Beyond(d) \in F
            OBVIOUS
        <3>5. QED
            BY <3>2, <3>3, <3>4
    <2> DEFINE M == {c \in S : Beyond(c) = Beyond(b)}
    <2>2. PICK c \in M : \A d \in M : Outside(d) \subseteq Outside(c) => Outside(d) = Outside(c)
        <3> DEFINE F == {Outside(e) : e \in M}
        <3>1. F # {} /\ \A x \in F : x \subseteq Calls
            BY DEF Outside
        <3>2. PICK x \in F : \A y \in F : y \subseteq x => y = x
            <4> HIDE DEF F
            <4>1. QED
                BY <3>1, Smallest, NestedAssumption
        <3>3. PICK c \in M : x = Outside(c)
            OBVIOUS
        <3>4. \A d \in M : Outside(d) \in F
            OBVIOUS
        <3>5. QED
            BY <3>2, <3>3, <3>4
    <2>3. PICK d \in S : WaitsFor(c, d)
        OBVIOUS
    <2>4. c \in Calls /\ d \in Calls
        OBVIOUS
    <2>5. ~(pc[c] \in {"trying", "locking"})
        BY <2>1, <2>2, <2>3, <2>4, LockWait
    <2>6. pc[c] = "held" /\ c \in above[d]
        BY <2>3, <2>5 DEF WaitsFor
    <2>7. Beyond(d) \subseteq Beyond(c) /\ Outside(d) \subseteq Outside(c) /\ Outside(d) # Outside(c)
        BY <2>4, <2>6, NestedWait
    <2>8. d \in M
        BY <2>1, <2>2, <2>7
    <2>9. QED
        BY <2>2, <2>7, <2>8
<1>2. QED
    BY <1>1, Invariant, PTL
=============================================================================

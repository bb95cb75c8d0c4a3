---------------------- MODULE InspectionScheduleProofs ----------------------
(* What the inspection scheduler records and leaves due is right for any runs,
   intervals, editors and lengths of the history.

   Two invariants are followed beside the types.  RecordInv: where transactions
   are serial the run under way has one heartbeat, in a status that goes with the
   run's phase, and without failures no other says running (NoOrphans,
   VerdictKept).  ScheduleInv: from the reading of the version to the publication
   the run either holds the stored configuration or has been told of an edit, and
   then nextRunAt is the stored configuration's or the loop will make it so
   (ScheduleFresh).  The records of a history that a write keeps are a recursion
   over its length: UpTo and Recursion are the induction that needs. *)
EXTENDS InspectionSchedule, SequenceTheorems, NaturalsInduction, WellFoundedInduction, TLAPS

(* Induction up to a bound, about a set. *)
LEMMA UpTo ==
  ASSUME NEW n \in Nat, NEW S, 0 \in S, \A i \in 0..(n - 1) : i \in S => i + 1 \in S
  PROVE  \A i \in 0..n : i \in S
  <1> DEFINE T == {i \in 0..n : i \notin S}
  <1>1. SUFFICES ASSUME T # {} PROVE FALSE
    OBVIOUS
  <1>2. PICK x \in T : \A y \in T : ~(<<y, x>> \in OpToRel(<, Nat))
    <2>1. T \subseteq Nat
      OBVIOUS
    <2> HIDE DEF T
    <2> QED
      BY <1>1, <2>1, NatLessThanWellFounded, WFMin
  <1>3. x \in Nat /\ x # 0 /\ x <= n
    OBVIOUS
  <1>4. ASSUME x - 1 \in T PROVE FALSE
    <2>1. <<x - 1, x>> \in OpToRel(<, Nat)
      BY <1>3 DEF OpToRel
    <2> QED
      BY <1>2, <1>4, <2>1
  <1>5. x - 1 \in S
    BY <1>3, <1>4
  <1>6. x - 1 \in 0..(n - 1) /\ (x - 1) + 1 = x
    BY <1>3
  <1> QED
    BY <1>5, <1>6

(* Recursion up to a bound: a first history and a step, given as a function,   *)
(* have a function that starts with the one and follows the other.             *)
LEMMA Recursion ==
  ASSUME NEW N \in Nat, NEW v \in Seq(Heartbeat),
         NEW step \in [1..N -> [Seq(Heartbeat) -> Seq(Heartbeat)]]
  PROVE  \E f \in [0..N -> Seq(Heartbeat)] : f[0] = v /\ \A n \in 1..N : f[n] = step[n][f[n - 1]]
  <1> DEFINE V == Seq(Heartbeat)
  <1>0. v \in V /\ step \in [1..N -> [V -> V]]
    OBVIOUS
  <1> HIDE DEF V
  <1> DEFINE Upto(m, g) == g[0] = v /\ \A n \in 1..m : g[n] = step[n][g[n - 1]]
             S == {m \in 0..N : \E g \in [0..m -> V] : Upto(m, g)}
  <1>1. 0 \in S
    <2> DEFINE c == [n \in 0..0 |-> v]
    <2>1. c \in [0..0 -> V] /\ c[0] = v /\ 0 \in 0..N /\ 1..0 = {}
      BY <1>0
    <2>2. Upto(0, c)
      BY <2>1
    <2> HIDE DEF c, Upto
    <2> QED
      BY <2>1, <2>2
  <1>2. ASSUME NEW m \in 0..(N - 1), m \in S PROVE m + 1 \in S
    <2>1. PICK g \in [0..m -> V] : Upto(m, g)
      BY <1>2
    <2> DEFINE k == [n \in 0..(m + 1) |-> IF n = m + 1 THEN step[m + 1][g[m]] ELSE g[n]]
    <2>2. m \in Nat /\ m + 1 \in 0..N /\ m + 1 \in 1..N /\ m \in 0..m
      OBVIOUS
    <2>3. g[m] \in V /\ step[m + 1][g[m]] \in V
      BY <1>0, <2>2
    <2>4. k \in [0..(m + 1) -> V]
      BY <2>2, <2>3
    <2>5. k[0] = v
      BY <2>1, <2>2
    <2>6. ASSUME NEW n \in 1..(m + 1) PROVE k[n] = step[n][k[n - 1]]
      <3>1. n \in 0..(m + 1) /\ n - 1 \in 0..(m + 1) /\ n - 1 # m + 1
        BY <2>2
      <3>2. k[n - 1] = g[n - 1] /\ k[n] = IF n = m + 1 THEN step[m + 1][g[m]] ELSE g[n]
        BY <3>1
      <3>3. CASE n = m + 1
        BY <2>2, <3>2, <3>3
      <3>4. CASE n # m + 1
        <4>1. n \in 1..m
          BY <2>2, <3>4
        <4> QED
          BY <2>1, <3>2, <3>4, <4>1
      <3> QED
        BY <3>3, <3>4
    <2>7. Upto(m + 1, k)
      BY <2>5, <2>6
    <2> HIDE DEF k, Upto
    <2> QED
      BY <2>2, <2>4, <2>7
  <1>3. \A i \in 0..N : i \in S
    <2>1. \A i \in 0..(N - 1) : i \in S => i + 1 \in S
      BY <1>2
    <2> HIDE DEF S
    <2> QED
      BY <1>1, <2>1, UpTo
  <1>4. N \in S
    <2> HIDE DEF S
    <2> QED
      BY <1>3
  <1>5. \E g \in [0..N -> V] : Upto(N, g)
    <2> HIDE DEF Upto
    <2> QED
      BY <1>4
  <1> QED
    BY <1>5, Zenon DEF V

(* Others by its recursion. *)
LEMMA OthersRec ==
  ASSUME NEW h \in Seq(Heartbeat), NEW r
  PROVE  \E kept \in [0..Len(h) -> Seq(Heartbeat)] :
            /\ kept[0] = <<>>
            /\ \A n \in 1..Len(h) :
                 kept[n] = IF h[n].run = r THEN kept[n - 1] ELSE Append(kept[n - 1], h[n])
            /\ Others(h, r) = kept[Len(h)]
  <1> DEFINE Next1(n, s) == IF h[n].run = r THEN s ELSE Append(s, h[n])
             Rec(g) == [n \in 0..Len(h) |-> IF n = 0 THEN <<>> ELSE Next1(n, g[n - 1])]
             step == [n \in 1..Len(h) |-> [s \in Seq(Heartbeat) |-> Next1(n, s)]]
  <1>1. Len(h) \in Nat
    OBVIOUS
  <1>2. step \in [1..Len(h) -> [Seq(Heartbeat) -> Seq(Heartbeat)]]
    <2>1. ASSUME NEW n \in 1..Len(h), NEW s \in Seq(Heartbeat) PROVE Next1(n, s) \in Seq(Heartbeat)
      <3>1. h[n] \in Heartbeat
        OBVIOUS
      <3>2. Append(s, h[n]) \in Seq(Heartbeat)
        BY <3>1, AppendProperties
      <3> QED
        BY <3>2
    <2> HIDE DEF Next1
    <2> QED
      BY <2>1
  <1>3. <<>> \in Seq(Heartbeat)
    OBVIOUS
  <1>4. PICK g \in [0..Len(h) -> Seq(Heartbeat)] :
           g[0] = <<>> /\ \A n \in 1..Len(h) : g[n] = step[n][g[n - 1]]
    <2> DEFINE N == Len(h)
               v == <<>>
    <2>1. N \in Nat /\ v \in Seq(Heartbeat) /\ step \in [1..N -> [Seq(Heartbeat) -> Seq(Heartbeat)]]
      BY <1>1, <1>2, <1>3
    <2>2. \E g \in [0..N -> Seq(Heartbeat)] : g[0] = v /\ \A n \in 1..N : g[n] = step[n][g[n - 1]]
      <3> HIDE DEF step, N, v
      <3> QED
        BY <2>1, Recursion, Zenon
    <2> QED
      BY <2>2
  <1>5. ASSUME NEW n \in 1..Len(h) PROVE n - 1 \in 0..Len(h) /\ g[n] = Next1(n, g[n - 1])
    <2>1. n - 1 \in 0..Len(h)
      BY <1>1
    <2> HIDE DEF Next1
    <2> QED
      BY <1>4, <2>1
  <1>6. g = Rec(g)
    <2>1. ASSUME NEW n \in 0..Len(h) PROVE g[n] = IF n = 0 THEN <<>> ELSE Next1(n, g[n - 1])
      <3>1. n # 0 => n \in 1..Len(h)
        BY <1>1
      <3> HIDE DEF Next1
      <3> QED
        BY <1>4, <1>5, <3>1
    <2> HIDE DEF Next1
    <2> QED
      BY <2>1
  <1>7. (CHOOSE f : f = Rec(f)) = Rec(CHOOSE f : f = Rec(f))
    <2> HIDE DEF Rec
    <2> QED
      BY <1>6
  <1>8. Others(h, r) = (CHOOSE f : f = Rec(f))[Len(h)]
    BY DEF Others
  <1> DEFINE F == CHOOSE f : f = Rec(f)
  <1>9. F[0] = <<>> /\ (\A n \in 1..Len(h) : F[n] = Next1(n, F[n - 1])) /\ DOMAIN F = 0..Len(h)
        /\ F = [n \in 0..Len(h) |-> F[n]]
    <2>1. ASSUME NEW G, G = Rec(G)
          PROVE  G[0] = <<>> /\ (\A n \in 1..Len(h) : G[n] = Next1(n, G[n - 1])) /\ DOMAIN G = 0..Len(h)
                 /\ G = [n \in 0..Len(h) |-> G[n]]
      <3>1. 0 \in 0..Len(h) /\ \A n \in 1..Len(h) : n \in 0..Len(h) /\ n # 0
        BY <1>1
      <3>2. DOMAIN G = 0..Len(h) /\ \A n \in 0..Len(h) : G[n] = IF n = 0 THEN <<>> ELSE Next1(n, G[n - 1])
        BY <2>1
      <3>3. G = [n \in 0..Len(h) |-> G[n]]
        BY <2>1
      <3> HIDE DEF Next1
      <3> QED
        BY <3>1, <3>2, <3>3
    <2> HIDE DEF Rec
    <2> QED
      BY <1>7, <2>1
  <1> HIDE DEF F
  <1>10. \A n \in 0..Len(h) : n \in {i \in 0..Len(h) : F[i] \in Seq(Heartbeat)}
    <2> DEFINE A == {i \in 0..Len(h) : F[i] \in Seq(Heartbeat)}
    <2>1. 0 \in A
      BY <1>1, <1>9
    <2>2. ASSUME NEW n \in 0..(Len(h) - 1), F[n] \in Seq(Heartbeat)
          PROVE  n + 1 \in 0..Len(h) /\ F[n + 1] \in Seq(Heartbeat)
      <3>1. n + 1 \in 1..Len(h) /\ n + 1 \in 0..Len(h) /\ (n + 1) - 1 = n /\ h[n + 1] \in Heartbeat
        BY <1>1
      <3>2. F[n] \in Seq(Heartbeat) /\ F[n + 1] = Next1(n + 1, F[n])
        BY <1>9, <2>2, <3>1
      <3>3. Append(F[n], h[n + 1]) \in Seq(Heartbeat)
        BY <3>1, <3>2, AppendProperties
      <3> QED
        BY <3>1, <3>2, <3>3
    <2>3. \A n \in 0..(Len(h) - 1) : n \in A => n + 1 \in A
      BY <2>2
    <2> HIDE DEF A
    <2>4. \A n \in 0..Len(h) : n \in A
      BY <1>1, <2>1, <2>3, UpTo
    <2> QED
      BY <2>4 DEF A
  <1>11. F \in [0..Len(h) -> Seq(Heartbeat)]
    BY <1>9, <1>10
  <1>12. Others(h, r) = F[Len(h)]
    BY <1>8 DEF F
  <1> QED
    BY <1>9, <1>11, <1>12

(* No two records of a history are of the same run. *)
Distinct(h) == \A i, j \in DOMAIN h : h[i].run = h[j].run => i = j

(* Others keeps records of the history only, none of the run, at most as many, *)
(* and distinct ones distinct.                                                 *)
LEMMA OthersFacts ==
  ASSUME NEW h \in Seq(Heartbeat), NEW r
  PROVE  /\ Others(h, r) \in Seq(Heartbeat)
         /\ Len(Others(h, r)) <= Len(h)
         /\ \A i \in DOMAIN Others(h, r) : \E j \in DOMAIN h : Others(h, r)[i] = h[j] /\ h[j].run # r
         /\ Distinct(h) => Distinct(Others(h, r))
  <1>1. PICK kept \in [0..Len(h) -> Seq(Heartbeat)] :
          /\ kept[0] = <<>>
          /\ \A n \in 1..Len(h) :
               kept[n] = IF h[n].run = r THEN kept[n - 1] ELSE Append(kept[n - 1], h[n])
          /\ Others(h, r) = kept[Len(h)]
    BY OthersRec
  <1> DEFINE Good(n) == /\ Len(kept[n]) <= n
                        /\ \A i \in DOMAIN kept[n] : \E j \in 1..n : kept[n][i] = h[j] /\ h[j].run # r
                        /\ Distinct(h) => Distinct(kept[n])
             S == {n \in 0..Len(h) : Good(n)}
  <1>2. Len(h) \in Nat /\ DOMAIN h = 1..Len(h)
    OBVIOUS
  <1>3. 0 \in S
    <2>1. Len(kept[0]) = 0 /\ DOMAIN kept[0] = {}
      BY <1>1
    <2> QED
      BY <1>2, <2>1 DEF Distinct
  <1>4. ASSUME NEW n \in 0..(Len(h) - 1), Good(n) PROVE n + 1 \in S
    <2>1. n + 1 \in 1..Len(h) /\ n + 1 \in 0..Len(h) /\ (n + 1) - 1 = n /\ n \in 0..Len(h) /\ n \in Nat
      BY <1>2
    <2>2. kept[n + 1] = IF h[n + 1].run = r THEN kept[n] ELSE Append(kept[n], h[n + 1])
      BY <1>1, <2>1
    <2>3. kept[n] \in Seq(Heartbeat) /\ h[n + 1] \in Heartbeat /\ DOMAIN kept[n] = 1..Len(kept[n])
      BY <2>1
    <2>4. CASE h[n + 1].run = r
      <3>1. kept[n + 1] = kept[n] /\ 1..n \subseteq 1..(n + 1) /\ Len(kept[n]) \in Nat
        BY <2>1, <2>2, <2>3, <2>4
      <3>2. Len(kept[n]) <= n + 1
        BY <1>4, <2>1, <3>1
      <3> QED
        BY <1>4, <2>1, <3>1, <3>2
    <2>5. CASE h[n + 1].run # r
      <3> DEFINE t == Append(kept[n], h[n + 1])
                 l == Len(kept[n])
      <3>1. kept[n + 1] = t
        BY <2>2, <2>5
      <3>2. /\ l \in Nat /\ Len(t) = l + 1 /\ DOMAIN t = 1..(l + 1)
            /\ t[l + 1] = h[n + 1] /\ \A i \in 1..l : t[i] = kept[n][i]
        BY <2>3
      <3> HIDE DEF t, l
      <3>3. l <= n /\ DOMAIN kept[n] = 1..l
        BY <1>4, <2>3 DEF l
      <3>4. Len(t) <= n + 1
        BY <2>1, <3>2, <3>3
      <3>5. ASSUME NEW i \in DOMAIN t PROVE \E j \in 1..(n + 1) : t[i] = h[j] /\ h[j].run # r
        <4>1. CASE i = l + 1
          BY <2>1, <2>5, <3>2, <4>1
        <4>2. CASE i # l + 1
          <5>1. i \in 1..l /\ 1..n \subseteq 1..(n + 1)
            BY <2>1, <3>2, <4>2
          <5> QED
            BY <1>4, <3>2, <3>3, <5>1
        <4> QED
          BY <4>1, <4>2
      <3>6. ASSUME Distinct(h), NEW i \in DOMAIN t, NEW j \in DOMAIN t, t[i].run = t[j].run, i < j
            PROVE  FALSE
        <4>1. i \in 1..l /\ j \in Nat
          BY <3>2, <3>6
        <4>2. CASE j = l + 1
          <5>1. PICK k \in 1..n : t[i] = h[k]
            BY <1>4, <3>2, <3>3, <4>1
          <5>2. k \in DOMAIN h /\ n + 1 \in DOMAIN h /\ k # n + 1
            BY <1>2, <2>1
          <5>3. h[k].run = h[n + 1].run
            BY <3>2, <3>6, <4>2, <5>1
          <5> QED
            BY <3>6, <5>2, <5>3 DEF Distinct
        <4>3. CASE j # l + 1
          <5>1. j \in 1..l
            BY <3>2, <4>1, <4>3
          <5>2. kept[n][i].run = kept[n][j].run /\ i # j /\ i \in DOMAIN kept[n] /\ j \in DOMAIN kept[n]
            BY <3>2, <3>3, <3>6, <4>1, <5>1
          <5> QED
            BY <1>4, <3>6, <5>2 DEF Distinct
        <4> QED
          BY <4>2, <4>3
      <3>7. Distinct(h) => Distinct(t)
        <4>1. DOMAIN t \subseteq Nat
          BY <3>2
        <4> QED
          BY <3>6, <4>1 DEF Distinct
      <3>8. Good(n + 1)
        BY <3>1, <3>4, <3>5, <3>7
      <3> QED
        BY <2>1, <3>8
    <2> QED
      BY <2>4, <2>5
  <1>5. \A n \in 0..(Len(h) - 1) : n \in S => n + 1 \in S
    BY <1>4
  <1>6. \A n \in 0..Len(h) : n \in S
    <2> HIDE DEF S
    <2> QED
      BY <1>2, <1>3, <1>5, UpTo
  <1>7. Good(Len(h)) /\ Len(h) \in 0..Len(h)
    BY <1>2, <1>6
  <1>8. kept[Len(h)] \in Seq(Heartbeat) /\ Others(h, r) = kept[Len(h)]
    <2> HIDE DEF Good, S
    <2> QED
      BY <1>1, <1>7
  <1> QED
    BY <1>2, <1>7, <1>8, Zenon

(* Put keeps the history's type, and distinct records distinct; each of its    *)
(* records is the new one or one of another run.                               *)
LEMMA PutFacts ==
  ASSUME NEW h \in Histories, NEW r \in Runs, NEW s \in Statuses
  PROVE  /\ Put(h, r, s) \in Histories
         /\ \A i \in DOMAIN Put(h, r, s) :
               \/ i = 1 /\ Put(h, r, s)[i] = [run |-> r, status |-> s]
               \/ \E j \in DOMAIN h : Put(h, r, s)[i] = h[j] /\ h[j].run # r
         /\ Distinct(h) => Distinct(Put(h, r, s))
  <1> DEFINE new == [run |-> r, status |-> s]
             o == Others(h, r)
             all == <<new>> \o o
             m == IF Len(all) < HistoryLimit THEN Len(all) ELSE HistoryLimit
             p == SubSeq(all, 1, m)
  <1>1. new \in Heartbeat /\ <<new>> \in Seq(Heartbeat)
    BY DEF Heartbeat
  <1>2. h \in Seq(Heartbeat)
    BY DEF Histories
  <1>3. /\ o \in Seq(Heartbeat)
        /\ \A i \in DOMAIN o : \E j \in DOMAIN h : o[i] = h[j] /\ h[j].run # r
        /\ Distinct(h) => Distinct(o)
    BY <1>2, OthersFacts
  <1> HIDE DEF o, new
  <1>4. /\ all \in Seq(Heartbeat) /\ Len(all) = Len(o) + 1 /\ all[1] = new
        /\ \A i \in 2..(Len(o) + 1) : all[i] = o[i - 1]
    <2>1. Len(<<new>>) = 1 /\ <<new>>[1] = new
      OBVIOUS
    <2> QED
      BY <1>1, <1>3, <2>1, ConcatProperties
  <1> HIDE DEF all
  <1>5. Len(o) \in Nat /\ DOMAIN o = 1..Len(o) /\ HistoryLimit \in Nat \ {0}
    BY <1>3, InspectionAssumption
  <1>6. m \in 1..Len(all) /\ m <= HistoryLimit
    BY <1>4, <1>5
  <1>7. p \in Seq(Heartbeat) /\ Len(p) = m /\ DOMAIN p = 1..m /\ \A i \in 1..m : p[i] = all[i]
    <2> HIDE DEF m
    <2> QED
      BY <1>4, <1>5, <1>6
  <1> HIDE DEF p, m
  <1>8. p \in Histories
    BY <1>6, <1>7 DEF Histories
  <1>9. ASSUME NEW i \in DOMAIN p
        PROVE  \/ i = 1 /\ p[i] = new
               \/ i \in 2..(Len(o) + 1) /\ i - 1 \in DOMAIN o /\ p[i] = o[i - 1]
    BY <1>4, <1>5, <1>6, <1>7
  <1>10. ASSUME Distinct(h), NEW i \in DOMAIN p, NEW j \in DOMAIN p, p[i].run = p[j].run PROVE i = j
    <2>1. ASSUME NEW k \in DOMAIN o PROVE o[k].run # new.run
      BY <1>3 DEF new
    <2>2. CASE i = 1 \/ j = 1
      BY <1>9, <1>10, <2>1, <2>2
    <2>3. CASE i # 1 /\ j # 1
      <3>1. i - 1 \in DOMAIN o /\ j - 1 \in DOMAIN o /\ o[i - 1].run = o[j - 1].run
        BY <1>9, <1>10, <2>3
      <3>2. i - 1 = j - 1
        BY <1>3, <1>10, <3>1 DEF Distinct
      <3> QED
        BY <1>5, <1>7, <3>2
    <2> QED
      BY <2>2, <2>3
  <1>11. Put(h, r, s) = p
    BY DEF Put, p, m, all, o, new
  <1>12. Distinct(h) => Distinct(p)
    BY <1>10 DEF Distinct
  <1>13. \A i \in DOMAIN p : \/ i = 1 /\ p[i] = new
                           \/ \E j \in DOMAIN h : p[i] = h[j] /\ h[j].run # r
    BY <1>3, <1>9
  <1> QED
    BY <1>8, <1>11, <1>12, <1>13 DEF new

(* Reconciled keeps the history's type and each record's run; a record it      *)
(* changes was running, and is then interrupted.                               *)
LEMMA ReconciledFacts ==
  ASSUME NEW h \in Histories
  PROVE  /\ Reconciled(h) \in Histories
         /\ DOMAIN Reconciled(h) = DOMAIN h
         /\ \A i \in DOMAIN h :
               /\ Reconciled(h)[i].run = h[i].run
               /\ Reconciled(h)[i].status = IF Interrupted(h[i]) THEN "interrupted" ELSE h[i].status
         /\ Distinct(h) => Distinct(Reconciled(h))
  <1>1. h \in Seq(Heartbeat) /\ Len(h) <= HistoryLimit /\ DOMAIN h = 1..Len(h) /\ Len(h) \in Nat
    BY DEF Histories
  <1>2. ASSUME NEW i \in DOMAIN h
        PROVE  /\ Reconciled(h)[i] \in Heartbeat /\ Reconciled(h)[i].run = h[i].run
               /\ Reconciled(h)[i].status = IF Interrupted(h[i]) THEN "interrupted" ELSE h[i].status
    <2>1. h[i] \in Heartbeat
      BY <1>1
    <2> QED
      BY <2>1 DEF Reconciled, Heartbeat, Statuses
  <1>3. DOMAIN Reconciled(h) = DOMAIN h /\ Reconciled(h) = [i \in 1..Len(h) |-> Reconciled(h)[i]]
    BY <1>1 DEF Reconciled
  <1>4. Reconciled(h) \in Seq(Heartbeat) /\ Len(Reconciled(h)) = Len(h)
    BY <1>1, <1>2, <1>3
  <1> QED
    BY <1>1, <1>2, <1>3, <1>4 DEF Distinct, Histories

-----------------------------------------------------------------------------
(* Types *)

LEMMA TypeInit == Init => TypeOK
  <1> SUFFICES ASSUME Init PROVE TypeOK
    OBVIOUS
  <1> USE InspectionAssumption DEF Init
  <1>1. history \in Histories
    BY DEF Histories
  <1>2. lease \in Leases \union {NoLease} /\ snapshot \in [{"recorder", "reconciler"} -> Histories \union {NoRead}]
    OBVIOUS
  <1>3. process \in [up : BOOLEAN, stopping : BOOLEAN, owner : Owners] /\ process.owner <= events /\ events \in 0..MaxEvents
    BY DEF Owners
  <1>4. run \in RunStates /\ run.phase = "idle"
    BY DEF Idle, RunStates, Names, Phases, Statuses, Unread
  <1>5. nextRun \in [interval : Intervals, due : BOOLEAN] \union {NotDue} /\ loop \in [pc : Pcs, config : Configs \union {Unread}] /\ loop.pc = "off"
    BY DEF LoopOff, Pcs
  <1>6. /\ editor \in [Editors -> [stored : BOOLEAN, config : Configs \union {Unread}]]
        /\ \A e \in Editors : ~editor[e].stored
    BY DEF NoEdit
  <1>7. lastTask \in Names /\ deleting \in Names
    BY DEF Names
  <1> QED
    BY <1>1, <1>2, <1>3, <1>4, <1>5, <1>6, <1>7 DEF TypeOK

\* An event, a failure or neither leaves the counters their types.
LEMMA TypeOutside ==
  ASSUME TypeOK, Event \/ Fails \/ Works
  PROVE  failed' \in BOOLEAN /\ events' \in 0..MaxEvents /\ process.owner <= events'
  <1>1. events \in Nat /\ process.owner \in Nat /\ process.owner <= events /\ MaxEvents \in Nat
        /\ failed \in BOOLEAN /\ events \in 0..MaxEvents
    BY InspectionAssumption DEF TypeOK, Owners
  <1>2. events' = events \/ (events < MaxEvents /\ events' = events + 1)
    BY DEF Event, Fails, Works, outside
  <1>3. failed' = failed \/ failed' = TRUE
    BY Zenon DEF Event, Fails, Works, outside
  <1>4. failed' \in BOOLEAN
    BY <1>1, <1>3
  <1> QED
    BY <1>1, <1>2, <1>4

LEMMA TypeStore ==
  ASSUME TypeOK, RecordRead \/ ReconcileRead \/ ReconcileWrite \/ Expire PROVE TypeOK'
  <1> USE InspectionAssumption DEF TypeOK, storeVars, memoryVars, apiVars, outside
  <1>1. CASE RecordRead
    BY <1>1 DEF RecordRead
  <1>2. CASE ReconcileRead
    BY <1>2 DEF ReconcileRead
  <1>3. CASE ReconcileWrite
    <2>1. ReadBy("reconciler") \in Histories
      BY <1>3 DEF ReconcileWrite, ReadBy, HasRead, Serialised
    <2>2. Reconciled(ReadBy("reconciler")) \in Histories
      BY <2>1, ReconciledFacts
    <2> QED
      BY <1>3, <2>2 DEF ReconcileWrite, EndRead
  <1>4. CASE Expire
    <2>1. lease \in Leases
      <3>1. lease # NoLease
        BY <1>4 DEF Expire, NoLease
      <3> QED
        BY <3>1
    <2>2. lease' \in Leases
      BY <1>4, <2>1 DEF Expire, Leases
    <2> QED
      BY <1>4, <2>2 DEF Expire, Event, Owners
  <1> QED
    BY <1>1, <1>2, <1>3, <1>4

(* The time a configuration schedules. *)
LEMMA ScheduledType ==
  ASSUME NEW c \in Configs
  PROVE  /\ ScheduledAfter(c) \in [interval : Intervals, due : BOOLEAN] \union {NotDue}
         /\ ScheduledAfter(c) = NotDue <=> ~c.enabled
         /\ c.enabled => ScheduledAfter(c).interval = c.interval
  BY InspectionAssumption DEF ScheduledAfter, Configs, NotDue

LEMMA TypeLoop ==
  ASSUME TypeOK, LoopRead \/ LoopArm \/ LoopSignalled \/ TimerFires \/ LoopCheck \/ LoopCannotRead
                 \/ LoopStops \/ LoopReturns \/ TimeComes
  PROVE  TypeOK'
  <1> USE InspectionAssumption DEF TypeOK, storeVars, memoryVars, apiVars, outside
  <1>1. CASE LoopRead
    BY <1>1 DEF LoopRead, Pcs
  <1>2. CASE LoopArm
    <2>1. loop' \in [pc : {"checking", "timer", "asleep"}, config : {Unread}]
      BY <1>2 DEF LoopArm, GoTo
    <2>2. nextRun' \in [interval : Intervals, due : BOOLEAN] \union {NotDue}
      <3>1. loop.config \in Configs
        BY <1>2 DEF LoopArm
      <3>2. nextRun' \in {nextRun, NotDue, ScheduledAfter(loop.config)}
        BY <1>2 DEF LoopArm
      <3> QED
        BY <3>1, <3>2, ScheduledType
    <2> QED
      BY <1>2, <2>1, <2>2 DEF LoopArm, Pcs
  <1>3. CASE LoopSignalled
    BY <1>3 DEF LoopSignalled, GoTo, Pcs
  <1>4. CASE TimerFires
    BY <1>4 DEF TimerFires, GoTo, Pcs
  <1>5. CASE LoopCheck
    BY <1>5 DEF LoopCheck, Pcs
  <1>6. CASE LoopCannotRead
    BY <1>6 DEF LoopCannotRead, Fails, GoTo, Pcs, Owners
  <1>7. CASE LoopStops
    BY <1>7 DEF LoopStops, GoTo, Pcs
  <1>8. CASE LoopReturns
    BY <1>8 DEF LoopReturns, GoTo, Pcs
  <1>9. CASE TimeComes
    BY <1>9 DEF TimeComes, NotDue
  <1> QED
    BY <1>1, <1>2, <1>3, <1>4, <1>5, <1>6, <1>7, <1>8, <1>9

(* A new run, when there is a name for one. *)
LEMMA NewRunType ==
  ASSUME Unused # {}, NEW c \in Configs, NEW n, n = NewRun(c, TRUE) \/ n = NewRun(c, FALSE)
  PROVE  n \in RunStates /\ n.id \in Unused /\ n.phase = "claimed" /\ n.settings = c /\ ~n.edited
  <1>1. (CHOOSE r \in Unused : TRUE) \in Unused /\ Unused \subseteq Runs
    BY DEF Unused
  <1> QED
    BY <1>1 DEF NewRun, Idle, RunStates, Names, Phases, Statuses

LEMMA TypeClaim ==
  ASSUME TypeOK, LoopClaims \/ WorkerClaims PROVE TypeOK'
  <1> USE InspectionAssumption DEF TypeOK, storeVars, memoryVars, apiVars, outside
  <1>1. CASE LoopClaims
    <2>1. CASE Refused(loop.config, FALSE)
      BY <1>1, <2>1 DEF LoopClaims, GoTo, Pcs
    <2>2. CASE ~Refused(loop.config, FALSE)
      <3>1. loop.config \in Configs /\ Unused # {} /\ run' = NewRun(loop.config, FALSE) /\ Unused \subseteq Runs
        BY <1>1, <2>2 DEF LoopClaims, Unused
      <3>2. run' \in RunStates /\ run'.id \in Runs /\ run'.settings \in Configs /\ run'.phase = "claimed"
        <4> HIDE DEF TypeOK
        <4> QED
          BY <3>1, NewRunType
      <3>3. /\ loop' = [pc |-> "running", config |-> Unread] /\ nextRun' = nextRun
            /\ UNCHANGED <<storeVars, snapshot, outside, process, signal, lastTask, apiVars>>
        BY <1>1, <2>2 DEF LoopClaims, GoTo
      <3>4. /\ loop' \in [pc : Pcs, config : Configs \union {Unread}]
            /\ loop'.pc \in {"arming", "claiming"} => loop'.config \in Configs
        BY <3>3 DEF Pcs
      <3>5. IF run'.phase = "idle" THEN run' = Idle ELSE run'.id \in Runs /\ run'.settings \in Configs
        BY <3>2
      <3>6. UNCHANGED <<database, config, history, lease, snapshot, failed, events, process, nextRun,
                        editor, signal, clearing, overlapped, lastTask, deleting>>
        BY <3>3
      <3> QED
        BY <3>2, <3>4, <3>5, <3>6
    <2> QED
      BY <2>1, <2>2
  <1>2. CASE WorkerClaims
    <2>1. config \in Configs /\ Unused # {} /\ run' = NewRun(config, TRUE) /\ Unused \subseteq Runs
      BY <1>2 DEF WorkerClaims, Unused
    <2>2. run' \in RunStates /\ run'.id \in Runs /\ run'.settings \in Configs /\ run'.phase = "claimed"
      <3> HIDE DEF TypeOK
      <3> QED
        BY <2>1, NewRunType
    <2>3. failed' \in BOOLEAN /\ events' \in 0..MaxEvents /\ process.owner <= events'
      <3> HIDE DEF TypeOK
      <3> QED
        BY <1>2, TypeOutside DEF WorkerClaims
    <2>4. UNCHANGED <<storeVars, snapshot, process, nextRun, loop, signal, lastTask, apiVars>>
      BY <1>2 DEF WorkerClaims
    <2> QED
      BY <2>2, <2>3, <2>4
  <1> QED
    BY <1>1, <1>2

\* What a recorder's write leaves of the types.
LEMMA TypeRecorded ==
  ASSUME TypeOK, run.id \in Runs, NEW s \in Statuses, Recorded(s)
  PROVE  history' \in Histories /\ UNCHANGED <<config, lease, database>>
  <1>1. ReadBy("recorder") \in Histories
    BY DEF TypeOK, Recorded, ReadBy, HasRead
  <1> QED
    BY <1>1, PutFacts DEF Recorded

\* What a release leaves of them.
LEMMA TypeReleased ==
  ASSUME TypeOK, Released
  PROVE  /\ lease' \in Leases \union {NoLease} /\ UNCHANGED <<database, config, history>>
         /\ failed' \in BOOLEAN /\ events' \in 0..MaxEvents /\ process.owner <= events'
  <1>1. Fails \/ Works
    BY DEF Released, Works, outside
  <1>2. lease' \in {lease, NoLease} /\ UNCHANGED <<database, config, history>>
    BY DEF Released, Fails, storeVars
  <1>3. lease \in Leases \union {NoLease}
    BY DEF TypeOK
  <1> QED
    BY <1>1, <1>2, <1>3, TypeOutside

LEMMA TypeRun ==
  ASSUME TypeOK, Acquire \/ AcquireRefused \/ AcquireFails \/ Renew \/ ContextEnds \/ Execute \/ ReadSchedule
                 \/ Abort \/ Publish
  PROVE  TypeOK'
  <1> USE InspectionAssumption DEF TypeOK, storeVars, memoryVars, apiVars, outside
  <1>idle. Idle \in RunStates /\ Idle.phase = "idle"
    BY DEF Idle, RunStates, Names, Phases, Statuses, Unread
  <1>1. CASE Acquire
    <2>1. run' \in RunStates /\ run'.phase = "leased" /\ run'.id = run.id /\ run'.settings = run.settings
      BY <1>1 DEF Acquire, RunStates, Phases
    <2>2. lease' \in Leases
      BY <1>1 DEF Acquire, Leases
    <2> QED
      BY <1>1, <2>1, <2>2 DEF Acquire, Names
  <1>2. CASE AcquireRefused
    <2>1. nextRun' \in [interval : Intervals, due : BOOLEAN] \union {NotDue}
      BY <1>2, ScheduledType DEF AcquireRefused
    <2> QED
      BY <1>2, <1>idle, <2>1 DEF AcquireRefused
  <1>3. CASE AcquireFails
    <2>1. failed' \in BOOLEAN /\ events' \in 0..MaxEvents /\ process.owner <= events'
      <3> HIDE DEF TypeOK
      <3> QED
        BY <1>3, TypeOutside DEF AcquireFails, Works
    <2> QED
      BY <1>3, <1>idle, <2>1 DEF AcquireFails, Fails
  <1>4. CASE Renew
    <2>1. run' \in RunStates /\ run'.phase = "executing" /\ run'.id = run.id /\ run'.settings = run.settings
      BY <1>4 DEF Renew, RunStates
    <2>2. lease' \in Leases \union {NoLease}
      <3>1. lease' = lease \/ (lease.owner = process.owner /\ lease' = [lease EXCEPT !.live = TRUE])
        BY <1>4 DEF Renew, Fails
      <3>2. lease.owner = process.owner => lease \in Leases
        BY DEF NoLease, Owners
      <3> QED
        BY <3>1, <3>2 DEF Leases
    <2>3. failed' \in BOOLEAN /\ events' \in 0..MaxEvents /\ process.owner <= events'
      <3> HIDE DEF TypeOK
      <3> QED
        BY <1>4, TypeOutside DEF Renew, Works
    <2>4. UNCHANGED <<database, config, history>>
      BY <1>4 DEF Renew, Fails
    <2> QED
      BY <1>4, <2>1, <2>2, <2>3, <2>4 DEF Renew
  <1>5. CASE ContextEnds
    <2>1. run' \in RunStates /\ run'.phase = run.phase /\ run'.id = run.id /\ run'.settings = run.settings
      BY <1>5 DEF ContextEnds, RunStates
    <2> QED
      BY <1>5, <2>1 DEF ContextEnds, Event, Owners
  <1>6. CASE Execute
    <2>1. run' \in RunStates /\ run'.phase = "versioned" /\ run'.id = run.id /\ run'.settings = run.settings
      BY <1>6 DEF Execute, RunStates, Phases, Statuses
    <2> QED
      BY <1>6, <2>1 DEF Execute
  <1>7. CASE ReadSchedule
    <2>1. run' \in RunStates /\ run'.phase = "recording" /\ run'.id = run.id /\ run'.settings \in Configs
      <3>1. run \in RunStates /\ run.settings \in Configs /\ config \in Configs
        BY <1>7 DEF ReadSchedule
      <3>2. PICK c \in {run.settings, config}, u \in {run.usable, TRUE} :
               run' = [run EXCEPT !.phase = "recording", !.settings = c, !.usable = u]
        <4>1. [run EXCEPT !.phase = "recording"]
                = [run EXCEPT !.phase = "recording", !.settings = run.settings, !.usable = run.usable]
          BY <3>1 DEF RunStates
        <4> QED
          BY <1>7, <4>1 DEF ReadSchedule
      <3> HIDE DEF TypeOK
      <3> QED
        BY <3>1, <3>2 DEF RunStates, Phases
    <2>2. failed' \in BOOLEAN /\ events' \in 0..MaxEvents /\ process.owner <= events'
      <3> HIDE DEF TypeOK
      <3> QED
        BY <1>7, TypeOutside DEF ReadSchedule, Works
    <2>3. UNCHANGED storeVars
      BY <1>7 DEF ReadSchedule, Fails
    <2> QED
      BY <1>7, <2>1, <2>2, <2>3 DEF ReadSchedule
  <1>8. CASE Abort
    BY <1>8, <1>idle, TypeReleased DEF Abort
  <1>9. CASE Publish
    <2>1. nextRun' \in [interval : Intervals, due : BOOLEAN] \union {NotDue}
      BY <1>9, ScheduledType DEF Publish
    <2>2. lastTask' \in Names
      BY <1>9 DEF Publish, Names
    <2> QED
      BY <1>9, <1>idle, <2>1, <2>2, TypeReleased DEF Publish
  <1> QED
    BY <1>1, <1>2, <1>3, <1>4, <1>5, <1>6, <1>7, <1>8, <1>9

LEMMA TypeRecord ==
  ASSUME TypeOK, RecordStart \/ Report \/ RecordFinal PROVE TypeOK'
  <1> USE InspectionAssumption DEF TypeOK, storeVars, memoryVars, apiVars, outside
  <1>1. "running" \in Statuses /\ run.verdict \in Statuses /\ (run.phase # "idle" => run.id \in Runs)
    BY DEF Statuses, RunStates
  <1>2. CASE RecordStart
    <2>1. /\ run' \in RunStates /\ run'.phase \in {"executing", "aborting"} /\ run'.id = run.id
          /\ run'.settings = run.settings
      BY <1>2 DEF RecordStart, RunStates, Phases
    <2>2. /\ history' \in Histories /\ UNCHANGED <<config, lease, database>>
          /\ failed' \in BOOLEAN /\ events' \in 0..MaxEvents /\ process.owner <= events'
      <3>1. \/ (\E s \in Statuses : Recorded(s)) /\ Works
            \/ Fails
            \/ UNCHANGED <<storeVars, outside>>
        BY <1>1, <1>2 DEF RecordStart
      <3>2. run.id \in Runs /\ history \in Histories
        BY <1>1, <1>2 DEF RecordStart
      <3> HIDE DEF TypeOK
      <3>3. failed' \in BOOLEAN /\ events' \in 0..MaxEvents /\ process.owner <= events'
        BY <3>1, TypeOutside DEF Works
      <3>4. history' \in Histories /\ UNCHANGED <<config, lease, database>>
        BY <3>1, <3>2, TypeRecorded DEF Fails
      <3> QED
        BY <3>3, <3>4
    <2>3. snapshot' \in [{"recorder", "reconciler"} -> Histories \union {NoRead}]
      BY <1>2 DEF RecordStart, EndRead
    <2> QED
      BY <1>2, <2>1, <2>2, <2>3 DEF RecordStart
  <1>3. CASE Report
    <2>1. run' \in RunStates /\ run'.phase = "executing" /\ run'.id = run.id /\ run'.settings = run.settings
      BY <1>3 DEF Report, RunStates
    <2>2. /\ history' \in Histories /\ UNCHANGED <<config, lease, database>>
          /\ failed' \in BOOLEAN /\ events' \in 0..MaxEvents /\ process.owner <= events'
      <3>1. \/ (\E s \in Statuses : Recorded(s)) /\ Works
            \/ Fails
            \/ UNCHANGED <<storeVars, outside>>
        BY <1>1, <1>3 DEF Report
      <3>2. run.id \in Runs /\ history \in Histories
        BY <1>1, <1>3 DEF Report
      <3> HIDE DEF TypeOK
      <3>3. failed' \in BOOLEAN /\ events' \in 0..MaxEvents /\ process.owner <= events'
        BY <3>1, TypeOutside DEF Works
      <3>4. history' \in Histories /\ UNCHANGED <<config, lease, database>>
        BY <3>1, <3>2, TypeRecorded DEF Fails
      <3> QED
        BY <3>3, <3>4
    <2>3. snapshot' \in [{"recorder", "reconciler"} -> Histories \union {NoRead}]
      BY <1>3 DEF Report, EndRead
    <2>4. lastTask' \in Names
      BY <1>1, <1>3 DEF Report, Names
    <2> QED
      BY <1>3, <2>1, <2>2, <2>3, <2>4 DEF Report
  <1>4. CASE RecordFinal
    <2>1. run' \in RunStates /\ run'.phase = "releasing" /\ run'.id = run.id /\ run'.settings = run.settings
      BY <1>4 DEF RecordFinal, RunStates, Phases
    <2>2. /\ history' \in Histories /\ UNCHANGED <<config, lease, database>>
          /\ failed' \in BOOLEAN /\ events' \in 0..MaxEvents /\ process.owner <= events'
      <3>1. \/ (\E s \in Statuses : Recorded(s)) /\ Works
            \/ Fails
            \/ UNCHANGED <<storeVars, outside>>
        BY <1>1, <1>4 DEF RecordFinal
      <3>2. run.id \in Runs /\ history \in Histories
        BY <1>1, <1>4 DEF RecordFinal
      <3> HIDE DEF TypeOK
      <3>3. failed' \in BOOLEAN /\ events' \in 0..MaxEvents /\ process.owner <= events'
        BY <3>1, TypeOutside DEF Works
      <3>4. history' \in Histories /\ UNCHANGED <<config, lease, database>>
        BY <3>1, <3>2, TypeRecorded DEF Fails
      <3> QED
        BY <3>3, <3>4
    <2>3. snapshot' \in [{"recorder", "reconciler"} -> Histories \union {NoRead}]
      BY <1>4 DEF RecordFinal, EndRead
    <2> QED
      BY <1>4, <2>1, <2>2, <2>3 DEF RecordFinal
  <1> QED
    BY <1>2, <1>3, <1>4

\* Stopping or telling a run changes neither its identity nor its settings.
LEMMA StoppedType ==
  ASSUME NEW r \in RunStates, NEW cause \in {"cancelled", "failed"}
  PROVE  /\ Stopped(r, cause) \in RunStates
         /\ Stopped(r, cause) = [r EXCEPT !.ctx = Stopped(r, cause).ctx]
         /\ \A x \in {"id", "phase", "settings", "edited", "usable", "verdict", "reported", "forced"} :
               Stopped(r, cause)[x] = r[x]
  BY DEF Stopped, RunStates

LEMMA ToldType ==
  ASSUME run \in RunStates, run.phase = "idle" => run = Idle, NEW c
  PROVE  /\ Told(c) \in RunStates /\ (run = Idle => Told(c) = Idle)
         /\ \A x \in {"id", "phase", "settings", "usable", "verdict"} : Told(c)[x] = run[x]
         /\ run # Idle => Told(c).edited
  <1> DEFINE told == [run EXCEPT !.edited = TRUE]
  <1>1. CASE run = Idle
    BY <1>1 DEF Told
  <1>2. CASE run # Idle
    <2>1. told \in RunStates /\ told.edited
          /\ \A x \in {"id", "phase", "settings", "usable", "verdict"} : told[x] = run[x]
      BY DEF RunStates
    <2>2. Told(c) = told \/ Told(c) = Stopped(told, "cancelled")
      BY <1>2 DEF Told
    <2> HIDE DEF told
    <2>3. Stopped(told, "cancelled") \in RunStates
      BY <2>1, StoppedType
    <2>4. \A x \in {"id", "phase", "settings", "edited", "usable", "verdict", "reported", "forced"} :
             Stopped(told, "cancelled")[x] = told[x]
      BY <2>1, StoppedType
    <2>5. \A x \in {"id", "phase", "settings", "usable", "verdict"} : Stopped(told, "cancelled")[x] = told[x]
      BY <2>4
    <2>6. Stopped(told, "cancelled").edited = told.edited
      BY <2>4
    <2> QED
      BY <1>2, <2>1, <2>2, <2>3, <2>5, <2>6
  <1> QED
    BY <1>1, <1>2

LEMMA TypeRequests ==
  ASSUME TypeOK,
         (\E e \in Editors : EditStores(e) \/ EditTells(e)) \/ DeleteStores \/ DeletePasses \/ ClearChecks
         \/ ClearDeletes
  PROVE  TypeOK'
  <1> USE InspectionAssumption DEF TypeOK, storeVars, memoryVars, apiVars, outside
  <1>1. ASSUME NEW e \in Editors, EditStores(e) PROVE TypeOK'
    <2>1. /\ editor' \in [Editors -> [stored : BOOLEAN, config : Configs \union {Unread}]]
          /\ \A f \in Editors : editor'[f].stored => editor'[f].config \in Configs
      BY <1>1 DEF EditStores
    <2>2. failed' \in BOOLEAN /\ events' \in 0..MaxEvents /\ process.owner <= events'
      <3> HIDE DEF TypeOK
      <3> QED
        BY <1>1, TypeOutside DEF EditStores
    <2>3. overlapped' \in BOOLEAN
      BY <1>1 DEF EditStores
    <2> QED
      BY <1>1, <2>1, <2>2, <2>3 DEF EditStores
  <1>2. ASSUME NEW e \in Editors, EditTells(e) PROVE TypeOK'
    <2>1. /\ editor' \in [Editors -> [stored : BOOLEAN, config : Configs \union {Unread}]]
          /\ \A f \in Editors : editor'[f].stored => editor'[f].config \in Configs
      BY <1>2 DEF EditTells, NoEdit
    <2>2. nextRun' \in [interval : Intervals, due : BOOLEAN] \union {NotDue}
      BY <1>2, ScheduledType DEF EditTells
    <2>3. run \in RunStates /\ (run.phase = "idle" => run = Idle) /\ run' = Told(editor[e].config)
      BY <1>2 DEF EditTells
    <2>4. run' \in RunStates /\ run'.phase = run.phase /\ run'.id = run.id /\ run'.settings = run.settings
          /\ (run = Idle => run' = Idle)
      <3> HIDE DEF TypeOK
      <3> QED
        BY <2>3, ToldType
    <2> QED
      BY <1>2, <2>1, <2>2, <2>4 DEF EditTells
  <1>3. CASE DeleteStores
    <2>1. failed' \in BOOLEAN /\ events' \in 0..MaxEvents /\ process.owner <= events'
      <3> HIDE DEF TypeOK
      <3> QED
        BY <1>3, TypeOutside DEF DeleteStores
    <2>2. deleting' \in Names
      BY <1>3 DEF DeleteStores, RunStates
    <2> QED
      BY <1>3, <2>1, <2>2 DEF DeleteStores
  <1>4. CASE DeletePasses
    <2>1. run' = run \/ (run # Idle /\ run' = Stopped(run, "cancelled"))
      BY <1>4 DEF DeletePasses
    <2>2. run' \in RunStates /\ run'.phase = run.phase /\ run'.id = run.id /\ run'.settings = run.settings
          /\ (run = Idle => run' = Idle)
      BY <2>1, StoppedType
    <2> QED
      BY <1>4, <2>2 DEF DeletePasses, Names
  <1>5. CASE ClearChecks
    <2>1. failed' \in BOOLEAN /\ events' \in 0..MaxEvents /\ process.owner <= events'
      <3> HIDE DEF TypeOK
      <3> QED
        BY <1>5, TypeOutside DEF ClearChecks
    <2> QED
      BY <1>5, <2>1 DEF ClearChecks
  <1>6. CASE ClearDeletes
    <2>1. failed' \in BOOLEAN /\ events' \in 0..MaxEvents /\ process.owner <= events'
      <3> HIDE DEF TypeOK
      <3> QED
        BY <1>6, TypeOutside DEF ClearDeletes, Works
    <2>2. history' \in Histories /\ lastTask' \in Names /\ UNCHANGED <<database, config, lease>>
      <3>1. <<>> \in Histories
        BY DEF Histories
      <3>2. history' \in {<<>>, history} /\ lastTask' \in {NoRun, lastTask} /\ UNCHANGED <<database, config, lease>>
        BY <1>6 DEF ClearDeletes, Fails
      <3> QED
        BY <3>1, <3>2 DEF Names
    <2> QED
      BY <1>6, <2>1, <2>2 DEF ClearDeletes
  <1> QED
    BY <1>1, <1>2, <1>3, <1>4, <1>5, <1>6

LEMMA TypeProcess ==
  ASSUME TypeOK, Stop \/ Down \/ Start PROVE TypeOK'
  <1> USE InspectionAssumption DEF TypeOK, storeVars, memoryVars, apiVars, outside
  <1>1. CASE Stop
    <2>1. failed' \in BOOLEAN /\ events' \in 0..MaxEvents /\ process.owner <= events'
      <3> HIDE DEF TypeOK
      <3> QED
        BY <1>1, TypeOutside DEF Stop
    <2>2. run' = run \/ (run # Idle /\ run' = Stopped(run, "failed"))
      BY <1>1 DEF Stop
    <2>3. run' \in RunStates /\ run'.phase = run.phase /\ run'.id = run.id /\ run'.settings = run.settings
          /\ (run = Idle => run' = Idle)
      BY <2>2, StoppedType
    <2> QED
      BY <1>1, <2>1, <2>3 DEF Stop
  <1>2. CASE Down
    <2>1. /\ process' \in [up : BOOLEAN, stopping : BOOLEAN, owner : Owners] /\ process'.owner <= events'
          /\ events' \in 0..MaxEvents /\ failed' \in BOOLEAN
      BY <1>2 DEF Down, Event, Owners
    <2>2. Idle \in RunStates /\ Idle.phase = "idle"
      BY DEF Idle, RunStates, Names, Phases, Statuses, Unread
    <2>3. /\ editor' \in [Editors -> [stored : BOOLEAN, config : Configs \union {Unread}]]
          /\ \A f \in Editors : ~editor'[f].stored
      BY <1>2 DEF Down, NoEdit
    <2>4. loop' \in [pc : Pcs, config : Configs \union {Unread}] /\ loop'.pc = "off"
      BY <1>2 DEF Down, LoopOff, Pcs
    <2>5. snapshot' \in [{"recorder", "reconciler"} -> Histories \union {NoRead}]
      BY <1>2 DEF Down
    <2> QED
      BY <1>2, <2>1, <2>2, <2>3, <2>4, <2>5 DEF Down, Names
  <1>3. CASE Start
    <2>1. Reconciled(history) \in Histories
      BY ReconciledFacts
    <2>2. nextRun' \in [interval : Intervals, due : BOOLEAN] \union {NotDue}
      BY <1>3, ScheduledType DEF Start
    <2> QED
      BY <1>3, <2>1, <2>2 DEF Start, GoTo, Pcs
  <1> QED
    BY <1>1, <1>2, <1>3

LEMMA TypeNext == TypeOK /\ [Next]_vars => TypeOK'
  <1> SUFFICES ASSUME TypeOK, [Next]_vars PROVE TypeOK'
    OBVIOUS
  <1>1. CASE Next
    BY <1>1, TypeStore, TypeLoop, TypeClaim, TypeRun, TypeRecord, TypeRequests, TypeProcess
       DEF Next, LoopSteps, RunSteps
  <1>2. CASE UNCHANGED vars
    BY <1>2 DEF TypeOK, vars, storeVars, memoryVars, apiVars, outside
  <1> QED
    BY <1>1, <1>2

\* On every schedule the types hold: the history keeps its limit, a run under way
\* has read its settings, and whoever is about to use a configuration has one.
THEOREM InspectionTypes == Spec => []TypeOK
  <1>1. Init => TypeOK
    BY TypeInit
  <1>2. TypeOK /\ [Next]_vars => TypeOK'
    BY TypeNext
  <1> QED
    BY <1>1, <1>2, PTL DEF Spec

-----------------------------------------------------------------------------
(* What the process being down means *)

\* While the process is down nothing is under way in it.
DownInv == ~process.up => /\ run = Idle /\ loop = LoopOff /\ ~signal /\ nextRun = NotDue
                          /\ editor = [e \in Editors |-> NoEdit]

LEMMA DownKept ==
  ASSUME TypeOK, DownInv, [Next]_vars PROVE DownInv'
  <1> USE DEF storeVars, memoryVars, apiVars, outside
  <1>1. ASSUME process.up, Next, ~process'.up PROVE Down
    <2>1. CASE LoopSteps \/ LoopCannotRead
      BY <1>1, <2>1 DEF LoopSteps, LoopRead, LoopArm, LoopSignalled, TimerFires, LoopCheck, LoopClaims,
                        LoopReturns, LoopStops, LoopCannotRead
    <2>2. CASE RunSteps
      BY <1>1, <2>2 DEF RunSteps, Acquire, AcquireRefused, AcquireFails, RecordStart, Execute, ReadSchedule,
                        RecordFinal, Abort, Publish
    <2>3. CASE WorkerClaims \/ Report \/ Renew \/ ContextEnds
      BY <1>1, <2>3 DEF WorkerClaims, Report, Renew, ContextEnds
    <2>4. CASE RecordRead \/ ReconcileRead \/ ReconcileWrite \/ Expire \/ TimeComes
      BY <1>1, <2>4 DEF RecordRead, ReconcileRead, ReconcileWrite, Expire, TimeComes
    <2>5. CASE (\E e \in Editors : EditStores(e) \/ EditTells(e)) \/ DeleteStores \/ DeletePasses \/ ClearChecks
               \/ ClearDeletes
      BY <1>1, <2>5 DEF EditStores, EditTells, DeleteStores, DeletePasses, ClearChecks, ClearDeletes
    <2>6. CASE Stop \/ Start
      BY <1>1, <2>6 DEF Stop, Start, TypeOK
    <2> QED
      BY <1>1, <2>1, <2>2, <2>3, <2>4, <2>5, <2>6 DEF Next
  <1>2. ASSUME process.up, Down PROVE DownInv'
    BY <1>2 DEF DownInv, Down
  <1>3. ASSUME ~process.up, Next PROVE Start \/ UNCHANGED <<run, loop, signal, nextRun, editor>>
    <2>1. /\ run = Idle /\ run.phase = "idle" /\ loop = LoopOff /\ loop.pc = "off"
          /\ \A e \in Editors : ~editor[e].stored
      BY <1>3 DEF DownInv, Idle, LoopOff, NoEdit
    <2>2. CASE LoopSteps \/ LoopCannotRead
      BY <2>1, <2>2 DEF LoopSteps, LoopRead, LoopArm, LoopSignalled, TimerFires, LoopCheck, LoopClaims,
                        LoopReturns, LoopStops, LoopCannotRead
    <2>3. CASE RunSteps
      BY <2>1, <2>3 DEF RunSteps, Acquire, AcquireRefused, AcquireFails, RecordStart, Execute, ReadSchedule,
                        RecordFinal, Abort, Publish
    <2>4. CASE WorkerClaims \/ Report \/ Renew \/ ContextEnds
      BY <1>3, <2>1, <2>4 DEF WorkerClaims, Report, Renew, ContextEnds
    <2>5. CASE RecordRead \/ ReconcileRead \/ ReconcileWrite \/ Expire \/ TimeComes
      BY <2>1, <2>5 DEF RecordRead, ReconcileRead, ReconcileWrite, Expire, TimeComes
    <2>6. CASE (\E e \in Editors : EditStores(e) \/ EditTells(e)) \/ DeleteStores \/ DeletePasses \/ ClearChecks
               \/ ClearDeletes
      BY <1>3, <2>1, <2>6 DEF EditStores, EditTells, DeleteStores, DeletePasses, ClearChecks, ClearDeletes, Serving
    <2>7. CASE Stop \/ Down
      BY <1>3, <2>7 DEF Stop, Down
    <2> QED
      BY <1>3, <2>2, <2>3, <2>4, <2>5, <2>6, <2>7 DEF Next
  <1>4. ASSUME ~process.up, Start PROVE DownInv'
    BY <1>4 DEF DownInv, Start, TypeOK
  <1>5. CASE UNCHANGED vars
    BY <1>5 DEF DownInv, vars
  <1>6. CASE Next
    BY <1>1, <1>2, <1>3, <1>4, <1>6 DEF DownInv
  <1> QED
    BY <1>5, <1>6

-----------------------------------------------------------------------------
(* The history *)

Verdicts == {"succeeded", "failed", "cancelled"}

\* The phases in which the run under way has no running heartbeat.
AtRest == {"idle", "claimed", "leased", "aborting", "releasing"}

\* Where transactions are serial a run has one heartbeat, and that of the run
\* under way says running or interrupted until its end is recorded.
HistoryInv ==
    Serialised =>
        /\ Distinct(history)
        /\ \A i \in DOMAIN history : history[i].run = run.id =>
              \/ run.phase \in {"executing", "versioned", "recording"}
                 /\ history[i].status \in {"running", "interrupted"}
              \/ run.phase = "releasing"

\* What is recorded at the end of a run is a verdict.
VerdictInv == run.phase \in {"versioned", "recording", "releasing"} => run.verdict \in Verdicts

\* Without failures, until the process goes down: what says running is the run's
\* that executes, and before the first start there is nothing.
OrphanInv ==
    Serialised /\ ~failed /\ process.owner = 0 =>
        /\ ~process.up => history = <<>>
        /\ \A i \in DOMAIN history : history[i].status = "running" =>
              history[i].run = run.id /\ run.phase \notin AtRest

RecordInv == TypeOK /\ DownInv /\ HistoryInv /\ VerdictInv /\ OrphanInv

\* A record written where transactions are serial.
LEMMA RecordedFacts ==
  ASSUME TypeOK, Serialised, run.id \in Runs, NEW s \in Statuses, Recorded(s)
  PROVE  /\ \A i \in DOMAIN history' :
               \/ history'[i].run = run.id /\ history'[i].status = s
               \/ \E j \in DOMAIN history : history'[i] = history[j] /\ history[j].run # run.id
         /\ Distinct(history) => Distinct(history')
         /\ Serialised'
  <1>1. history \in Histories /\ history' = Put(history, run.id, s) /\ database' = database
    BY DEF TypeOK, Recorded, ReadBy
  <1>2. /\ \A i \in DOMAIN history' :
               \/ history'[i] = [run |-> run.id, status |-> s]
               \/ \E j \in DOMAIN history : history'[i] = history[j] /\ history[j].run # run.id
        /\ Distinct(history) => Distinct(history')
    BY <1>1, PutFacts
  <1>3. Serialised'
    BY <1>1 DEF Serialised
  <1> QED
    BY <1>2, <1>3

\* The steps that touch neither the history nor the run's place.
LEMMA QuietStep ==
  ASSUME TypeOK,
         \/ RecordRead \/ ReconcileRead \/ Expire \/ TimeComes \/ LoopRead \/ LoopArm \/ LoopSignalled
         \/ TimerFires \/ LoopCheck \/ LoopCannotRead \/ LoopStops \/ LoopReturns \/ Renew \/ ContextEnds
         \/ (\E e \in Editors : EditStores(e) \/ EditTells(e))
         \/ DeleteStores \/ DeletePasses \/ ClearChecks \/ Stop \/ UNCHANGED vars
  PROVE  /\ UNCHANGED <<database, history>>
         /\ run'.id = run.id /\ run'.phase = run.phase /\ run'.verdict = run.verdict
         /\ process'.up = process.up /\ process'.owner = process.owner
         /\ failed => failed'
  <1> USE DEF storeVars, memoryVars, apiVars, outside, Event, Fails
  <1> run \in RunStates /\ (run.phase = "idle" => run = Idle)
      /\ process \in [up : BOOLEAN, stopping : BOOLEAN, owner : Owners]
    BY DEF TypeOK
  <1>1. CASE RecordRead \/ ReconcileRead \/ Expire \/ TimeComes
    BY <1>1 DEF RecordRead, ReconcileRead, Expire, TimeComes
  <1>2. CASE LoopRead \/ LoopArm \/ LoopSignalled \/ TimerFires \/ LoopCheck \/ LoopCannotRead \/ LoopStops
             \/ LoopReturns
    BY <1>2 DEF LoopRead, LoopArm, LoopSignalled, TimerFires, LoopCheck, LoopCannotRead, LoopStops, LoopReturns
  <1>3. CASE Renew
    <2>1. UNCHANGED <<database, history, process>> /\ (failed => failed')
      BY <1>3 DEF Renew
    <2>2. run' = run \/ run' = [run EXCEPT !.ctx = "failed"]
      BY <1>3 DEF Renew
    <2> QED
      BY <2>1, <2>2 DEF RunStates
  <1>4. CASE ContextEnds
    <2>1. UNCHANGED <<database, history, process, failed>>
      BY <1>4 DEF ContextEnds
    <2>2. \E c \in {"cancelled", "failed"} : run' = [run EXCEPT !.ctx = c]
      BY <1>4 DEF ContextEnds
    <2> QED
      BY <2>1, <2>2 DEF RunStates
  <1>5. ASSUME NEW e \in Editors, EditStores(e) \/ EditTells(e)
        PROVE  /\ UNCHANGED <<database, history, process, failed>>
               /\ run' = run \/ run' = Told(editor[e].config)
    <2>1. CASE EditStores(e)
      BY <2>1 DEF EditStores
    <2>2. CASE EditTells(e)
      BY <2>2 DEF EditTells
    <2> QED
      BY <1>5, <2>1, <2>2
  <1>6. CASE \E e \in Editors : EditStores(e) \/ EditTells(e)
    BY <1>5, <1>6, ToldType
  <1>7. CASE DeletePasses
    <2>1. UNCHANGED <<database, history, process, failed>> /\ run' \in {run, Stopped(run, "cancelled")}
      BY <1>7 DEF DeletePasses
    <2> QED
      BY <2>1, StoppedType
  <1>8. CASE Stop
    <2>1. UNCHANGED <<database, history, failed>> /\ run' \in {run, Stopped(run, "failed")}
          /\ process'.up = process.up /\ process'.owner = process.owner
      BY <1>8 DEF Stop
    <2> QED
      BY <2>1, StoppedType
  <1>9. CASE DeleteStores \/ ClearChecks \/ UNCHANGED vars
    BY <1>9 DEF DeleteStores, ClearChecks, vars
  <1> QED
    BY <1>1, <1>2, <1>3, <1>4, <1>6, <1>7, <1>8, <1>9

LEMMA QuietKept ==
  ASSUME HistoryInv, VerdictInv, OrphanInv,
         UNCHANGED <<database, history>>,
         run'.id = run.id, run'.phase = run.phase, run'.verdict = run.verdict,
         process'.up = process.up, process'.owner = process.owner, failed => failed'
  PROVE  HistoryInv' /\ VerdictInv' /\ OrphanInv'
  BY DEF HistoryInv, VerdictInv, OrphanInv, Serialised, Distinct

\* The steps that begin, order and end a run without writing the history.
LEMMA RunStepKept ==
  ASSUME RecordInv,
         \/ LoopClaims \/ WorkerClaims \/ Acquire \/ AcquireRefused \/ AcquireFails \/ Execute \/ ReadSchedule
         \/ Abort \/ Publish
  PROVE  HistoryInv' /\ VerdictInv' /\ OrphanInv'
  <1> USE DEF RecordInv, storeVars, memoryVars, apiVars, outside
  <1>1. UNCHANGED <<database, history, process>> /\ (failed => failed') /\ (Serialised' <=> Serialised)
    <2>1. UNCHANGED <<database, history, process>> /\ (failed' = failed \/ failed' = TRUE)
      <3>1. CASE LoopClaims
        BY <3>1 DEF LoopClaims
      <3>2. CASE WorkerClaims \/ Acquire \/ AcquireRefused \/ AcquireFails
        BY <3>2 DEF WorkerClaims, Acquire, AcquireRefused, AcquireFails, Event, Fails
      <3>3. CASE Execute \/ ReadSchedule \/ Abort \/ Publish
        BY <3>3 DEF Execute, ReadSchedule, Abort, Publish, Released, Fails
      <3> QED
        BY <3>1, <3>2, <3>3
    <2> QED
      BY <2>1 DEF Serialised
  <1>2. history \in Histories /\ run \in RunStates /\ (run.phase = "idle" => run = Idle) /\ NoRun \notin Runs
        /\ \A i \in DOMAIN history : history[i] \in Heartbeat
    BY InspectionAssumption DEF TypeOK, Histories
  <1>3. ASSUME run'.phase \in {"claimed", "leased", "idle"}, run.phase \in AtRest,
               \A i \in DOMAIN history : history[i].run # run'.id
        PROVE  HistoryInv' /\ VerdictInv' /\ OrphanInv'
    BY <1>1, <1>3 DEF HistoryInv, VerdictInv, OrphanInv, AtRest, Distinct
  <1>4. \A i \in DOMAIN history : history[i].run # NoRun
    BY <1>2 DEF Heartbeat
  <1>5. ASSUME run' = run \/ run' = Idle, run.phase \in AtRest PROVE HistoryInv' /\ VerdictInv' /\ OrphanInv'
    <2>1. CASE run' = run
      BY <1>1, <2>1, QuietKept
    <2>2. CASE run' = Idle
      <3>1. run'.phase = "idle" /\ run'.id = NoRun
        BY <2>2 DEF Idle
      <3> QED
        BY <1>3, <1>4, <1>5, <3>1
    <2> QED
      BY <1>5, <2>1, <2>2
  <1>6. ASSUME NEW c \in Configs, Unused # {}, run = Idle, run' = NewRun(c, TRUE) \/ run' = NewRun(c, FALSE)
        PROVE  HistoryInv' /\ VerdictInv' /\ OrphanInv'
    <2>1. run'.phase = "claimed" /\ run'.id \in Unused
      BY <1>6, NewRunType
    <2>2. \A i \in DOMAIN history : history[i].run # run'.id
      BY <2>1 DEF Unused
    <2>3. run.phase \in AtRest
      BY <1>6 DEF AtRest, Idle
    <2> QED
      BY <1>3, <2>1, <2>2, <2>3
  <1>7. CASE LoopClaims
    <2>1. CASE UNCHANGED run
      BY <1>1, <2>1, QuietKept
    <2>2. CASE ~UNCHANGED run
      <3>1. loop.config \in Configs /\ Unused # {} /\ run = Idle /\ run' = NewRun(loop.config, FALSE)
        BY <1>7, <2>2 DEF LoopClaims, Refused, TypeOK
      <3> QED
        BY <1>6, <3>1
    <2> QED
      BY <2>1, <2>2
  <1>8. CASE WorkerClaims
    <2>1. config \in Configs /\ Unused # {} /\ run = Idle /\ run' = NewRun(config, TRUE)
      BY <1>8 DEF WorkerClaims, Refused, TypeOK
    <2> QED
      BY <1>6, <2>1
  <1>9. CASE Acquire
    <2>1. run.phase = "claimed" /\ run'.phase = "leased" /\ run'.id = run.id
      BY <1>2, <1>9 DEF Acquire, RunStates
    <2>2. Serialised => \A i \in DOMAIN history : history[i].run # run'.id
      BY <2>1 DEF HistoryInv
    <2> QED
      BY <1>1, <2>1, <2>2 DEF HistoryInv, VerdictInv, OrphanInv, AtRest, Distinct
  <1>10. CASE AcquireRefused \/ AcquireFails
    <2>1. run.phase \in AtRest /\ run' = Idle
      BY <1>10 DEF AcquireRefused, AcquireFails, AtRest
    <2> QED
      BY <1>5, <2>1
  <1>11. CASE Execute
    <2>1. run.phase = "executing" /\ run'.phase = "versioned" /\ run'.id = run.id /\ run'.verdict \in Verdicts
      BY <1>2, <1>11 DEF Execute, RunStates, Verdicts
    <2> QED
      BY <1>1, <2>1 DEF HistoryInv, VerdictInv, OrphanInv, AtRest, Distinct
  <1>12. CASE ReadSchedule
    <2>1. run.phase = "versioned" /\ run'.phase = "recording" /\ run'.id = run.id /\ run'.verdict = run.verdict
      BY <1>2, <1>12 DEF ReadSchedule, RunStates
    <2> QED
      BY <1>1, <2>1 DEF HistoryInv, VerdictInv, OrphanInv, AtRest, Distinct
  <1>13. CASE Abort \/ Publish
    <2>1. run.phase \in AtRest /\ run' = Idle
      BY <1>13 DEF Abort, Publish, AtRest
    <2> QED
      BY <1>5, <2>1
  <1> QED
    BY <1>7, <1>8, <1>9, <1>10, <1>11, <1>12, <1>13

\* The steps that write the history.
LEMMA RecordStepKept ==
  ASSUME RecordInv, RecordStart \/ Report \/ RecordFinal
  PROVE  HistoryInv' /\ VerdictInv' /\ OrphanInv'
  <1> USE DEF RecordInv, storeVars, memoryVars, apiVars, outside
  <1>1. /\ run \in RunStates /\ history \in Histories /\ (run.phase # "idle" => run.id \in Runs /\ process.up)
    BY DEF TypeOK, DownInv, Idle
  <1>2. "running" \in Statuses /\ run.verdict \in Statuses
    BY <1>1 DEF RunStates, Statuses
  <1>3. UNCHANGED process
    BY DEF RecordStart, Report, RecordFinal
  <1>4. ASSUME NEW s \in Statuses, Recorded(s), Works, run.id \in Runs, process.up,
               run'.id = run.id, run'.verdict = run.verdict,
               \/ run'.phase = "executing" /\ s = "running" /\ run.phase \in {"leased", "executing"}
               \/ run'.phase = "releasing" /\ s = run.verdict /\ run.phase = "recording"
        PROVE  HistoryInv' /\ VerdictInv' /\ OrphanInv'
    <2>1. database' = database /\ (failed => failed')
      BY <1>4 DEF Recorded, Works
    <2>2. CASE ~Serialised
      BY <1>4, <2>1, <2>2 DEF HistoryInv, VerdictInv, OrphanInv, Serialised
    <2>3. CASE Serialised
      <3>1. /\ \A i \in DOMAIN history' :
                  \/ history'[i].run = run.id /\ history'[i].status = s
                  \/ \E j \in DOMAIN history : history'[i] = history[j] /\ history[j].run # run.id
            /\ Distinct(history')
        BY <1>4, <2>3, RecordedFacts DEF HistoryInv
      <3>2. HistoryInv'
        BY <1>4, <3>1 DEF HistoryInv, Distinct
      <3>3. VerdictInv'
        BY <1>4 DEF VerdictInv
      <3>4. s = "running" \/ s \in Verdicts
        BY <1>4 DEF VerdictInv
      <3>5. OrphanInv'
        <4> SUFFICES ASSUME ~failed', process'.owner = 0, NEW i \in DOMAIN history', history'[i].status = "running"
                     PROVE  history'[i].run = run'.id /\ run'.phase \notin AtRest
          BY <1>3, <1>4 DEF OrphanInv
        <4>1. ASSUME NEW j \in DOMAIN history, history[j].status = "running" PROVE history[j].run = run.id
          BY <1>3, <2>1, <2>3, <4>1 DEF OrphanInv
        <4>2. history'[i].run = run.id /\ s = "running"
          BY <3>1, <3>4, <4>1, <1>4 DEF VerdictInv, Verdicts
        <4> QED
          BY <1>4, <4>2 DEF AtRest, VerdictInv, Verdicts
      <3> QED
        BY <3>2, <3>3, <3>5
    <2> QED
      BY <2>2, <2>3
  <1>5. CASE RecordStart
    <2>1. run.phase = "leased" /\ run'.id = run.id /\ run'.verdict = run.verdict
          /\ run'.phase \in {"executing", "aborting"}
      BY <1>1, <1>5 DEF RecordStart, RunStates
    <2>2. \/ Recorded("running") /\ Works /\ run'.phase = "executing"
          \/ UNCHANGED storeVars /\ (failed => failed') /\ run'.phase = "aborting"
      BY <1>1, <1>5 DEF RecordStart, Fails, RunStates
    <2>3. CASE Recorded("running") /\ Works /\ run'.phase = "executing"
      BY <1>1, <1>2, <1>4, <2>1, <2>3
    <2>4. CASE UNCHANGED storeVars /\ (failed => failed') /\ run'.phase = "aborting"
      BY <1>3, <2>1, <2>4 DEF HistoryInv, VerdictInv, OrphanInv, Serialised, Distinct, AtRest
    <2> QED
      BY <2>2, <2>3, <2>4
  <1>6. CASE Report
    <2>1. run.phase = "executing" /\ run'.id = run.id /\ run'.verdict = run.verdict /\ run'.phase = "executing"
      BY <1>1, <1>6 DEF Report, RunStates
    <2>2. (Recorded("running") /\ Works) \/ (UNCHANGED storeVars /\ (failed => failed'))
      BY <1>6 DEF Report, Fails
    <2>3. CASE Recorded("running") /\ Works
      BY <1>1, <1>2, <1>4, <2>1, <2>3
    <2>4. CASE UNCHANGED storeVars /\ (failed => failed')
      BY <1>3, <2>1, <2>4, QuietKept
    <2> QED
      BY <2>2, <2>3, <2>4
  <1>7. CASE RecordFinal
    <2>1. run.phase = "recording" /\ run'.id = run.id /\ run'.verdict = run.verdict /\ run'.phase = "releasing"
      BY <1>1, <1>7 DEF RecordFinal, RunStates
    <2>2. (Recorded(run.verdict) /\ Works) \/ (UNCHANGED storeVars /\ failed')
      BY <1>7 DEF RecordFinal, Fails
    <2>3. CASE Recorded(run.verdict) /\ Works
      BY <1>1, <1>2, <1>4, <2>1, <2>3
    <2>4. CASE UNCHANGED storeVars /\ failed'
      BY <1>3, <2>1, <2>4 DEF HistoryInv, VerdictInv, OrphanInv, Serialised, Distinct
    <2> QED
      BY <2>2, <2>3, <2>4
  <1> QED
    BY <1>5, <1>6, <1>7

\* The reconciler, the clearing and the process's own steps.
LEMMA RewriteKept ==
  ASSUME RecordInv, ReconcileWrite \/ ClearDeletes \/ Down \/ Start
  PROVE  HistoryInv' /\ VerdictInv' /\ OrphanInv'
  <1> USE DEF RecordInv, storeVars, memoryVars, apiVars, outside
  <1>1. history \in Histories /\ process.owner \in Nat /\ DOMAIN history \subseteq Nat
    BY DEF TypeOK, Owners, Histories
  <1>2. /\ DOMAIN Reconciled(history) = DOMAIN history
        /\ \A i \in DOMAIN history :
              /\ Reconciled(history)[i].run = history[i].run
              /\ Reconciled(history)[i].status \in {"interrupted", history[i].status}
        /\ Distinct(history) => Distinct(Reconciled(history))
    BY <1>1, ReconciledFacts
  <1>3. ASSUME UNCHANGED <<database, run, failed>>, process'.owner = process.owner,
               history' = Reconciled(history) \/ history' = history,
               ~process'.up => ~process.up
        PROVE  HistoryInv' /\ VerdictInv' /\ OrphanInv'
    <2>1. /\ DOMAIN history' = DOMAIN history
          /\ \A i \in DOMAIN history :
                /\ history'[i].run = history[i].run
                /\ history'[i].status \in {"interrupted", history[i].status}
          /\ Distinct(history) => Distinct(history')
      BY <1>2, <1>3
    <2>2. history = <<>> => history' = <<>>
      <3>1. history = <<>> => Reconciled(history) = <<>>
        BY DEF Reconciled
      <3> QED
        BY <1>3, <3>1
    <2>3. HistoryInv' /\ VerdictInv'
      BY <1>3, <2>1 DEF HistoryInv, VerdictInv, Serialised
    <2>4. OrphanInv'
      BY <1>3, <2>1, <2>2 DEF OrphanInv, Serialised
    <2> QED
      BY <2>3, <2>4
  <1>4. CASE ReconcileWrite
    <2>1. CASE Serialised
      <3>1. history' = Reconciled(history) \/ history' = history
        BY <1>4, <2>1 DEF ReconcileWrite, ReadBy
      <3>2. UNCHANGED <<database, run, failed, process>>
        BY <1>4 DEF ReconcileWrite
      <3> QED
        BY <1>3, <3>1, <3>2
    <2>2. CASE ~Serialised
      BY <1>4, <2>2 DEF ReconcileWrite, HistoryInv, VerdictInv, OrphanInv, Serialised
    <2> QED
      BY <2>1, <2>2
  <1>5. CASE ClearDeletes
    <2>1. UNCHANGED <<database, run, process>>
      BY <1>5 DEF ClearDeletes, Fails
    <2>2. \/ history' = history /\ failed'
          \/ history' = <<>>
      BY <1>5 DEF ClearDeletes, Fails
    <2>3. CASE history' = history /\ failed'
      BY <2>1, <2>3 DEF HistoryInv, VerdictInv, OrphanInv, Serialised, Distinct
    <2>4. CASE history' = <<>>
      BY <2>1, <2>4 DEF HistoryInv, VerdictInv, OrphanInv, Serialised, Distinct
    <2> QED
      BY <2>2, <2>3, <2>4
  <1>6. CASE Down
    <2>1. process'.owner # 0 /\ UNCHANGED <<database, history>> /\ run' = Idle
      BY <1>1, <1>6 DEF Down
    <2>2. run'.phase = "idle" /\ run'.id = NoRun
      BY <2>1 DEF Idle
    <2>3. \A i \in DOMAIN history : history[i].run # NoRun
      <3>1. \A i \in DOMAIN history : history[i] \in Heartbeat
        BY <1>1 DEF Histories
      <3> QED
        BY <3>1, InspectionAssumption DEF Heartbeat
    <2>4. HistoryInv'
      BY <2>1, <2>2, <2>3 DEF HistoryInv, Serialised, Distinct
    <2>5. VerdictInv' /\ OrphanInv'
      BY <2>1, <2>2 DEF VerdictInv, OrphanInv
    <2> QED
      BY <2>4, <2>5
  <1>7. CASE Start
    <2>1. UNCHANGED <<database, run, failed>> /\ history' = Reconciled(history) /\ ~process.up
          /\ process'.owner = process.owner
      BY <1>7 DEF Start, TypeOK
    <2> QED
      BY <1>3, <2>1
  <1> QED
    BY <1>4, <1>5, <1>6, <1>7

LEMMA RecordInvInductive == RecordInv /\ [Next]_vars => RecordInv'
  <1> SUFFICES ASSUME RecordInv, [Next]_vars PROVE RecordInv'
    OBVIOUS
  <1>1. TypeOK' /\ DownInv'
    BY TypeNext, DownKept DEF RecordInv
  <1>2. CASE \/ RecordRead \/ ReconcileRead \/ Expire \/ TimeComes \/ LoopRead \/ LoopArm \/ LoopSignalled
             \/ TimerFires \/ LoopCheck \/ LoopCannotRead \/ LoopStops \/ LoopReturns \/ Renew \/ ContextEnds
             \/ (\E e \in Editors : EditStores(e) \/ EditTells(e))
             \/ DeleteStores \/ DeletePasses \/ ClearChecks \/ Stop \/ UNCHANGED vars
    BY <1>1, <1>2, QuietStep, QuietKept DEF RecordInv
  <1>3. CASE \/ LoopClaims \/ WorkerClaims \/ Acquire \/ AcquireRefused \/ AcquireFails \/ Execute \/ ReadSchedule
             \/ Abort \/ Publish
    BY <1>1, <1>3, RunStepKept DEF RecordInv
  <1>4. CASE RecordStart \/ Report \/ RecordFinal
    BY <1>1, <1>4, RecordStepKept DEF RecordInv
  <1>5. CASE ReconcileWrite \/ ClearDeletes \/ Down \/ Start
    BY <1>1, <1>5, RewriteKept DEF RecordInv
  <1> QED
    BY <1>2, <1>3, <1>4, <1>5 DEF Next, LoopSteps, RunSteps

LEMMA RecordInvInit == Init => RecordInv
  <1> SUFFICES ASSUME Init PROVE RecordInv
    OBVIOUS
  <1>1. TypeOK
    BY TypeInit
  <1>2. DownInv
    BY DEF Init, DownInv
  <1>3. HistoryInv /\ VerdictInv /\ OrphanInv
    BY DEF Init, HistoryInv, VerdictInv, OrphanInv, Distinct, Idle
  <1> QED
    BY <1>1, <1>2, <1>3 DEF RecordInv

\* Records and the run's place agree in every reachable state.
THEOREM InspectionRecords == Spec => []RecordInv
  <1> QED
    BY RecordInvInit, RecordInvInductive, PTL DEF Spec

\* For every number of runs, editors, events and heartbeats kept: on one process
\* of a database that serialises its transactions, none of which has failed, a
\* heartbeat that says running is that of the run under way (scheduler.go:691).
THEOREM InspectionNoOrphans == Spec => []NoOrphans
  <1>1. RecordInv => NoOrphans
    BY DEF RecordInv, OrphanInv, NoOrphans
  <1> QED
    BY <1>1, InspectionRecords, PTL

\* A rewriting that keeps every record's run and takes back no verdict, or drops
\* records, keeps the verdicts.
LEMMA VerdictStep ==
  ASSUME Distinct(history),
         \A j \in DOMAIN history' : \E i \in DOMAIN history :
            /\ history'[j].run = history[i].run
            /\ history[i].status \in Verdicts => history'[j].status = history[i].status
  PROVE  \A i \in DOMAIN history :
            history[i].status \in Verdicts => StatusOf(history', history[i].run) \subseteq {history[i].status}
  BY DEF StatusOf, Distinct

\* For all values of the constants: where transactions are serial no step changes
\* the verdict of a run whose heartbeat is kept (business/inspection.go:221-402).
THEOREM InspectionVerdictKept == Spec => VerdictKept
  <1> DEFINE Kept == Serialised => \A i \in DOMAIN history :
                history[i].status \in Verdicts =>
                   StatusOf(history', history[i].run) \subseteq {history[i].status}
  <1>1. RecordInv /\ [Next]_vars => Kept
    <2> SUFFICES ASSUME RecordInv, [Next]_vars, Serialised PROVE Kept
      OBVIOUS
    <2> USE DEF RecordInv, storeVars, memoryVars, apiVars, outside
    <2>1. Distinct(history) /\ history \in Histories
      BY DEF HistoryInv, TypeOK
    <2>2. ASSUME history' = history \/ history' = <<>> PROVE Kept
      <3>1. CASE history' = history
        BY <2>1, <3>1, VerdictStep
      <3>2. CASE history' = <<>>
        BY <2>1, <3>2, VerdictStep
      <3> QED
        BY <2>2, <3>1, <3>2
    <2>3. ASSUME NEW s \in Statuses, Recorded(s), run.id \in Runs,
                 \A i \in DOMAIN history : history[i].run = run.id => history[i].status \notin Verdicts
          PROVE  Kept
      <3>1. \A j \in DOMAIN history' :
               \/ history'[j].run = run.id /\ history'[j].status = s
               \/ \E i \in DOMAIN history : history'[j] = history[i] /\ history[i].run # run.id
        BY <2>3, RecordedFacts
      <3> QED
        BY <2>1, <2>3, <3>1 DEF StatusOf, Distinct
    <2>4. ASSUME run.phase \in {"leased", "executing", "recording"}
          PROVE  /\ run.id \in Runs /\ run.verdict \in Statuses
                 /\ \A i \in DOMAIN history : history[i].run = run.id => history[i].status \notin Verdicts
      BY <2>4 DEF HistoryInv, Verdicts, TypeOK, RunStates
    <2>5. ASSUME history' = Reconciled(history) PROVE Kept
      <3>1. /\ DOMAIN history' = DOMAIN history
            /\ \A i \in DOMAIN history :
                  /\ history'[i].run = history[i].run
                  /\ history[i].status \in Verdicts => history'[i].status = history[i].status
        BY <2>1, <2>5, ReconciledFacts DEF Interrupted, Verdicts
      <3> QED
        BY <2>1, <3>1, VerdictStep
    <2>6. CASE \/ RecordRead \/ ReconcileRead \/ Expire \/ TimeComes \/ LoopRead \/ LoopArm \/ LoopSignalled
               \/ TimerFires \/ LoopCheck \/ LoopCannotRead \/ LoopStops \/ LoopReturns \/ Renew \/ ContextEnds
               \/ (\E e \in Editors : EditStores(e) \/ EditTells(e))
               \/ DeleteStores \/ DeletePasses \/ ClearChecks \/ Stop \/ UNCHANGED vars
      BY <2>2, <2>6, QuietStep
    <2>7. CASE LoopClaims \/ WorkerClaims \/ Acquire \/ AcquireRefused \/ AcquireFails
      <3>1. CASE LoopClaims
        BY <2>2, <3>1 DEF LoopClaims
      <3>2. CASE WorkerClaims \/ Acquire \/ AcquireRefused \/ AcquireFails
        BY <2>2, <3>2 DEF WorkerClaims, Acquire, AcquireRefused, AcquireFails, Fails
      <3> QED
        BY <2>7, <3>1, <3>2
    <2>8. CASE Execute \/ ReadSchedule \/ Abort \/ Publish \/ ClearDeletes \/ Down
      BY <2>2, <2>8 DEF Execute, ReadSchedule, Abort, Publish, Released, ClearDeletes, Down, Fails
    <2>9. CASE RecordStart \/ Report \/ RecordFinal
      <3>1. run.phase \in {"leased", "executing", "recording"}
            /\ ((\E s \in {"running", run.verdict} : Recorded(s)) \/ history' = history)
        BY <2>9 DEF RecordStart, Report, RecordFinal, Fails
      <3>2. {"running", run.verdict} \subseteq Statuses
        BY <2>4, <3>1 DEF Statuses
      <3> QED
        BY <2>2, <2>3, <2>4, <3>1, <3>2
    <2>10. CASE ReconcileWrite \/ Start
      <3>1. history' = Reconciled(history) \/ history' = history
        BY <2>10 DEF ReconcileWrite, Start, ReadBy
      <3> QED
        BY <2>2, <2>5, <3>1
    <2> QED
      BY <2>6, <2>7, <2>8, <2>9, <2>10 DEF Next, LoopSteps, RunSteps
  <1>2. Spec => [][Kept]_vars
    BY <1>1, InspectionRecords, PTL DEF Spec
  <1>3. VerdictKept <=> [][Kept]_vars
    BY DEF VerdictKept, Verdicts
  <1> QED
    BY <1>2, <1>3

-----------------------------------------------------------------------------
(* The schedule *)

OnWay == \E e \in Editors : editor[e].stored

\* The phases from the reading of the version to the publication.
Ending == {"versioned", "recording", "releasing"}

\* What an edit on its way will tell is what is stored, and it is the only one,
\* unless the edit stored last has found another on its way.
EditInv == \A e \in Editors : editor[e].stored =>
    overlapped \/ (editor[e].config = config /\ \A f \in Editors : editor[f].stored => f = e)

\* A loop about to use an old configuration will be woken.
LoopInv == loop.pc \in {"arming", "claiming"} /\ loop.config # config => signal \/ OnWay

\* The run has read the schedule it is to publish after its version ...
UsableInv == ~failed /\ run.phase \in {"recording", "releasing"} => run.usable

\* ... and as long as no edit has told it otherwise it is the stored one.
SettingsInv ==
    ~failed /\ run.phase \in {"recording", "releasing"} /\ ~run.edited /\ ~OnWay => run.settings = config

\* When an edit has told it otherwise nextRunAt is that of the stored
\* configuration, or the loop will make it so.
NextInv == ~failed /\ run.phase \in Ending /\ run.edited /\ ~OnWay =>
    IF config.enabled
    THEN \/ overlapped \/ nextRun.interval = config.interval
         \/ nextRun = NotDue /\ (loop.pc = "arming" => loop.config = config)
    ELSE \/ nextRun = NotDue \/ signal \/ loop.pc \in {"off", "reading"}
         \/ loop.pc = "arming" /\ loop.config = config

ScheduleInv == TypeOK /\ DownInv /\ EditInv /\ LoopInv /\ UsableInv /\ SettingsInv /\ NextInv

\* A step that leaves the configuration, the edits and the loop alone and does not
\* end in the last phases.
LEMMA NoEnding ==
  ASSUME EditInv, LoopInv, UNCHANGED <<config, editor, overlapped, loop, signal>>, run'.phase \notin Ending
  PROVE  EditInv' /\ LoopInv' /\ UsableInv' /\ SettingsInv' /\ NextInv'
  BY DEF EditInv, LoopInv, UsableInv, SettingsInv, NextInv, OnWay, Ending

\* A step that leaves all of the schedule alone and what a run knows of it.
LEMMA NoSchedule ==
  ASSUME EditInv, LoopInv, UsableInv, SettingsInv, NextInv,
         UNCHANGED <<config, editor, overlapped, nextRun, loop, signal>>, failed => failed',
         run'.edited = run.edited, run'.usable = run.usable, run'.settings = run.settings,
         run'.phase = run.phase \/ (run.phase = "recording" /\ run'.phase = "releasing")
  PROVE  EditInv' /\ LoopInv' /\ UsableInv' /\ SettingsInv' /\ NextInv'
  BY DEF EditInv, LoopInv, UsableInv, SettingsInv, NextInv, OnWay, Ending

LEMMA ScheduleStore ==
  ASSUME ScheduleInv,
         \/ RecordRead \/ ReconcileRead \/ ReconcileWrite \/ Expire \/ Report \/ Renew \/ ContextEnds
         \/ DeleteStores \/ DeletePasses \/ ClearChecks \/ ClearDeletes \/ Stop \/ RecordFinal \/ UNCHANGED vars
  PROVE  EditInv' /\ LoopInv' /\ UsableInv' /\ SettingsInv' /\ NextInv'
  <1> USE DEF storeVars, memoryVars, apiVars, outside
  <1>1. /\ UNCHANGED <<config, editor, overlapped, nextRun, loop, signal>>
        /\ failed' = failed \/ failed' = TRUE
    <2>1. CASE RecordRead \/ ReconcileRead \/ ReconcileWrite \/ Expire
      BY <2>1 DEF RecordRead, ReconcileRead, ReconcileWrite, Expire, Event
    <2>2. CASE Report \/ RecordFinal
      BY <2>2 DEF Report, RecordFinal, Recorded, Works, Fails
    <2>3. CASE Renew \/ ContextEnds \/ Stop \/ UNCHANGED vars
      BY <2>3 DEF Renew, ContextEnds, Stop, Event, Fails, vars
    <2>4. CASE DeleteStores \/ DeletePasses \/ ClearChecks \/ ClearDeletes
      BY <2>4 DEF DeleteStores, DeletePasses, ClearChecks, ClearDeletes, Event, Fails
    <2> QED
      BY <2>1, <2>2, <2>3, <2>4
  <1>2. run \in RunStates /\ (run.phase = "idle" => run = Idle)
    BY DEF ScheduleInv, TypeOK
  <1>3. /\ run'.edited = run.edited /\ run'.usable = run.usable /\ run'.settings = run.settings
        /\ run'.phase = run.phase \/ (run.phase = "recording" /\ run'.phase = "releasing")
    <2>1. CASE Report \/ RecordFinal \/ Renew \/ ContextEnds
      <3>1. \/ run' = run \/ run' = [run EXCEPT !.reported = TRUE]
            \/ run.phase = "recording" /\ run' = [run EXCEPT !.phase = "releasing"]
            \/ \E c \in {"cancelled", "failed"} : run' = [run EXCEPT !.ctx = c]
        BY <2>1 DEF Report, RecordFinal, Renew, ContextEnds
      <3> QED
        BY <1>2, <3>1 DEF RunStates
    <2>2. CASE DeletePasses \/ Stop
      <3>1. \E c \in {"cancelled", "failed"} : run' \in {run, Stopped(run, c)}
        BY <2>2 DEF DeletePasses, Stop
      <3> QED
        BY <1>2, <3>1, StoppedType
    <2>3. CASE RecordRead \/ ReconcileRead \/ ReconcileWrite \/ Expire \/ DeleteStores \/ ClearChecks
               \/ ClearDeletes \/ UNCHANGED vars
      BY <2>3 DEF RecordRead, ReconcileRead, ReconcileWrite, Expire, DeleteStores, ClearChecks, ClearDeletes, vars
    <2> QED
      BY <2>1, <2>2, <2>3
  <1> QED
    BY <1>1, <1>3, NoSchedule DEF ScheduleInv

LEMMA ScheduleRun ==
  ASSUME ScheduleInv,
         Acquire \/ AcquireRefused \/ AcquireFails \/ RecordStart \/ WorkerClaims \/ Abort \/ Publish
  PROVE  EditInv' /\ LoopInv' /\ UsableInv' /\ SettingsInv' /\ NextInv'
  <1> USE DEF storeVars, memoryVars, apiVars, outside
  <1>1. UNCHANGED <<config, editor, overlapped, loop, signal>>
    BY DEF Acquire, AcquireRefused, AcquireFails, RecordStart, Recorded, WorkerClaims, Abort, Publish, Released, Fails
  <1>2. run \in RunStates /\ config \in Configs
    BY DEF ScheduleInv, TypeOK
  <1>3. run'.phase \notin Ending
    <2>1. CASE WorkerClaims
      <3>1. Unused # {} /\ run' = NewRun(config, TRUE)
        BY <2>1 DEF WorkerClaims
      <3> QED
        BY <1>2, <3>1, NewRunType DEF Ending
    <2>2. CASE Acquire \/ RecordStart
      BY <1>2, <2>2 DEF Acquire, RecordStart, RunStates, Ending
    <2>3. CASE AcquireRefused \/ AcquireFails \/ Abort \/ Publish
      BY <2>3 DEF AcquireRefused, AcquireFails, Abort, Publish, Ending, Idle
    <2> QED
      BY <2>1, <2>2, <2>3
  <1> QED
    BY <1>1, <1>3, NoEnding DEF ScheduleInv

\* The version and the schedule are read.
LEMMA ScheduleEnd ==
  ASSUME ScheduleInv, Execute \/ ReadSchedule
  PROVE  EditInv' /\ LoopInv' /\ UsableInv' /\ SettingsInv' /\ NextInv'
  <1> USE DEF storeVars, memoryVars, apiVars, outside
  <1>1. run \in RunStates
    BY DEF ScheduleInv, TypeOK
  <1>2. UNCHANGED <<config, editor, overlapped, nextRun, loop, signal>>
    BY DEF Execute, ReadSchedule, Fails
  <1>3. EditInv' /\ LoopInv'
    BY <1>2 DEF ScheduleInv, EditInv, LoopInv, OnWay
  <1>4. CASE Execute
    <2>1. run'.phase = "versioned" /\ ~run'.edited
      BY <1>1, <1>4 DEF Execute, RunStates
    <2> QED
      BY <1>3, <2>1 DEF UsableInv, SettingsInv, NextInv
  <1>5. CASE ReadSchedule
    <2>1. /\ run.phase = "versioned" /\ run'.edited = run.edited /\ run'.phase = "recording"
          /\ failed' \/ (run'.settings = config /\ run'.usable /\ failed' = failed)
      BY <1>1, <1>5 DEF ReadSchedule, Fails, RunStates
    <2>2. UsableInv' /\ SettingsInv'
      BY <1>2, <2>1 DEF UsableInv, SettingsInv
    <2>3. NextInv'
      BY <1>2, <2>1 DEF ScheduleInv, NextInv, OnWay, Ending
    <2> QED
      BY <1>3, <2>2, <2>3
  <1> QED
    BY <1>4, <1>5

LEMMA ScheduleEdit ==
  ASSUME ScheduleInv, NEW e \in Editors, EditStores(e) \/ EditTells(e)
  PROVE  EditInv' /\ LoopInv' /\ UsableInv' /\ SettingsInv' /\ NextInv'
  <1> USE DEF storeVars, memoryVars, apiVars, outside
  <1>1. /\ editor \in [Editors -> [stored : BOOLEAN, config : Configs \union {Unread}]]
        /\ editor[e].stored => editor[e].config \in Configs
        /\ run \in RunStates /\ (run.phase = "idle" => run = Idle)
    BY DEF ScheduleInv, TypeOK
  <1>2. CASE EditStores(e)
    <2>1. /\ editor'[e].stored /\ editor'[e].config = config' /\ OnWay'
          /\ \A f \in Editors : f # e => editor'[f] = editor[f]
      BY <1>1, <1>2 DEF EditStores, OnWay
    <2>2. overlapped' <=> OnWay
      BY <1>2 DEF EditStores, OnWay
    <2>3. EditInv'
      BY <2>1, <2>2 DEF EditInv, OnWay
    <2>4. UNCHANGED <<run, failed>>
      BY <1>2 DEF EditStores, Event
    <2> QED
      BY <2>1, <2>3, <2>4 DEF ScheduleInv, LoopInv, UsableInv, SettingsInv, NextInv
  <1>3. CASE EditTells(e)
    <2>1. /\ UNCHANGED <<config, overlapped, loop, failed>> /\ signal' /\ editor[e].stored
          /\ nextRun' = ScheduledAfter(editor[e].config) /\ run' = Told(editor[e].config)
          /\ \A f \in Editors : editor'[f].stored => f # e /\ editor'[f] = editor[f]
      BY <1>1, <1>3 DEF EditTells, NoEdit
    <2>2. (run = Idle /\ run' = Idle) \/ (run # Idle /\ run'.edited /\ run'.phase = run.phase /\ run'.usable = run.usable)
      BY <1>1, <2>1, ToldType
    <2>3. EditInv' /\ LoopInv'
      BY <2>1 DEF ScheduleInv, EditInv, LoopInv
    <2>4. CASE run = Idle /\ run' = Idle
      BY <2>3, <2>4 DEF UsableInv, SettingsInv, NextInv, Idle, Ending
    <2>5. CASE run # Idle /\ run'.edited /\ run'.phase = run.phase /\ run'.usable = run.usable
      <3>1. UsableInv' /\ SettingsInv'
        BY <2>1, <2>5 DEF ScheduleInv, UsableInv, SettingsInv
      <3>2. overlapped \/ editor[e].config = config
        BY <2>1 DEF ScheduleInv, EditInv
      <3>3. config.enabled => overlapped' \/ nextRun'.interval = config'.interval
        BY <1>1, <2>1, <3>2, ScheduledType
      <3>4. NextInv'
        BY <2>1, <3>3 DEF NextInv
      <3> QED
        BY <2>3, <3>1, <3>4
    <2> QED
      BY <2>2, <2>4, <2>5
  <1> QED
    BY <1>2, <1>3

\* The loop's steps and the clock.
LEMMA ScheduleLoop ==
  ASSUME ScheduleInv,
         \/ LoopRead \/ LoopArm \/ LoopSignalled \/ TimerFires \/ LoopCheck \/ LoopCannotRead \/ LoopStops
         \/ LoopReturns \/ LoopClaims \/ TimeComes
  PROVE  EditInv' /\ LoopInv' /\ UsableInv' /\ SettingsInv' /\ NextInv'
  <1> USE DEF storeVars, memoryVars, apiVars, outside
  <1>1. UNCHANGED <<config, editor, overlapped>> /\ (failed' = failed \/ failed' = TRUE)
    <2>1. CASE LoopClaims
      BY <2>1 DEF LoopClaims
    <2>2. CASE \/ LoopRead \/ LoopArm \/ LoopSignalled \/ TimerFires \/ LoopCheck \/ LoopCannotRead \/ LoopStops
               \/ LoopReturns \/ TimeComes
      BY <2>2 DEF LoopRead, LoopArm, LoopSignalled, TimerFires, LoopCheck, LoopCannotRead, LoopStops, LoopReturns,
                  TimeComes, Fails
    <2> QED
      BY <2>1, <2>2
  <1>2. EditInv' /\ (OnWay' <=> OnWay)
    BY <1>1 DEF ScheduleInv, EditInv, OnWay
  <1>3. config \in Configs /\ nextRun \in [interval : Intervals, due : BOOLEAN] \union {NotDue}
        /\ (loop.pc \in {"arming", "claiming"} => loop.config \in Configs)
    BY DEF ScheduleInv, TypeOK
  <1>4. CASE LoopCannotRead
    <2>1. failed' /\ loop'.pc = "reading"
      BY <1>4 DEF LoopCannotRead, Fails, GoTo
    <2> QED
      BY <1>2, <2>1 DEF LoopInv, UsableInv, SettingsInv, NextInv
  <1>5. CASE LoopClaims
    <2>1. UNCHANGED <<signal, failed>>
      BY <1>5 DEF LoopClaims
    <2>2. CASE Refused(loop.config, FALSE)
      <3>1. loop'.pc = "reading" /\ run' = run /\ nextRun' \in {nextRun, NotDue}
        BY <1>5, <2>2 DEF LoopClaims, GoTo
      <3>2. LoopInv' /\ UsableInv' /\ SettingsInv'
        BY <1>1, <1>2, <2>1, <3>1 DEF ScheduleInv, LoopInv, UsableInv, SettingsInv
      <3>3. NextInv'
        BY <1>1, <1>2, <2>1, <3>1 DEF ScheduleInv, NextInv
      <3> QED
        BY <1>2, <3>2, <3>3
    <2>3. CASE ~Refused(loop.config, FALSE)
      <3>1. loop.config \in Configs /\ Unused # {} /\ run' = NewRun(loop.config, FALSE) /\ loop'.pc = "running"
        BY <1>3, <1>5, <2>3 DEF LoopClaims, GoTo
      <3>2. run'.phase = "claimed"
        BY <3>1, NewRunType
      <3> QED
        BY <1>2, <3>1, <3>2 DEF LoopInv, UsableInv, SettingsInv, NextInv, Ending
    <2> QED
      BY <2>2, <2>3
  <1>6. CASE LoopRead \/ LoopArm \/ LoopSignalled \/ TimerFires \/ LoopCheck \/ LoopStops \/ LoopReturns \/ TimeComes
    <2>1. UNCHANGED <<run, failed>>
      BY <1>6 DEF LoopRead, LoopArm, LoopSignalled, TimerFires, LoopCheck, LoopStops, LoopReturns, TimeComes
    <2>2. UsableInv' /\ SettingsInv'
      BY <1>1, <1>2, <2>1 DEF ScheduleInv, UsableInv, SettingsInv
    <2> SUFFICES LoopInv' /\ NextInv'
      BY <1>2, <2>2
    <2> USE <1>1, <1>2, <2>1 DEF ScheduleInv, LoopInv, NextInv
    <2>3. CASE LoopRead
      BY <2>3 DEF LoopRead
    <2>4. CASE LoopArm
      <3>1. UNCHANGED signal /\ loop.pc = "arming" /\ loop'.pc \in {"checking", "timer", "asleep"}
        BY <2>4 DEF LoopArm, GoTo
      <3>2. LoopInv'
        BY <3>1
      <3>3. IF loop.config.enabled
            THEN nextRun' = IF nextRun = NotDue THEN ScheduledAfter(loop.config) ELSE nextRun
            ELSE nextRun' = NotDue
        BY <2>4 DEF LoopArm
      <3>4. ASSUME config.enabled,
                   \/ overlapped \/ nextRun.interval = config.interval
                   \/ nextRun = NotDue /\ loop.config = config
            PROVE  overlapped \/ nextRun'.interval = config.interval \/ nextRun' = NotDue
        <4>1. CASE nextRun.interval = config.interval
          <5>1. nextRun # NotDue
            BY <1>3, <4>1, InspectionAssumption DEF NotDue, Configs
          <5> QED
            BY <3>3, <4>1, <5>1
        <4>2. CASE nextRun = NotDue /\ loop.config = config
          BY <1>3, <3>3, <3>4, <4>2, ScheduledType
        <4> QED
          BY <3>4, <4>1, <4>2
      <3>5. NextInv'
        <4>1. CASE config.enabled
          BY <3>1, <3>4, <4>1
        <4>2. CASE ~config.enabled
          BY <3>1, <3>3, <4>2
        <4> QED
          BY <4>1, <4>2
      <3> QED
        BY <3>2, <3>5
    <2>5. CASE LoopSignalled
      BY <2>5 DEF LoopSignalled, GoTo
    <2>6. CASE TimerFires
      BY <2>6 DEF TimerFires, GoTo
    <2>7. CASE LoopCheck
      BY <2>7 DEF LoopCheck
    <2>8. CASE LoopStops \/ LoopReturns
      BY <2>8 DEF LoopStops, LoopReturns, GoTo
    <2>9. CASE TimeComes
      <3>1. UNCHANGED <<loop, signal>> /\ loop.pc = "timer" /\ nextRun # NotDue /\ nextRun'.interval = nextRun.interval
        BY <1>3, <2>9 DEF TimeComes
      <3> QED
        BY <3>1
    <2> QED
      BY <1>6, <2>3, <2>4, <2>5, <2>6, <2>7, <2>8, <2>9
  <1> QED
    BY <1>4, <1>5, <1>6

LEMMA ScheduleProcess ==
  ASSUME ScheduleInv, Down \/ Start
  PROVE  EditInv' /\ LoopInv' /\ UsableInv' /\ SettingsInv' /\ NextInv'
  <1> USE DEF storeVars, memoryVars, apiVars, outside
  <1>1. run'.phase = "idle" /\ \A e \in Editors : ~editor'[e].stored
    BY DEF ScheduleInv, DownInv, Down, Start, NoEdit, Idle
  <1>2. loop'.pc \in {"off", "reading"}
    BY DEF Down, Start, LoopOff, GoTo
  <1> QED
    BY <1>1, <1>2 DEF EditInv, LoopInv, UsableInv, SettingsInv, NextInv, OnWay, Ending

LEMMA ScheduleInvInductive == ScheduleInv /\ [Next]_vars => ScheduleInv'
  <1> SUFFICES ASSUME ScheduleInv, [Next]_vars PROVE ScheduleInv'
    OBVIOUS
  <1>1. TypeOK' /\ DownInv'
    BY TypeNext, DownKept DEF ScheduleInv
  <1>2. EditInv' /\ LoopInv' /\ UsableInv' /\ SettingsInv' /\ NextInv'
    BY ScheduleStore, ScheduleRun, ScheduleEnd, ScheduleEdit, ScheduleLoop, ScheduleProcess
       DEF Next, LoopSteps, RunSteps
  <1> QED
    BY <1>1, <1>2 DEF ScheduleInv

LEMMA ScheduleInvInit == Init => ScheduleInv
  <1> SUFFICES ASSUME Init PROVE ScheduleInv
    OBVIOUS
  <1>1. TypeOK /\ DownInv
    BY RecordInvInit DEF RecordInv
  <1>2. EditInv /\ LoopInv /\ UsableInv /\ SettingsInv /\ NextInv
    BY DEF Init, EditInv, LoopInv, UsableInv, SettingsInv, NextInv, NoEdit, LoopOff, Idle, OnWay, Ending
  <1> QED
    BY <1>1, <1>2 DEF ScheduleInv

\* So do the schedule, the edits, the loop and what a run knows of them.
THEOREM InspectionSchedules == Spec => []ScheduleInv
  <1> QED
    BY ScheduleInvInit, ScheduleInvInductive, PTL DEF Spec

\* For all values of the constants, with any number of editors: what the end of a
\* run leaves due, when it has left anything due and no edit is on its way, is due
\* by the stored configuration (scheduler.go:687-708), unless the last edits have
\* overlapped: then inspections are enabled at least.
THEOREM InspectionScheduleFresh == Spec => ScheduleFresh
  <1> DEFINE Fresh ==
        /\ Publish /\ ~failed /\ ~signal /\ loop.pc \in {"asleep", "timer", "running"}
        /\ \A e \in Editors : ~editor[e].stored
        /\ nextRun' # NotDue
        => config.enabled /\ (overlapped \/ nextRun'.interval = config.interval)
  <1>1. ScheduleInv /\ [Next]_vars => Fresh
    <2> SUFFICES ASSUME ScheduleInv, Publish, ~failed, ~signal, loop.pc \in {"asleep", "timer", "running"},
                        \A e \in Editors : ~editor[e].stored, nextRun' # NotDue
                 PROVE  config.enabled /\ (overlapped \/ nextRun'.interval = config.interval)
      OBVIOUS
    <2>1. ~OnWay /\ run.phase = "releasing" /\ run.usable
      BY DEF OnWay, Publish, ScheduleInv, UsableInv
    <2>2. CASE ~run.edited
      <3>1. nextRun' = ScheduledAfter(config) /\ config \in Configs
        BY <2>1, <2>2 DEF Publish, Publishes, ScheduleInv, SettingsInv, TypeOK
      <3> QED
        BY <3>1, ScheduledType
    <2>3. CASE run.edited
      <3>1. nextRun' = nextRun
        BY <2>3 DEF Publish, Publishes
      <3> QED
        BY <2>1, <2>3, <3>1 DEF ScheduleInv, NextInv, Ending
    <2> QED
      BY <2>2, <2>3
  <1>2. Spec => [][Fresh]_vars
    BY <1>1, InspectionSchedules, PTL DEF Spec
  <1> QED
    BY <1>2 DEF ScheduleFresh
=============================================================================

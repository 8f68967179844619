----------------------------- MODULE TradingProofs -----------------------------
(***************************************************************************)
(* Proofs about MCTrading: what an algorithmic order fills, and what a     *)
(* stop-out closes, for every set of positions, orders and quotes.         *)
(*                                                                         *)
(* An algorithm fills no more than its total because what is filled, what  *)
(* is in a child order and what a queue still owes add up to no more (the  *)
(* invariant AlgoInv).  A stop-out is minimal because a check that nobody  *)
(* crossed still works with the account as it is: its figures are sums     *)
(* over the positions that are open, but for the ones opened since, which  *)
(* it has not looked at (the invariant WatchInv).                          *)
(***************************************************************************)
EXTENDS MCTrading, SequenceTheorems, FiniteSums, TLAPS

---------------------------------------------------------------------------
(* Sums of the figures of some positions.                                  *)

LEMMA TotalsAre ==
    ASSUME NEW U, IsFiniteSet(U), NEW f, \A x \in U : f[x] \in Int
    PROVE  \E e, g : /\ e \in [U -> Int] /\ (\A x \in U : e[x] = f[x]) /\ Sums(g, e, U)
                     /\ \A T \in SUBSET U : Total(f, T) = g[T]
<1>1. PICK e : e = [x \in U |-> f[x]]
  OBVIOUS
<1>2. e \in [U -> Int] /\ \A x \in U : e[x] = f[x]
  BY <1>1
<1>3. PICK g : Sums(g, e, U)
  BY <1>2, SumsExist
<1>4. ASSUME NEW T \in SUBSET U PROVE Total(f, T) = g[T]
  <2> DEFINE Rec(r) == r = [s \in SUBSET T |-> IF s = {} THEN 0
                             ELSE f[CHOOSE x \in s : TRUE] + r[s \ {CHOOSE x \in s : TRUE}]]
             sums == CHOOSE r : Rec(r)
  <2>1. Total(f, T) = sums[T]
    BY DEF Total, FoldFunctionOnSet, MapThenFoldSet
  <2>2. ASSUME NEW r PROVE Rec(r) <=> Folded(r, e, T)
    <3>1. \A s \in SUBSET T : s # {} => e[Taken(s)] = f[CHOOSE x \in s : TRUE]
      BY <1>2 DEF Taken
    <3> QED
      BY <3>1 DEF Folded, Taken
  <2>3. \E r : Rec(r)
    <3>1. \E r : Folded(r, e, T)
      BY <1>2, <1>3, FoldExists
    <3> HIDE DEF Rec
    <3> QED
      BY <2>2, <3>1
  <2>4. Folded(sums, e, T)
    <3>1. Rec(sums)
      <4> HIDE DEF Rec
      <4> QED
        BY <2>3
    <3> HIDE DEF sums, Rec
    <3> QED
      BY <2>2, <3>1
  <2>5. sums[T] = g[T]
    <3> HIDE DEF sums, Rec
    <3> QED
      BY <1>2, <1>3, <2>4, FoldIsSum
  <2> QED
    BY <2>1, <2>5
<1> QED
  BY <1>2, <1>3, <1>4

LEMMA TotalIsInt ==
    ASSUME NEW U, IsFiniteSet(U), NEW f, \A x \in U : f[x] \in Int
    PROVE  Total(f, U) \in Int
<1>1. PICK e, g : Sums(g, e, U) /\ \A T \in SUBSET U : Total(f, T) = g[T]
  BY TotalsAre
<1> QED
  BY <1>1 DEF Sums

LEMMA TotalOfNone == \A f : Total(f, {}) = 0
<1> SUFFICES ASSUME NEW f PROVE Total(f, {}) = 0
  OBVIOUS
<1>1. PICK U : IsFiniteSet(U) /\ \A x \in U : f[x] \in Int
  BY FS_EmptySet
<1>2. PICK e, g : Sums(g, e, U) /\ \A T \in SUBSET U : Total(f, T) = g[T]
  BY <1>1, TotalsAre
<1>3. g[{}] = 0
  BY <1>2 DEF Sums
<1> QED
  BY <1>1, <1>2, <1>3

\* One more.
LEMMA TotalOfMore ==
    ASSUME NEW U, IsFiniteSet(U), NEW f, \A x \in U : f[x] \in Int,
           NEW x \in U, NEW V, V = U \ {x}
    PROVE  /\ Total(f, U) \in Int /\ Total(f, V) \in Int /\ f[x] \in Int
           /\ Total(f, U) = Total(f, V) + f[x]
<1>1. PICK e, g : /\ e \in [U -> Int] /\ (\A y \in U : e[y] = f[y]) /\ Sums(g, e, U)
                  /\ \A T \in SUBSET U : Total(f, T) = g[T]
  BY TotalsAre
<1>2. V \in SUBSET U /\ U \in SUBSET U /\ x \notin V /\ U = V \cup {x}
  OBVIOUS
<1>3. g[U] = g[V] + e[x]
  BY <1>1, <1>2, SumOfOneMore
<1>4. g[U] \in Int /\ g[V] \in Int
  BY <1>1, <1>2 DEF Sums
<1> QED
  BY <1>1, <1>2, <1>3, <1>4

\* The same figures add up to the same, and more of them that are not negative to more.
LEMMA TotalsAgree ==
    ASSUME NEW U, IsFiniteSet(U), NEW f, NEW h, \A x \in U : f[x] \in Int /\ h[x] = f[x]
    PROVE  Total(h, U) = Total(f, U)
<1>1. PICK e, g : /\ e \in [U -> Int] /\ (\A y \in U : e[y] = f[y]) /\ Sums(g, e, U)
                  /\ \A T \in SUBSET U : Total(f, T) = g[T]
  BY TotalsAre
<1>2. \A x \in U : h[x] \in Int
  OBVIOUS
<1>3. PICK d, k : /\ d \in [U -> Int] /\ (\A y \in U : d[y] = h[y]) /\ Sums(k, d, U)
                  /\ \A T \in SUBSET U : Total(h, T) = k[T]
  BY <1>2, TotalsAre
<1>4. U \in SUBSET U /\ \A x \in U : e[x] = d[x]
  BY <1>1, <1>3
<1>5. g[U] = k[U]
  BY <1>1, <1>3, <1>4, SumsAgree
<1> QED
  BY <1>1, <1>3, <1>4, <1>5

LEMMA TotalGrows ==
    ASSUME NEW U, IsFiniteSet(U), NEW f, NEW V, V \subseteq U,
           \A x \in U : f[x] \in Int, \A x \in U \ V : f[x] >= 0
    PROVE  Total(f, V) \in Int /\ Total(f, U) \in Int /\ Total(f, V) <= Total(f, U)
<1>1. PICK e, g : /\ e \in [U -> Int] /\ (\A y \in U : e[y] = f[y]) /\ Sums(g, e, U)
                  /\ \A T \in SUBSET U : Total(f, T) = g[T]
  BY TotalsAre
<1>2. U \in SUBSET U /\ V \in SUBSET U /\ \A x \in U \ V : e[x] >= 0
  BY <1>1
<1>3. g[V] \in Int /\ g[U] \in Int /\ g[V] <= g[U]
  BY <1>1, <1>2, SumsGrow
<1> QED
  BY <1>1, <1>2, <1>3

\* Figures that are nothing add nothing.
LEMMA TotalOfNothing ==
    ASSUME NEW U, IsFiniteSet(U), NEW f, NEW V, V \subseteq U,
           \A x \in U : f[x] \in Int, \A x \in U \ V : f[x] = 0
    PROVE  Total(f, U) = Total(f, V)
<1>1. PICK e, g : /\ e \in [U -> Int] /\ (\A y \in U : e[y] = f[y]) /\ Sums(g, e, U)
                  /\ \A T \in SUBSET U : Total(f, T) = g[T]
  BY TotalsAre
<1>2. PICK W : W = U \ V
  OBVIOUS
<1>3. W \in SUBSET U /\ V \in SUBSET U /\ U \in SUBSET U /\ V \cap W = {} /\ U = V \cup W
  BY <1>2
<1>4. g[U] = g[V] + g[W] /\ g[V] \in Int /\ g[W] \in Int
  <2>1. g[U] = g[V] + g[W]
    BY <1>1, <1>3, SumOfTwo
  <2> QED
    BY <1>1, <1>3, <2>1 DEF Sums
<1>5. g[W] = 0
  <2>1. PICK z : z = [s \in SUBSET W |-> 0]
    OBVIOUS
  <2>2. Folded(z, e, W)
    <3>1. ASSUME NEW s \in SUBSET W, s # {} PROVE e[Taken(s)] = 0 /\ z[s \ {Taken(s)}] = 0
      <4>1. Taken(s) \in s
        BY <3>1 DEF Taken
      <4> QED
        BY <1>1, <1>2, <2>1, <4>1
    <3>2. ASSUME NEW s \in SUBSET W
          PROVE  0 = IF s = {} THEN 0 ELSE e[Taken(s)] + z[s \ {Taken(s)}]
      <4>1. CASE s = {}
        BY <4>1
      <4>2. CASE s # {}
        <5>1. e[Taken(s)] = 0 /\ z[s \ {Taken(s)}] = 0
          BY <3>1, <4>2
        <5>2. e[Taken(s)] + z[s \ {Taken(s)}] = 0
          BY <5>1
        <5> QED
          BY <4>2, <5>2
      <4> QED
        BY <4>1, <4>2
    <3> QED
      BY <2>1, <3>2 DEF Folded
  <2>3. z[W] = g[W]
    BY <1>1, <1>3, <2>2, FoldIsSum
  <2> QED
    BY <2>1, <2>3
<1>6. g[U] = g[V]
  BY <1>4, <1>5
<1> QED
  BY <1>1, <1>3, <1>6

LEMMA MinOfTwo ==
    ASSUME NEW a \in Int, NEW b \in Int
    PROVE  /\ Min({a, b}) = (IF a <= b THEN a ELSE b)
           /\ Max({a, b}) = (IF a >= b THEN a ELSE b)
<1>1. \E x \in {a, b} : \A y \in {a, b} : x <= y
  OBVIOUS
<1>2. \E x \in {a, b} : \A y \in {a, b} : x >= y
  OBVIOUS
<1>3. PICK m : m = Min({a, b}) /\ m \in {a, b} /\ \A y \in {a, b} : m <= y
  BY <1>1 DEF Min
<1>4. PICK n : n = Max({a, b}) /\ n \in {a, b} /\ \A y \in {a, b} : n >= y
  BY <1>2 DEF Max
<1> QED
  BY <1>3, <1>4
---------------------------------------------------------------------------
(* The slices of an algorithmic order.                                     *)

\* The quantity of the children in a queue.
Waiting(q) == FoldSeq(+, 0, q)

LEMMA WaitingIs == \A q : Waiting(q) = Total(q, DOMAIN q)
  BY DEF Waiting, FoldSeq, FoldFunction, FoldFunctionOnSet, MapThenFoldSet, Total

LEMMA WaitingTyped ==
    ASSUME NEW q \in Seq(Nat)
    PROVE  IsFiniteSet(DOMAIN q) /\ (\A i \in DOMAIN q : q[i] \in Int) /\ Waiting(q) \in Int
<1>1. DOMAIN q = 1 .. Len(q) /\ Len(q) \in Nat
  OBVIOUS
<1>2. IsFiniteSet(1 .. Len(q))
  BY <1>1, FS_Interval
<1>3. \A i \in DOMAIN q : q[i] \in Int
  OBVIOUS
<1>4. Total(q, DOMAIN q) \in Int
  BY <1>1, <1>2, <1>3, TotalIsInt
<1> QED
  BY <1>1, <1>2, <1>3, <1>4, WaitingIs

LEMMA WaitingAppend ==
    ASSUME NEW q \in Seq(Nat), NEW x \in Nat
    PROVE  Append(q, x) \in Seq(Nat) /\ Waiting(Append(q, x)) = Waiting(q) + x
<1>0. PICK r, n : r = Append(q, x) /\ n = Len(q) /\ r \in Seq(Nat) /\ n \in Nat
  <2>1. Append(q, x) \in Seq(Nat) /\ Len(q) \in Nat
    OBVIOUS
  <2> QED
    BY <2>1
<1>a. Len(r) = n + 1 /\ r[n + 1] = x /\ DOMAIN q = 1 .. n /\ DOMAIN r = 1 .. n + 1
      /\ \A i \in 1 .. n : r[i] = q[i]
  BY <1>0
<1>1. PICK D, E :
           /\ r \in Seq(Nat) /\ n \in Nat /\ r = Append(q, x) /\ n = Len(q) /\ D = DOMAIN q /\ E = DOMAIN r
           /\ D = 1 .. n /\ E = 1 .. n + 1 /\ r[n + 1] = x /\ (\A i \in D : r[i] = q[i])
  BY <1>0, <1>a
<1>2. IsFiniteSet(D) /\ IsFiniteSet(E) /\ (\A i \in D : q[i] \in Int) /\ (\A i \in E : r[i] \in Int)
      /\ Waiting(q) \in Int /\ Waiting(r) \in Int
  BY <1>1, WaitingTyped
<1>3. n + 1 \in E /\ D = E \ {n + 1}
  BY <1>1
<1>4. Total(r, E) = Total(r, D) + r[n + 1]
  BY <1>2, <1>3, TotalOfMore
<1>5. Total(r, D) = Total(q, D)
  BY <1>1, <1>2, TotalsAgree
<1> QED
  BY <1>1, <1>4, <1>5, WaitingIs

LEMMA WaitingTail ==
    ASSUME NEW q \in Seq(Nat), q # << >>
    PROVE  /\ Tail(q) \in Seq(Nat) /\ Head(q) \in Nat
           /\ Waiting(Tail(q)) = Waiting(q) - Head(q)
<1>0. PICK r \in Seq(Nat), n \in Nat, x \in Nat :
           r = Tail(q) /\ x = Head(q) /\ x = q[1] /\ Len(q) = n + 1
  <2>1. Len(q) \in Nat /\ Len(q) > 0 /\ Tail(q) \in Seq(Nat) /\ Head(q) = q[1] /\ q[1] \in Nat
    OBVIOUS
  <2>2. Len(q) - 1 \in Nat /\ Len(q) = (Len(q) - 1) + 1
    BY <2>1
  <2> QED
    BY <2>1, <2>2
<1>1. /\ Len(r) = n /\ DOMAIN q = 1 .. n + 1 /\ DOMAIN r = 1 .. n
      /\ (\A i \in 1 .. n : r[i] = q[i + 1])
      /\ r = Tail(q) /\ x = Head(q) /\ x = q[1] /\ Len(q) = n + 1
  BY <1>0
<1>2. ASSUME NEW m \in 0 .. n
      PROVE  /\ IsFiniteSet(1 .. m) /\ IsFiniteSet(1 .. m + 1)
             /\ Total(r, 1 .. m) \in Int /\ Total(q, 1 .. m + 1) \in Int
  <2>1. IsFiniteSet(1 .. m) /\ IsFiniteSet(1 .. m + 1)
    BY FS_Interval
  <2>2. (\A i \in 1 .. m : r[i] \in Int) /\ (\A i \in 1 .. m + 1 : q[i] \in Int)
    BY <1>1
  <2> QED
    BY <2>1, <2>2, TotalIsInt
<1> DEFINE B == {m \in 0 .. n : Total(q, 1 .. m + 1) # Total(r, 1 .. m) + x}
<1>3. B = {}
  <2>1. SUFFICES ASSUME B # {} PROVE FALSE
    OBVIOUS
  <2>2. PICK m \in B : \A y \in B : m <= y
    <3>1. B \subseteq Nat
      OBVIOUS
    <3> HIDE DEF B
    <3> QED
      BY <2>1, <3>1, LeastMember
  <2>3. CASE m = 0
    <3>1. PICK D, E : D = {1} /\ E = {} /\ E = D \ {1} /\ 1 \in D
      OBVIOUS
    <3>2. IsFiniteSet(D) /\ \A i \in D : q[i] \in Int
      <4>1. IsFiniteSet(D)
        BY <3>1, FS_Singleton
      <4>2. 1 \in DOMAIN q
        BY <1>1
      <4> QED
        BY <3>1, <4>1, <4>2
    <3>3. Total(q, D) = Total(q, E) + q[1]
      BY <3>1, <3>2, TotalOfMore
    <3>4. Total(q, E) = 0 /\ Total(r, {}) = 0
      BY <3>1, TotalOfNone
    <3>5. 1 .. m = {} /\ 1 .. m + 1 = D
      BY <2>3, <3>1
    <3>6. Total(q, D) = Total(r, {}) + x
      BY <1>1, <3>3, <3>4
    <3> QED
      BY <2>2, <3>5, <3>6
  <2>4. CASE m # 0
    <3>1. PICK k \in 0 .. n : m = k + 1 /\ k \notin B
      <4>1. m - 1 \in 0 .. n /\ m - 1 \notin B
        BY <2>2, <2>4
      <4> QED
        BY <4>1
    <3>2. Total(q, 1 .. k + 1) = Total(r, 1 .. k) + x
      BY <3>1
    <3>3. PICK D, E, F, G : D = 1 .. m /\ E = 1 .. k /\ F = 1 .. m + 1 /\ G = 1 .. k + 1
      OBVIOUS
    <3>4. IsFiniteSet(D) /\ IsFiniteSet(F)
      BY <1>2, <2>2, <3>3
    <3>5. Total(r, D) = Total(r, E) + r[m]
      <4>1. E = D \ {m} /\ m \in D
        BY <2>2, <3>1, <3>3
      <4>2. \A i \in D : r[i] \in Int
        BY <1>1, <2>2, <3>3
      <4> QED
        BY <3>4, <4>1, <4>2, TotalOfMore
    <3>8. Total(q, F) = Total(q, G) + q[m + 1]
      <4>1. G = F \ {m + 1} /\ m + 1 \in F /\ \A i \in F : q[i] \in Int
        BY <1>1, <2>2, <3>1, <3>3
      <4> QED
        BY <3>4, <4>1, TotalOfMore
    <3>9. r[m] = q[m + 1] /\ r[m] \in Nat
      BY <1>1, <2>2, <2>4
    <3>10. Total(r, E) \in Int
      BY <1>2, <3>1, <3>3
    <3>11. Total(q, F) = Total(r, D) + x
      <4>1. Total(q, G) = Total(r, E) + x
        BY <3>2, <3>3
      <4>2. PICK a \in Int, b \in Nat : a = Total(r, E) /\ b = r[m]
        BY <3>9, <3>10
      <4>3. Total(q, F) = (a + x) + b /\ Total(r, D) = a + b
        BY <3>5, <3>8, <3>9, <4>1, <4>2
      <4> QED
        BY <4>2, <4>3
    <3> QED
      BY <2>2, <3>3, <3>11
  <2> QED
    BY <2>3, <2>4
<1>4. Total(q, 1 .. n + 1) = Total(r, 1 .. n) + x
  BY <1>3
<1>5. Waiting(q) = Waiting(r) + x /\ Waiting(r) \in Int
  BY <1>1, <1>4, WaitingIs, WaitingTyped
<1> QED
  BY <1>1, <1>5

LEMMA NothingWaits == Waiting(<< >>) = 0
<1>1. DOMAIN << >> = {}
  OBVIOUS
<1> QED
  BY <1>1, WaitingIs, TotalOfNone

AlgoTypeOK ==
    /\ algo \in Algorithms /\ fired \in 0 .. Len(algo.slices)
    /\ active \in BOOLEAN /\ cancelRequested \in BOOLEAN /\ sending \in BOOLEAN
    /\ child \in Nat /\ filledQuantity \in Nat /\ position \in Nat /\ timedOut \in Nat
    /\ queued \in Seq(Nat)

\* While the service works on the order, what was filled late is what timed out; a
\* crash puts the child that was under way into the queue and ends the sending.
Accounted ==
    \/ /\ filledQuantity + child <= algo.total
       /\ position - filledQuantity + Waiting(queued) <= timedOut
    \/ /\ ~sending /\ child = 0 /\ ~active
       /\ position + Waiting(queued) <= algo.total + timedOut

AlgoInv == AlgoTypeOK /\ Accounted /\ (~sending => child = 0)

LEMMA QuantityTyped ==
    ASSUME AlgoTypeOK
    PROVE  /\ algo.total \in Nat /\ algo.slices \in Seq(Nat) /\ algo.slices # << >>
           /\ Waiting(queued) \in Int
  BY AlgoAssumption, WaitingTyped DEF AlgoTypeOK

\* What is sent next was not filled yet.
LEMMA NextQtyIs ==
    ASSUME AlgoTypeOK, ~Exhausted
    PROVE  /\ NextQty \in Nat /\ NextQty <= Max({0, algo.total - filledQuantity})
           /\ algo.type # "ICEBERG" => fired + 1 \in 0 .. Len(algo.slices)
<1>1. PICK left \in Nat : left = remainingQty /\ left = Max({0, algo.total - filledQuantity})
  <2>1. PICK x \in Int : x = algo.total - filledQuantity
    BY QuantityTyped DEF AlgoTypeOK
  <2>2. Max({0, x}) = IF 0 >= x THEN 0 ELSE x
    BY MinOfTwo
  <2>3. Max({0, x}) \in Nat
    BY <2>2
  <2>4. remainingQty = Max({0, x}) /\ Max({0, x}) = Max({0, algo.total - filledQuantity})
    BY <2>1 DEF remainingQty
  <2> QED
    BY <2>3, <2>4
<1>2. PICK s : s = algo.slices /\ s \in Seq(Nat) /\ s # << >>
  BY QuantityTyped
<1>3. Head(s) \in Nat /\ Len(s) \in Nat
  BY <1>2
<1>4. CASE algo.type = "ICEBERG"
  <2>1. NextQty = Min({Head(s), left})
    BY <1>1, <1>2, <1>4 DEF NextQty
  <2>2. PICK n \in Nat : n = Head(s)
    BY <1>3
  <2>3. Min({n, left}) = IF n <= left THEN n ELSE left
    BY MinOfTwo
  <2>4. NextQty \in Nat /\ NextQty <= left
    BY <2>1, <2>2, <2>3
  <2> QED
    BY <1>1, <1>4, <2>4
<1>5. CASE algo.type # "ICEBERG"
  <2>1. fired # Len(s)
    BY <1>2, <1>5 DEF Exhausted
  <2>2. fired + 1 \in 1 .. Len(s)
    BY <1>2, <1>3, <2>1 DEF AlgoTypeOK
  <2>3. PICK n \in Nat : n = s[fired + 1]
    BY <1>2, <2>2
  <2>4. NextQty = IF fired + 1 = Len(s) THEN left ELSE Min({n, left})
    BY <1>1, <1>2, <1>5, <2>3 DEF NextQty
  <2>5. Min({n, left}) = IF n <= left THEN n ELSE left
    BY MinOfTwo
  <2>6. NextQty \in Nat /\ NextQty <= left
    BY <2>4, <2>5
  <2> QED
    BY <1>1, <1>2, <1>3, <2>2, <2>6
<1> QED
  BY <1>4, <1>5

LEMMA AlgoInitially == AlgoInit => AlgoInv
<1> SUFFICES ASSUME AlgoInit PROVE AlgoInv
  OBVIOUS
<1>1. AlgoTypeOK
  <2>1. algo.slices \in Seq(Nat)
    BY AlgoAssumption DEF AlgoInit
  <2>2. 0 \in 0 .. Len(algo.slices)
    BY <2>1
  <2>3. << >> \in Seq(Nat)
    OBVIOUS
  <2> QED
    BY <2>2, <2>3 DEF AlgoInit, AlgoTypeOK
<1>2. Waiting(queued) = 0
  BY NothingWaits DEF AlgoInit
<1>3. algo.total \in Nat
  BY <1>1, QuantityTyped
<1> QED
  BY <1>1, <1>2, <1>3 DEF AlgoInit, AlgoInv, Accounted

LEMMA AlgoStep == AlgoInv /\ [AlgoNext]_algoVars => AlgoInv'
<1> SUFFICES ASSUME AlgoInv, [AlgoNext]_algoVars PROVE AlgoInv'
  OBVIOUS
<1>t. AlgoTypeOK
  BY DEF AlgoInv
<1>q. /\ algo.total \in Nat /\ Waiting(queued) \in Int
      /\ child \in Nat /\ filledQuantity \in Nat /\ position \in Nat /\ timedOut \in Nat
      /\ queued \in Seq(Nat)
  BY <1>t, QuantityTyped DEF AlgoTypeOK
<1>a. algo' = algo
  BY DEF AlgoNext, algoVars, SendChild, ChildFilled, ChildFailed, LateChild, FinishSlicing, Cancel,
         CrashAlgo
<1>w. \A q : queued' = q => Waiting(queued)' = Waiting(q)
  BY DEF Waiting, FoldSeq, FoldFunction, FoldFunctionOnSet, MapThenFoldSet
<1>1. CASE UNCHANGED algoVars
  <2>1. Waiting(queued)' = Waiting(queued)
    BY <1>1, <1>w DEF algoVars
  <2> QED
    BY <1>1, <2>1 DEF AlgoInv, AlgoTypeOK, Accounted, algoVars
<1>2. CASE SendChild
  <2>1. child' \in Nat /\ child' <= Max({0, algo.total - filledQuantity}) /\ sending /\ child = 0
    BY <1>2, <1>t, NextQtyIs DEF SendChild
  <2>2. fired' \in 0 .. Len(algo.slices)
    BY <1>2, <1>t, NextQtyIs DEF SendChild, AlgoTypeOK
  <2>3. UNCHANGED <<algo, active, cancelRequested, sending, filledQuantity, position, queued, timedOut>>
    BY <1>2 DEF SendChild
  <2>4. Waiting(queued)' = Waiting(queued)
    BY <2>3, <1>w
  <2>5. filledQuantity <= algo.total /\ position - filledQuantity + Waiting(queued) <= timedOut
    BY <1>q, <2>1 DEF AlgoInv, Accounted
  <2>6. child' <= algo.total - filledQuantity
    <3>1. algo.total - filledQuantity \in Nat
      BY <1>q, <2>5
    <3>2. PICK x \in Nat : x = algo.total - filledQuantity
      BY <3>1
    <3>3. Max({0, x}) = IF 0 >= x THEN 0 ELSE x
      BY MinOfTwo
    <3>4. Max({0, x}) = x
      BY <3>3
    <3> QED
      BY <2>1, <3>2, <3>4
  <2>7. filledQuantity + child' <= algo.total
    BY <1>q, <2>1, <2>6
  <2>8. AlgoTypeOK'
    BY <1>t, <2>1, <2>2, <2>3 DEF AlgoTypeOK
  <2> QED
    BY <2>1, <2>3, <2>4, <2>5, <2>7, <2>8 DEF AlgoInv, Accounted
<1>3. CASE ChildFilled
  <2>1. /\ child > 0 /\ child' = 0 /\ filledQuantity' = filledQuantity + child
        /\ position' = position + child
        /\ UNCHANGED <<algo, active, cancelRequested, fired, sending, queued, timedOut>>
    BY <1>3 DEF ChildFilled
  <2>2. Waiting(queued)' = Waiting(queued)
    BY <2>1, <1>w
  <2>3. AlgoTypeOK'
    BY <1>t, <1>q, <2>1 DEF AlgoTypeOK
  <2>4. /\ filledQuantity + child <= algo.total
        /\ position - filledQuantity + Waiting(queued) <= timedOut
    BY <1>q, <2>1 DEF AlgoInv, Accounted
  <2>5. /\ filledQuantity' + child' <= algo.total
        /\ position' - filledQuantity' + Waiting(queued) <= timedOut
    BY <1>q, <2>1, <2>4
  <2> QED
    BY <2>1, <2>2, <2>3, <2>5 DEF AlgoInv, Accounted
<1>4. CASE ChildFailed
  <2>1. /\ child > 0 /\ child' = 0
        /\ UNCHANGED <<algo, active, cancelRequested, fired, sending, filledQuantity, position>>
    BY <1>4 DEF ChildFailed
  <2>2. /\ filledQuantity + child <= algo.total
        /\ position - filledQuantity + Waiting(queued) <= timedOut
    BY <1>q, <2>1 DEF AlgoInv, Accounted
  <2>3. filledQuantity' + child' <= algo'.total
    BY <1>q, <2>1, <2>2
  <2>4. CASE UNCHANGED <<queued, timedOut>>
    <3>1. Waiting(queued)' = Waiting(queued)
      BY <2>4, <1>w
    <3>2. AlgoTypeOK'
      BY <1>t, <2>1, <2>4 DEF AlgoTypeOK
    <3> QED
      BY <2>1, <2>2, <2>3, <2>4, <3>1, <3>2 DEF AlgoInv, Accounted
  <2>5. CASE queued' = Append(queued, child) /\ timedOut' = timedOut + child
    <3>1. Waiting(queued)' = Waiting(queued) + child /\ queued' \in Seq(Nat)
      BY <1>q, <2>5, <1>w, WaitingAppend
    <3>2. AlgoTypeOK'
      BY <1>t, <1>q, <2>1, <2>5, <3>1 DEF AlgoTypeOK
    <3>3. position' - filledQuantity' + Waiting(queued)' <= timedOut'
      BY <1>q, <2>1, <2>2, <2>5, <3>1
    <3> QED
      BY <2>1, <2>3, <3>2, <3>3 DEF AlgoInv, Accounted
  <2> QED
    BY <1>4, <2>4, <2>5 DEF ChildFailed
<1>5. CASE LateChild
  <2>1. /\ queued # << >> /\ queued' = Tail(queued)
        /\ position' = position + Head(queued) \/ position' = position
        /\ UNCHANGED <<algo, active, cancelRequested, fired, child, sending, filledQuantity, timedOut>>
    BY <1>5 DEF LateChild
  <2>2. /\ Head(queued) \in Nat /\ queued' \in Seq(Nat)
        /\ Waiting(queued)' = Waiting(queued) - Head(queued)
    BY <1>q, <2>1, <1>w, WaitingTail
  <2>3. position' \in Nat /\ position' + Waiting(queued)' <= position + Waiting(queued)
    BY <1>q, <2>1, <2>2
  <2>4. AlgoTypeOK'
    BY <1>t, <2>1, <2>2, <2>3 DEF AlgoTypeOK
  <2>5. Waiting(queued)' \in Int
    BY <1>q, <2>2
  <2>6. Accounted'
    <3>1. CASE /\ filledQuantity + child <= algo.total
               /\ position - filledQuantity + Waiting(queued) <= timedOut
      <4>1. position' - filledQuantity' + Waiting(queued)' <= timedOut'
        BY <1>q, <2>1, <2>3, <2>5, <3>1
      <4> QED
        BY <2>1, <3>1, <4>1 DEF Accounted
    <3>2. CASE /\ ~sending /\ child = 0 /\ ~active
               /\ position + Waiting(queued) <= algo.total + timedOut
      <4>1. position' + Waiting(queued)' <= algo'.total + timedOut'
        BY <1>q, <2>1, <2>3, <2>5, <3>2
      <4> QED
        BY <2>1, <3>2, <4>1 DEF Accounted
    <3> QED
      BY <3>1, <3>2 DEF AlgoInv, Accounted
  <2> QED
    BY <2>1, <2>4, <2>6 DEF AlgoInv
<1>6. CASE FinishSlicing \/ Cancel
  <2>1. UNCHANGED <<algo, fired, child, filledQuantity, position, queued, timedOut>>
    BY <1>6 DEF FinishSlicing, Cancel
  <2>2. /\ active' \in BOOLEAN /\ cancelRequested' \in BOOLEAN /\ sending' \in BOOLEAN
        /\ (~sending => ~sending') /\ (~active => ~active') /\ (~sending' => child = 0)
    <3>1. CASE FinishSlicing
      BY <3>1, <1>t DEF FinishSlicing, AlgoTypeOK
    <3>2. CASE Cancel
      BY <3>2, <1>t DEF Cancel, AlgoTypeOK, AlgoInv
    <3> QED
      BY <1>6, <3>1, <3>2
  <2>3. Waiting(queued)' = Waiting(queued)
    BY <2>1, <1>w
  <2> QED
    BY <1>t, <2>1, <2>2, <2>3 DEF AlgoInv, AlgoTypeOK, Accounted
<1>7. CASE CrashAlgo
  <2>1. /\ active /\ active' = FALSE /\ sending' = FALSE /\ child' = 0
        /\ UNCHANGED <<algo, cancelRequested, fired, filledQuantity, position, timedOut>>
        /\ IF child > 0 THEN queued' = Append(queued, child) ELSE queued' = queued
    BY <1>7 DEF CrashAlgo
  <2>2. /\ filledQuantity + child <= algo.total
        /\ position - filledQuantity + Waiting(queued) <= timedOut
    BY <2>1 DEF AlgoInv, Accounted
  <2>3. queued' \in Seq(Nat) /\ Waiting(queued)' = Waiting(queued) + child
    <3>1. CASE child > 0
      BY <1>q, <2>1, <3>1, <1>w, WaitingAppend
    <3>2. CASE child = 0
      BY <1>q, <2>1, <3>2, <1>w
    <3> QED
      BY <1>q, <3>1, <3>2
  <2>4. AlgoTypeOK'
    BY <1>t, <2>1, <2>3 DEF AlgoTypeOK
  <2>5. position' + Waiting(queued)' <= algo'.total + timedOut'
    BY <1>q, <2>1, <2>2, <2>3
  <2> QED
    BY <2>1, <2>4, <2>5 DEF AlgoInv, Accounted
<1> QED
  BY <1>1, <1>2, <1>3, <1>4, <1>5, <1>6, <1>7 DEF AlgoNext

LEMMA AlgoFollows == AlgoInv => AlgoNeverOverfills
<1> SUFFICES ASSUME AlgoInv PROVE AlgoNeverOverfills
  OBVIOUS
<1>1. /\ algo.total \in Nat /\ Waiting(queued) \in Int /\ child \in Nat /\ filledQuantity \in Nat
      /\ position \in Nat /\ timedOut \in Nat
  BY QuantityTyped DEF AlgoInv, AlgoTypeOK
<1>2. position + child + Waiting(queued) <= algo.total + timedOut
  BY <1>1 DEF AlgoInv, Accounted
<1> QED
  BY <1>2 DEF AlgoNeverOverfills, Waiting

\* However slices fail, time out and fill late, and whether the service is told to
\* stop or its worker dies, an order is never filled for more than was asked for and
\* what was given up on a timeout (execution-service/algo.order.service.ts).
THEOREM AlgoFillsNoMore == Spec => []AlgoNeverOverfills
<1>1. AlgoInv => AlgoNeverOverfills
  BY AlgoFollows
<1>2. Init => AlgoInv
  BY AlgoInitially DEF Init
<1>3. AlgoInv /\ [Next]_vars => AlgoInv'
  <2>1. [Next]_vars => [AlgoNext]_algoVars
    BY DEF Next, vars, BesideAccount, BesideAlgo, BesidePilot
  <2> QED
    BY <2>1, AlgoStep
<1> QED
  BY <1>1, <1>2, <1>3, PTL DEF Spec
---------------------------------------------------------------------------
(* The guards of an account.                                               *)

Figures == UNION {[S -> Int \cup {Unknown}] : S \in SUBSET Held}
Check == [pc : {"none", "reading", "closing", "done"}, balance : Nat \cup {Unknown}, pnl : Figures,
          rest : SUBSET Held, unrealized : Int, margin : Int, alone : BOOLEAN]

WatchTypeOK ==
    /\ unborn \subseteq Held /\ open \subseteq Held /\ unborn \cap open = {} /\ balance \in Nat
    /\ price \in [Held -> Int] /\ settling \in [Held -> Int]
    /\ check \in [Guards -> Check]

\* What a check has looked at was opened before it looked.
Looked(c, coming) == c.rest \subseteq DOMAIN c.pnl /\ DOMAIN c.pnl \cap coming = {}

\* A check that no closing crossed works with the account as it is, but for what was
\* opened since.
Known(c, held) == {p \in DOMAIN c.pnl \cap held : c.pnl[p] # Unknown}
UpToDate(c, held, money) ==
    /\ c.alone /\ c.pc = "reading" /\ c.balance # Unknown => c.balance = money
    /\ c.alone /\ c.pc = "closing" =>
          /\ c.balance = money /\ c.rest \subseteq held
          /\ c.unrealized = Total(c.pnl, Known(c, held))
          /\ c.margin = Total(Margin, DOMAIN c.pnl \cap held)

WatchInv ==
    /\ WatchTypeOK /\ MinimalStopOut
    /\ \A g \in Guards : Looked(check[g], unborn) /\ UpToDate(check[g], open, balance)

LEMMA LeastFigure ==
    ASSUME NEW R, IsFiniteSet(R), R # {}, R \subseteq Nat, NEW v \in [R -> Int]
    PROVE  \E p \in R : \A q \in R : v[p] < v[q] \/ (v[p] = v[q] /\ p <= q)
<1> DEFINE Least(T, p) == \A q \in T : v[p] < v[q] \/ (v[p] = v[q] /\ p <= q)
           B == {T \in SUBSET R : T # {} /\ ~ \E p \in T : Least(T, p)}
           N == {Cardinality(T) : T \in B}
<1>1. B = {}
  <2>1. SUFFICES ASSUME B # {} PROVE FALSE
    OBVIOUS
  <2>2. N \subseteq Nat /\ N # {}
    <3>1. \A T \in B : T \in SUBSET R
      OBVIOUS
    <3>2. \A T \in B : Cardinality(T) \in Nat
      BY <3>1, OneFewer
    <3> HIDE DEF B
    <3> QED
      BY <2>1, <3>2
  <2>3. PICK n \in N : \A y \in N : n <= y
    <3> HIDE DEF N
    <3> QED
      BY <2>2, LeastMember
  <2>4. PICK T \in B : n = Cardinality(T)
    BY <2>3
  <2>5. T \in SUBSET R /\ T # {} /\ ~ \E p \in T : Least(T, p)
    BY <2>4
  <2>6. PICK x \in T : TRUE
    BY <2>5
  <2>7. PICK S : S = T \ {x} /\ S \in SUBSET R /\ S \notin B
    <3>1. Cardinality(T) \in Nat /\ Cardinality(T \ {x}) = Cardinality(T) - 1
      BY <2>5, OneFewer
    <3>2. ASSUME T \ {x} \in B PROVE FALSE
      <4>1. n <= Cardinality(T \ {x})
        BY <2>3, <3>2
      <4> QED
        BY <2>4, <3>1, <4>1
    <3> QED
      BY <2>5, <3>2
  <2>8. x \in Nat /\ v[x] \in Int /\ \A q \in T : q \in Nat /\ v[q] \in Int
    BY <2>5
  <2>9. CASE S = {}
    <3>1. \A q \in T : q = x
      BY <2>7, <2>9
    <3>2. Least(T, x)
      BY <2>8, <3>1
    <3> QED
      BY <2>5, <3>2
  <2>10. CASE S # {}
    <3>1. PICK w \in S : Least(S, w)
      BY <2>7, <2>10
    <3>2. w \in T /\ \A q \in T : q = x \/ q \in S
      BY <2>7, <3>1
    <3>3. CASE v[w] < v[x] \/ (v[w] = v[x] /\ w <= x)
      <4>1. Least(T, w)
        BY <3>1, <3>2, <3>3
      <4> QED
        BY <2>5, <3>2, <4>1
    <3>4. CASE ~(v[w] < v[x] \/ (v[w] = v[x] /\ w <= x))
      <4>1. v[x] < v[w] \/ (v[x] = v[w] /\ x <= w)
        BY <2>8, <3>2, <3>4
      <4>2. ASSUME NEW q \in T PROVE v[x] < v[q] \/ (v[x] = v[q] /\ x <= q)
        <5>1. CASE q = x
          BY <2>8, <5>1
        <5>2. CASE q \in S
          <6>1. v[w] < v[q] \/ (v[w] = v[q] /\ w <= q)
            BY <3>1, <5>2
          <6> QED
            BY <2>8, <3>2, <4>1, <6>1
        <5> QED
          BY <3>2, <5>1, <5>2
      <4> QED
        BY <2>5, <4>2
    <3> QED
      BY <3>3, <3>4
  <2> QED
    BY <2>9, <2>10
<1>2. R \notin B
  BY <1>1
<1> QED
  BY <1>2

\* What a check closes next is one of those it has left.
LEMMA WorstIs ==
    ASSUME NEW c \in Check, c.rest # {}, c.rest \subseteq DOMAIN c.pnl
    PROVE  Worst(c) \in c.rest
<1> DEFINE gain(x) == IF c.pnl[x] = Unknown THEN 0 ELSE c.pnl[x]
<1>1. PICK R : R = c.rest /\ R \subseteq Held
  BY DEF Check
<1>2. IsFiniteSet(R) /\ R \subseteq Nat /\ R # {}
  BY <1>1, WatchAssumption, FS_Subset
<1>3. PICK S \in SUBSET Held : c.pnl \in [S -> Int \cup {Unknown}]
  BY DEF Check, Figures
<1>4. \A x \in R : gain(x) \in Int
  BY <1>1, <1>3
<1>5. PICK v : v = [x \in R |-> gain(x)]
  OBVIOUS
<1>6. v \in [R -> Int] /\ \A x \in R : v[x] = gain(x)
  BY <1>4, <1>5
<1>7. \E p \in R : \A q \in R : v[p] < v[q] \/ (v[p] = v[q] /\ p <= q)
  BY <1>2, <1>6, LeastFigure
<1>8. \E p \in R : \A q \in R : gain(p) < gain(q) \/ (gain(p) = gain(q) /\ p <= q)
  BY <1>6, <1>7
<1> QED
  BY <1>1, <1>8 DEF Worst

LEMMA NoCheckIs ==
    /\ NoCheck \in Check /\ NoCheck.pc = "none" /\ NoCheck.balance = Unknown
    /\ NoCheck.rest = {} /\ DOMAIN NoCheck.pnl = {}
<1>1. << >> \in [{} -> Int \cup {Unknown}] /\ DOMAIN << >> = {}
  OBVIOUS
<1>2. << >> \in Figures
  BY <1>1 DEF Figures
<1> QED
  BY <1>1, <1>2 DEF NoCheck, Check

LEMMA FiguresFinite ==
    ASSUME NEW S, S \subseteq Held
    PROVE  IsFiniteSet(S) /\ \A p \in S : p \in Nat /\ Margin[p] \in Nat /\ Entry[p] \in Nat
  BY WatchAssumption, FS_Subset

\* What a check of figures still open adds up to, when one of them is closed.
LEMMA OneClosed ==
    ASSUME NEW c \in Check, NEW held, held \subseteq Held, NEW p \in held,
           p \in DOMAIN c.pnl, c.pnl[p] # Unknown, NEW left, left = held \ {p}
    PROVE  /\ Total(c.pnl, Known(c, left)) = Total(c.pnl, Known(c, held)) - c.pnl[p]
           /\ Total(Margin, DOMAIN c.pnl \cap left) = Total(Margin, DOMAIN c.pnl \cap held) - Margin[p]
           /\ c.pnl[p] \in Int
<1>1. PICK S \in SUBSET Held : c.pnl \in [S -> Int \cup {Unknown}]
  BY DEF Check, Figures
<1>2. DOMAIN c.pnl = S
  BY <1>1
<1>3. PICK K, L : K = Known(c, held) /\ L = Known(c, left)
  OBVIOUS
<1>4. K \subseteq Held /\ p \in K /\ L = K \ {p} /\ \A x \in K : c.pnl[x] \in Int
  BY <1>1, <1>2, <1>3 DEF Known
<1>5. IsFiniteSet(K)
  BY <1>4, FiguresFinite
<1>6. /\ Total(c.pnl, K) \in Int /\ Total(c.pnl, L) \in Int /\ c.pnl[p] \in Int
      /\ Total(c.pnl, K) = Total(c.pnl, L) + c.pnl[p]
  BY <1>4, <1>5, TotalOfMore
<1>7. PICK M, N : M = DOMAIN c.pnl \cap held /\ N = DOMAIN c.pnl \cap left
  OBVIOUS
<1>8. M \subseteq Held /\ p \in M /\ N = M \ {p}
  BY <1>7
<1>9. IsFiniteSet(M) /\ \A x \in M : Margin[x] \in Int
  BY <1>8, FiguresFinite
<1>10. /\ Total(Margin, M) \in Int /\ Total(Margin, N) \in Int /\ Margin[p] \in Int
       /\ Total(Margin, M) = Total(Margin, N) + Margin[p]
  BY <1>8, <1>9, TotalOfMore
<1>11. Total(c.pnl, L) = Total(c.pnl, K) - c.pnl[p] /\ Total(Margin, N) = Total(Margin, M) - Margin[p]
  BY <1>6, <1>10
<1> QED
  BY <1>3, <1>6, <1>7, <1>11

\* A check that is up to date and finds the account below 50 % is right.
LEMMA RightlyClosed ==
    ASSUME WatchTypeOK, NEW c \in Check, DOMAIN c.pnl \cap unborn = {}, UpToDate(c, open, balance),
           c.alone, c.pc = "closing", Below50(c.balance + c.unrealized, c.margin)
    PROVE  Below50(TrueEquity(c), Total(Margin, open))
<1>1. PICK S \in SUBSET Held : c.pnl \in [S -> Int \cup {Unknown}]
  BY DEF Check, Figures
<1>2. DOMAIN c.pnl = S /\ open \subseteq Held
  BY <1>1 DEF WatchTypeOK
<1>3. PICK K, M : K = Known(c, open) /\ M = DOMAIN c.pnl \cap open
  OBVIOUS
<1>4. c.balance = balance /\ c.unrealized = Total(c.pnl, K) /\ c.margin = Total(Margin, M)
  BY <1>3 DEF UpToDate
<1>5. PICK f : f = [p \in open |-> IF p \in DOMAIN c.pnl /\ c.pnl[p] # Unknown THEN c.pnl[p] ELSE 0]
  OBVIOUS
<1>6. /\ K \subseteq open /\ (\A p \in open : f[p] \in Int) /\ (\A p \in open \ K : f[p] = 0)
      /\ (\A p \in K : f[p] \in Int /\ c.pnl[p] = f[p])
  BY <1>1, <1>2, <1>3, <1>5 DEF Known
<1>7. IsFiniteSet(open) /\ IsFiniteSet(K)
  BY <1>2, <1>6, FiguresFinite
<1>8. Total(f, open) = Total(f, K)
  BY <1>6, <1>7, TotalOfNothing
<1>9. Total(c.pnl, K) = Total(f, K)
  BY <1>6, <1>7, TotalsAgree
<1>10. TrueEquity(c) = balance + c.unrealized
  BY <1>4, <1>5, <1>8, <1>9 DEF TrueEquity
<1>11. M \subseteq open /\ \A p \in open : Margin[p] \in Int /\ Margin[p] >= 0
  BY <1>2, <1>3, FiguresFinite
<1>12. Total(Margin, M) \in Int /\ Total(Margin, open) \in Int
       /\ Total(Margin, M) <= Total(Margin, open)
  BY <1>7, <1>11, TotalGrows
<1>13. balance \in Int /\ c.unrealized \in Int
  BY DEF WatchTypeOK, Check
<1>14. PICK e \in Int, m \in Int, n \in Int :
           e = TrueEquity(c) /\ m = c.margin /\ n = Total(Margin, open) /\ m <= n
  BY <1>4, <1>10, <1>12, <1>13
<1>15. m > 0 /\ 2 * e < m
  BY <1>4, <1>10, <1>14 DEF Below50
<1> QED
  BY <1>14, <1>15 DEF Below50

LEMMA WatchAfter ==
    ASSUME WatchTypeOK', MinimalStopOut',
           \A g \in Guards : Looked(check'[g], unborn') /\ UpToDate(check'[g], open', balance')
    PROVE  WatchInv'
<1>1. (\A g \in Guards : Looked(check[g], unborn))'
  BY DEF Looked
<1>2. (\A g \in Guards : UpToDate(check[g], open, balance))'
  BY DEF UpToDate, Known, Total, FoldFunctionOnSet, MapThenFoldSet
<1> QED
  BY <1>1, <1>2 DEF WatchInv

LEMMA Unlooked ==
    ASSUME WatchInv, check' = check, UNCHANGED <<unborn, open, balance, needless>>,
           price' \in [Held -> Int], settling' \in [Held -> Int]
    PROVE  WatchInv'
<1>1. WatchTypeOK'
  BY DEF WatchInv, WatchTypeOK
<1>2. MinimalStopOut'
  BY DEF WatchInv, MinimalStopOut
<1>3. \A g \in Guards : Looked(check'[g], unborn') /\ UpToDate(check'[g], open', balance')
  <2>1. ASSUME NEW g \in Guards PROVE Looked(check[g], unborn) /\ UpToDate(check[g], open, balance)
    BY DEF WatchInv
  <2> QED
    BY <2>1
<1> QED
  BY <1>1, <1>2, <1>3, WatchAfter

LEMMA CheckMoves ==
    ASSUME WatchInv, NEW g \in Guards, NEW k \in Check, check' = [check EXCEPT ![g] = k],
           UNCHANGED <<unborn, open, balance, needless>>,
           price' \in [Held -> Int], settling' \in [Held -> Int],
           Looked(k, unborn), UpToDate(k, open, balance)
    PROVE  WatchInv'
<1>1. /\ check' \in [Guards -> Check]
      /\ \A h \in Guards : check'[h] = IF h = g THEN k ELSE check[h]
  BY DEF WatchInv, WatchTypeOK
<1>2. WatchTypeOK'
  BY <1>1 DEF WatchInv, WatchTypeOK
<1>3. MinimalStopOut'
  BY DEF WatchInv, MinimalStopOut
<1>4. \A h \in Guards : Looked(check'[h], unborn') /\ UpToDate(check'[h], open', balance')
  <2>1. ASSUME NEW h \in Guards
        PROVE  Looked(check'[h], unborn) /\ UpToDate(check'[h], open, balance)
    <3>1. Looked(check[h], unborn) /\ UpToDate(check[h], open, balance)
      BY DEF WatchInv
    <3> QED
      BY <1>1, <3>1
  <2> QED
    BY <2>1
<1> QED
  BY <1>2, <1>3, <1>4, WatchAfter

\* A check that a closing crosses is not alone any more.
LEMMA DisturbedIs ==
    ASSUME WatchTypeOK
    PROVE  \A g \in Guards :
               /\ Disturbed(check)[g] \in Check /\ Disturbed(check)[g].pc = check[g].pc
               /\ Disturbed(check)[g].rest = check[g].rest /\ Disturbed(check)[g].pnl = check[g].pnl
               /\ Disturbed(check)[g].alone => check[g].pc = "none"
<1> SUFFICES ASSUME NEW g \in Guards
             PROVE  /\ Disturbed(check)[g] \in Check /\ Disturbed(check)[g].pc = check[g].pc
                    /\ Disturbed(check)[g].rest = check[g].rest
                    /\ Disturbed(check)[g].pnl = check[g].pnl
                    /\ Disturbed(check)[g].alone => check[g].pc = "none"
  OBVIOUS
<1>1. PICK c \in Check : c = check[g]
  BY DEF WatchTypeOK
<1>2. PICK b \in BOOLEAN : b = (c.alone /\ c.pc = "none")
  OBVIOUS
<1>3. PICK d : d = [c EXCEPT !.alone = b]
  OBVIOUS
<1>4. Disturbed(check)[g] = d
  BY <1>1, <1>2, <1>3 DEF Disturbed
<1>5. d \in Check /\ d.pc = c.pc /\ d.rest = c.rest /\ d.pnl = c.pnl /\ d.alone = b
  BY <1>3 DEF Check
<1> QED
  BY <1>1, <1>2, <1>4, <1>5

LEMMA SettleIs ==
    ASSUME WatchTypeOK, NEW p \in open, NEW exit \in Int, Settle(p, exit)
    PROVE  balance' \in Nat /\ open' = open \ {p} /\ open' \subseteq Held /\ unborn \cap open' = {}
<1>1. PICK x \in Int : x = balance + exit - Entry[p]
  <2>1. Entry[p] \in Int /\ balance \in Int
    BY FiguresFinite DEF WatchTypeOK
  <2> QED
    BY <2>1
<1>2. balance' = Max({0, x}) /\ open' = open \ {p}
  BY <1>1 DEF Settle
<1>3. Max({0, x}) = IF 0 >= x THEN 0 ELSE x
  BY MinOfTwo
<1>4. balance' \in Nat
  BY <1>2, <1>3
<1> QED
  BY <1>2, <1>4 DEF WatchTypeOK

LEMMA ClosingDisturbs ==
    ASSUME WatchInv, NEW p \in open, NEW exit \in Int, Settle(p, exit), check' = Disturbed(check),
           UNCHANGED <<unborn, needless>>, price' \in [Held -> Int], settling' \in [Held -> Int]
    PROVE  WatchInv'
<1>t. WatchTypeOK
  BY DEF WatchInv
<1>1. check' \in [Guards -> Check]
  <2>1. check' = [g \in Guards |-> Disturbed(check)[g]]
    BY DEF Disturbed
  <2> QED
    BY <1>t, <2>1, DisturbedIs
<1>2. WatchTypeOK'
  BY <1>t, <1>1, SettleIs DEF WatchTypeOK
<1>3. MinimalStopOut'
  BY DEF WatchInv, MinimalStopOut
<1>4. ASSUME NEW g \in Guards
      PROVE  Looked(check'[g], unborn') /\ UpToDate(check'[g], open', balance')
  <2>1. /\ check'[g].pc = check[g].pc /\ check'[g].rest = check[g].rest
        /\ check'[g].pnl = check[g].pnl /\ (check'[g].alone => check[g].pc = "none")
    BY <1>t, DisturbedIs
  <2>2. Looked(check[g], unborn)
    BY DEF WatchInv
  <2> QED
    BY <2>1, <2>2 DEF Looked, UpToDate
<1> QED
  BY <1>2, <1>3, <1>4, WatchAfter

LEMMA OpeningKeeps ==
    ASSUME WatchInv, NEW p \in unborn, unborn' = unborn \ {p}, open' = open \cup {p},
           UNCHANGED <<balance, price, settling, check, needless>>
    PROVE  WatchInv'
<1>1. WatchTypeOK'
  BY DEF WatchInv, WatchTypeOK
<1>2. MinimalStopOut'
  BY DEF WatchInv, MinimalStopOut
<1>3. ASSUME NEW g \in Guards
      PROVE  Looked(check'[g], unborn') /\ UpToDate(check'[g], open', balance')
  <2>1. PICK c, held : c = check[g] /\ held = open /\ Looked(c, unborn) /\ UpToDate(c, held, balance)
    BY DEF WatchInv
  <2>2. PICK more : more = open' /\ more = held \cup {p} /\ p \notin DOMAIN c.pnl
    BY <2>1 DEF Looked
  <2>3. Known(c, more) = Known(c, held) /\ DOMAIN c.pnl \cap more = DOMAIN c.pnl \cap held
        /\ held \subseteq more
    BY <2>2 DEF Known
  <2>4. UpToDate(c, more, balance)
    BY <2>1, <2>3 DEF UpToDate
  <2>5. Looked(c, unborn')
    BY <2>1 DEF Looked
  <2> QED
    BY <2>1, <2>2, <2>4, <2>5
<1> QED
  BY <1>1, <1>2, <1>3, WatchAfter

LEMMA WatchInitially == WatchInit => WatchInv
<1> SUFFICES ASSUME WatchInit PROVE WatchInv
  OBVIOUS
<1>1. check = [g \in Guards |-> NoCheck] /\ \A g \in Guards : check[g] = NoCheck
  BY DEF WatchInit
<1>2. check \in [Guards -> Check]
  BY <1>1, NoCheckIs
<1>3. price \in [Held -> Int] /\ settling \in [Held -> Int]
  BY WatchAssumption DEF WatchInit
<1>4. unborn \subseteq Held /\ open \subseteq Held /\ unborn \cap open = {} /\ balance \in Nat
  BY WatchAssumption DEF WatchInit
<1>5. MinimalStopOut
  BY DEF WatchInit, MinimalStopOut
<1>6. \A g \in Guards : Looked(check[g], unborn) /\ UpToDate(check[g], open, balance)
  BY <1>1, NoCheckIs DEF Looked, UpToDate
<1> QED
  BY <1>2, <1>3, <1>4, <1>5, <1>6 DEF WatchInv, WatchTypeOK

LEMMA AssessIs ==
    ASSUME WatchInv, NEW g \in Guards, Assess(g)
    PROVE  WatchInv'
<1>t. WatchTypeOK
  BY DEF WatchInv
<1>1. PICK c \in Check : c = check[g] /\ c.pc = "reading" /\ c.balance # Unknown
  BY <1>t DEF Assess, WatchTypeOK
<1>2. PICK f : f = [p \in open |-> IF p \in live THEN price[p] - Entry[p] ELSE Unknown]
  OBVIOUS
<1>3. \A p \in open : price[p] - Entry[p] \in Int
  <2>1. \A p \in open : p \in Held /\ price[p] \in Int /\ Entry[p] \in Int
    <3>1. open \subseteq Held /\ \A p \in Held : price[p] \in Int
      BY <1>t DEF WatchTypeOK
    <3> QED
      BY <3>1, FiguresFinite
  <2> QED
    BY <2>1
<1>4. f \in [open -> Int \cup {Unknown}] /\ DOMAIN f = open
  BY <1>2, <1>3
<1>5. f \in Figures
  BY <1>t, <1>4 DEF Figures, WatchTypeOK
<1>6. PICK K : K = open \cap live
  OBVIOUS
<1>7. (\A p \in K : f[p] \in Int) /\ IsFiniteSet(K) /\ K = {p \in open : f[p] # Unknown}
  <2>1. IsFiniteSet(K)
    BY <1>t, <1>6, FiguresFinite DEF WatchTypeOK
  <2>2. \A p \in open : f[p] = IF p \in live THEN price[p] - Entry[p] ELSE Unknown
    BY <1>2
  <2>3. \A p \in open : (p \in live) <=> (f[p] # Unknown)
    BY <1>3, <2>2, WatchAssumption
  <2>4. \A p \in K : f[p] \in Int
    BY <1>3, <1>6, <2>2
  <2> QED
    BY <1>6, <2>1, <2>3, <2>4
<1>8. PICK u \in Int : u = Total(f, K)
  BY <1>7, TotalIsInt
<1>9. PICK m \in Int : m = Total(Margin, open)
  <2>1. IsFiniteSet(open) /\ \A p \in open : Margin[p] \in Int
    BY <1>t, FiguresFinite DEF WatchTypeOK
  <2> QED
    BY <2>1, TotalIsInt
<1>10. PICK phase \in {"closing", "done"} :
            phase = IF Below50(c.balance + u, m) THEN "closing" ELSE "done"
  OBVIOUS
<1>11. PICK k : k = [c EXCEPT !.pc = phase, !.pnl = f, !.rest = open, !.unrealized = u, !.margin = m]
  OBVIOUS
<1>12. /\ check' = [check EXCEPT ![g] = k]
       /\ UNCHANGED <<unborn, open, balance, needless, price, settling>>
  BY <1>1, <1>2, <1>6, <1>8, <1>9, <1>10, <1>11 DEF Assess, market, monitor
<1>13. /\ k \in Check /\ k.pc = phase /\ k.pnl = f /\ k.rest = open /\ k.unrealized = u /\ k.margin = m
       /\ k.alone = c.alone /\ k.balance = c.balance
  <2>1. phase \in {"none", "reading", "closing", "done"} /\ open \in SUBSET Held
    BY <1>t, <1>10 DEF WatchTypeOK
  <2> QED
    BY <1>5, <1>11, <2>1 DEF Check
<1>14. Looked(k, unborn)
  BY <1>t, <1>4, <1>13 DEF Looked, WatchTypeOK
<1>15. UpToDate(k, open, balance)
  <2>1. c.alone => c.balance = balance
    BY <1>1 DEF WatchInv, UpToDate
  <2>2. Known(k, open) = K /\ DOMAIN k.pnl \cap open = open
    BY <1>4, <1>7, <1>13 DEF Known
  <2>3. k.pc # "reading"
    BY <1>13
  <2> QED
    BY <1>8, <1>9, <1>13, <2>1, <2>2, <2>3 DEF UpToDate
<1>16. price' \in [Held -> Int] /\ settling' \in [Held -> Int]
  BY <1>t, <1>12 DEF WatchTypeOK
<1> QED
  BY <1>12, <1>13, <1>14, <1>15, <1>16, CheckMoves

\* One closing of a check, or its failure.
LEMMA LiquidateIs ==
    ASSUME WatchInv, NEW g \in Guards, Liquidate(g)
    PROVE  WatchInv'
<1>t. WatchTypeOK
  BY DEF WatchInv
<1>1. PICK c \in Check : c = check[g] /\ Looked(c, unborn) /\ UpToDate(c, open, balance)
  BY DEF WatchInv, WatchTypeOK
<1>2. /\ c.pc = "closing" /\ c.rest # {} /\ Below50(c.balance + c.unrealized, c.margin)
      /\ UNCHANGED <<unborn, price, settling>>
  BY <1>1 DEF Liquidate, market
<1>3. PICK p \in c.rest : p = Worst(c)
  BY <1>1, <1>2, WorstIs DEF Looked
<1>4. /\ p \in Held /\ p \in DOMAIN c.pnl /\ c.rest \subseteq Held /\ Margin[p] \in Int
      /\ c.unrealized \in Int /\ c.margin \in Int
  <2>1. c.rest \subseteq Held /\ c.unrealized \in Int /\ c.margin \in Int
    BY DEF Check
  <2> QED
    BY <1>1, <1>3, <2>1, FiguresFinite DEF Looked
<1>5. c.pnl[p] # Unknown => c.pnl[p] \in Int
  BY <1>4 DEF Check, Figures
<1>6. price' \in [Held -> Int] /\ settling' \in [Held -> Int]
  BY <1>t, <1>2 DEF WatchTypeOK
<1>7. PICK left : left = c.rest \ {p} /\ left \in SUBSET Held
  BY <1>4
<1>8. PICK k : k = [c EXCEPT !.rest = left]
  OBVIOUS
<1>9. /\ k \in Check /\ k.rest = left /\ k.pc = c.pc /\ k.pnl = c.pnl /\ k.alone = c.alone
      /\ k.balance = c.balance /\ k.unrealized = c.unrealized /\ k.margin = c.margin
  BY <1>7, <1>8 DEF Check
<1>10. CASE check' = [check EXCEPT ![g] = k] /\ UNCHANGED <<open, balance, needless>>
  <2>1. Looked(k, unborn)
    BY <1>1, <1>7, <1>9 DEF Looked
  <2>2. UpToDate(k, open, balance)
    BY <1>1, <1>2, <1>7, <1>9 DEF UpToDate, Known
  <2> QED
    BY <1>2, <1>6, <1>9, <1>10, <2>1, <2>2, CheckMoves
\* The figures of the check without the position.
<1>11. ASSUME c.pnl[p] # Unknown
       PROVE  \E d \in Check, u \in Int, m \in Int :
                  /\ u = c.unrealized - c.pnl[p] /\ m = c.margin - Margin[p]
                  /\ d = [k EXCEPT !.unrealized = u, !.margin = m]
                  /\ d.rest = left /\ d.pc = c.pc /\ d.pnl = c.pnl /\ d.alone = c.alone
                  /\ d.balance = c.balance /\ d.unrealized = u /\ d.margin = m
  <2>1. PICK u \in Int, m \in Int : u = c.unrealized - c.pnl[p] /\ m = c.margin - Margin[p]
    BY <1>4, <1>5, <1>11
  <2>2. PICK d : d = [k EXCEPT !.unrealized = u, !.margin = m]
    OBVIOUS
  <2>3. /\ d \in Check /\ d.rest = left /\ d.pc = c.pc /\ d.pnl = c.pnl /\ d.alone = c.alone
        /\ d.balance = c.balance /\ d.unrealized = u /\ d.margin = m
    BY <1>9, <2>2 DEF Check
  <2> QED
    BY <2>1, <2>2, <2>3
<1>12. ASSUME c.pnl[p] # Unknown, NEW d \in Check, NEW u \in Int, NEW m \in Int,
              u = c.unrealized - c.pnl[p], m = c.margin - Margin[p],
              d.rest = left, d.pc = c.pc, d.pnl = c.pnl, d.alone = c.alone,
              d.balance = c.balance, d.unrealized = u, d.margin = m,
              p \notin open, check' = [check EXCEPT ![g] = d], UNCHANGED <<open, balance, needless>>
       PROVE  WatchInv'
  <2>1. Looked(d, unborn)
    BY <1>1, <1>7, <1>12 DEF Looked
  <2>2. ~c.alone
    BY <1>1, <1>2, <1>12 DEF UpToDate
  <2>3. UpToDate(d, open, balance)
    BY <1>12, <2>2 DEF UpToDate
  <2> QED
    BY <1>2, <1>6, <1>12, <2>1, <2>3, CheckMoves
<1>13. ASSUME c.pnl[p] # Unknown, NEW d \in Check, NEW u \in Int, NEW m \in Int,
              u = c.unrealized - c.pnl[p], m = c.margin - Margin[p],
              d.rest = left, d.pc = c.pc, d.pnl = c.pnl, d.alone = c.alone,
              d.balance = c.balance, d.unrealized = u, d.margin = m,
              p \in open, Settle(p, Entry[p] + c.pnl[p]),
              check' = [Disturbed(check) EXCEPT ![g] = [d EXCEPT !.balance = balance']],
              needless' = IF c.alone /\ ~Below50(TrueEquity(c), Total(Margin, open))
                          THEN needless \cup {p} ELSE needless
       PROVE  WatchInv'
  <2>1. PICK exit \in Int : exit = Entry[p] + c.pnl[p]
    <3>1. Entry[p] \in Int
      BY <1>4, WatchAssumption
    <3>2. c.pnl[p] \in Int
      BY <1>5, <1>13
    <3> QED
      BY <3>1, <3>2
  <2>2. PICK money, kept : /\ money \in Nat /\ money = balance' /\ kept = open'
                          /\ kept = open \ {p} /\ kept \subseteq Held /\ unborn \cap kept = {}
    BY <1>t, <1>13, <2>1, SettleIs
  <2>3. PICK e : e = [d EXCEPT !.balance = money]
    OBVIOUS
  <2>4. /\ e \in Check /\ e.rest = left /\ e.pc = c.pc /\ e.pnl = c.pnl /\ e.alone = c.alone
        /\ e.balance = money /\ e.unrealized = u /\ e.margin = m
    <3>1. money \in Nat \cup {Unknown}
      BY <2>2
    <3>2. e \in Check
      BY <2>3, <3>1 DEF Check
    <3>3. /\ e.rest = d.rest /\ e.pc = d.pc /\ e.pnl = d.pnl /\ e.alone = d.alone
          /\ e.balance = money /\ e.unrealized = d.unrealized /\ e.margin = d.margin
      BY <2>3 DEF Check
    <3> QED
      BY <1>13, <3>2, <3>3
  <2>5. /\ check' \in [Guards -> Check] /\ check'[g] = e
        /\ \A h \in Guards : h # g => check'[h] = Disturbed(check)[h]
    <3>1. Disturbed(check) \in [Guards -> Check]
      <4>1. Disturbed(check) = [h \in Guards |-> Disturbed(check)[h]]
        BY DEF Disturbed
      <4> QED
        BY <1>t, <4>1, DisturbedIs
    <3>2. check' = [Disturbed(check) EXCEPT ![g] = e]
      BY <1>13, <2>2, <2>3
    <3> QED
      BY <2>4, <3>1, <3>2
  <2>6. WatchTypeOK'
    BY <1>t, <1>2, <1>6, <2>2, <2>5 DEF WatchTypeOK
  <2>7. needless' = needless
    <3>1. c.alone => Below50(TrueEquity(c), Total(Margin, open))
      BY <1>t, <1>1, <1>2, RightlyClosed DEF Looked
    <3> QED
      BY <1>13, <3>1
  <2>8. MinimalStopOut'
    BY <2>7 DEF WatchInv, MinimalStopOut
  <2>9. Looked(e, unborn)
    BY <1>1, <1>7, <2>4 DEF Looked
  <2>10. UpToDate(e, kept, money)
    <3>1. ASSUME c.alone
          PROVE  /\ left \subseteq kept /\ u = Total(c.pnl, Known(c, kept))
                 /\ m = Total(Margin, DOMAIN c.pnl \cap kept)
      <4>1. /\ c.rest \subseteq open /\ c.unrealized = Total(c.pnl, Known(c, open))
            /\ c.margin = Total(Margin, DOMAIN c.pnl \cap open)
        BY <1>1, <1>2, <3>1 DEF UpToDate
      <4>2. /\ Total(c.pnl, Known(c, kept)) = Total(c.pnl, Known(c, open)) - c.pnl[p]
            /\ Total(Margin, DOMAIN c.pnl \cap kept)
                   = Total(Margin, DOMAIN c.pnl \cap open) - Margin[p]
        <5>1. PICK held : held = open /\ held \subseteq Held
          BY <1>t DEF WatchTypeOK
        <5>2. p \in held /\ p \in DOMAIN c.pnl /\ c.pnl[p] # Unknown /\ kept = held \ {p}
          BY <1>4, <1>13, <2>2, <5>1
        <5>3. /\ Total(c.pnl, Known(c, kept)) = Total(c.pnl, Known(c, held)) - c.pnl[p]
              /\ Total(Margin, DOMAIN c.pnl \cap kept)
                     = Total(Margin, DOMAIN c.pnl \cap held) - Margin[p]
          <6>1. c \in Check /\ p \in DOMAIN c.pnl /\ c.pnl[p] # Unknown
            BY <5>2
          <6>2. held \subseteq Held /\ p \in held /\ kept = held \ {p}
            BY <5>1, <5>2
          <6> QED
            BY ONLY <6>1, <6>2, OneClosed
        <5> QED
          BY <5>1, <5>3
      <4> QED
        BY <1>7, <1>13, <2>2, <4>1, <4>2
    <3>2. Known(e, kept) = Known(c, kept)
      BY <2>4 DEF Known
    <3> QED
      BY <1>2, <2>4, <3>1, <3>2 DEF UpToDate
  <2>11. ASSUME NEW h \in Guards
         PROVE  Looked(check'[h], unborn') /\ UpToDate(check'[h], open', balance')
    <3>1. CASE h = g
      BY <1>2, <2>2, <2>5, <2>9, <2>10, <3>1
    <3>2. CASE h # g
      <4>1. /\ check'[h].pc = check[h].pc /\ check'[h].rest = check[h].rest
            /\ check'[h].pnl = check[h].pnl /\ (check'[h].alone => check[h].pc = "none")
        BY <1>t, <2>5, <3>2, DisturbedIs
      <4>2. Looked(check[h], unborn)
        BY DEF WatchInv
      <4> QED
        BY <1>2, <4>1, <4>2 DEF Looked, UpToDate
    <3> QED
      BY <3>1, <3>2
  <2> QED
    BY <2>6, <2>8, <2>11, WatchAfter
<1>14. \/ check' = [check EXCEPT ![g] = k] /\ UNCHANGED <<open, balance, needless>>
       \/ /\ c.pnl[p] # Unknown /\ p \in open /\ Settle(p, Entry[p] + c.pnl[p])
          /\ check' = [Disturbed(check) EXCEPT ![g] =
                          [[k EXCEPT !.unrealized = @ - c.pnl[p], !.margin = c.margin - Margin[p]]
                              EXCEPT !.balance = balance']]
          /\ needless' = IF c.alone /\ ~Below50(TrueEquity(c), Total(Margin, open))
                         THEN needless \cup {p} ELSE needless
       \/ /\ c.pnl[p] # Unknown /\ p \notin open
          /\ check' = [check EXCEPT ![g] =
                          [k EXCEPT !.unrealized = @ - c.pnl[p], !.margin = c.margin - Margin[p]]]
          /\ UNCHANGED <<open, balance, needless>>
  BY <1>1, <1>3, <1>7, <1>8 DEF Liquidate, MarginLeft
<1>15. CASE c.pnl[p] = Unknown
  BY <1>10, <1>14, <1>15
<1>16. CASE c.pnl[p] # Unknown
  <2>1. PICK d \in Check, u \in Int, m \in Int :
             /\ u = c.unrealized - c.pnl[p] /\ m = c.margin - Margin[p]
             /\ d = [k EXCEPT !.unrealized = u, !.margin = m]
             /\ d.rest = left /\ d.pc = c.pc /\ d.pnl = c.pnl /\ d.alone = c.alone
             /\ d.balance = c.balance /\ d.unrealized = u /\ d.margin = m
    BY <1>11, <1>16
  <2>2. d = [k EXCEPT !.unrealized = @ - c.pnl[p], !.margin = c.margin - Margin[p]]
    BY <1>9, <2>1
  <2> QED
    BY <1>10, <1>12, <1>13, <1>14, <1>16, <2>1, <2>2
<1> QED
  BY <1>15, <1>16

LEMMA WatchStep == WatchInv /\ [WatchNext]_watchVars => WatchInv'
<1> SUFFICES ASSUME WatchInv, [WatchNext]_watchVars PROVE WatchInv'
  OBVIOUS
<1>t. WatchTypeOK
  BY DEF WatchInv
<1>p. price \in [Held -> Int] /\ settling \in [Held -> Int]
  BY <1>t DEF WatchTypeOK
<1>e. \A p \in Held : Entry[p] \in Int
  BY WatchAssumption
\* A check begins, and has read nothing.
<1>q. PICK new : new = [NoCheck EXCEPT !.pc = "reading"]
  OBVIOUS
<1>r. /\ new \in Check /\ new = [NoCheck EXCEPT !.pc = "reading"] /\ new.pc = "reading"
      /\ new.balance = Unknown /\ new.rest = {} /\ DOMAIN new.pnl = {}
  <2>1. new \in Check
    BY <1>q, NoCheckIs DEF Check
  <2>2. /\ new.pc = "reading" /\ new.balance = NoCheck.balance /\ new.rest = NoCheck.rest
        /\ new.pnl = NoCheck.pnl
    BY <1>q, NoCheckIs DEF Check
  <2> QED
    BY <1>q, <2>1, <2>2, NoCheckIs
<1>n. /\ \A ub : Looked(new, ub) /\ Looked(NoCheck, ub)
      /\ \A held, money : UpToDate(new, held, money) /\ UpToDate(NoCheck, held, money)
  BY <1>r, NoCheckIs DEF Looked, UpToDate
<1>1. CASE UNCHANGED watchVars
  BY <1>1, <1>p, Unlooked DEF watchVars
<1>2. ASSUME NEW p \in Held, OpenPosition(p) PROVE WatchInv'
  BY <1>2, OpeningKeeps DEF OpenPosition, market
<1>3. ASSUME NEW p \in Held, Reconcile(p) \/ Unavailable(p) \/ Available(p) PROVE WatchInv'
  <2>1. UNCHANGED <<unborn, open, balance, check, needless, price, settling>>
    BY <1>3 DEF Reconcile, Unavailable, Available, market, monitor
  <2> QED
    BY <1>p, <2>1, Unlooked
<1>4. ASSUME NEW p \in Held, CloseByUser(p) PROVE WatchInv'
  <2>1. p \in open /\ price[p] \in Int /\ Settle(p, price[p]) /\ check' = Disturbed(check)
        /\ UNCHANGED <<unborn, needless, price, settling>>
    BY <1>4, <1>p DEF CloseByUser, market
  <2> QED
    BY <1>p, <2>1, ClosingDisturbs
<1>5. ASSUME NEW p \in Held, NEW bid \in Quotes, Quote(p, bid) PROVE WatchInv'
  <2>1. bid \in Int
    BY WatchAssumption
  <2>2. /\ price' = [price EXCEPT ![p] = bid] /\ UNCHANGED <<unborn, open, balance, needless>>
        /\ settling' = [settling EXCEPT ![p] = bid] \/ settling' = settling
        /\ check' = [check EXCEPT !["tick"] = new] \/ check' = check
    BY <1>5, <1>r DEF Quote
  <2>3. price' \in [Held -> Int] /\ settling' \in [Held -> Int] /\ "tick" \in Guards
    BY <1>p, <2>1, <2>2 DEF Guards
  <2> QED
    BY <1>r, <1>n, <2>2, <2>3, CheckMoves, Unlooked
<1>6. ASSUME NEW p \in Held, TriggerSettlement(p) PROVE WatchInv'
  <2>1. settling' = [settling EXCEPT ![p] = 0] /\ UNCHANGED <<unborn, needless, price>>
    BY <1>6 DEF TriggerSettlement, market
  <2>2. price' \in [Held -> Int] /\ settling' \in [Held -> Int] /\ settling[p] \in Int
    BY <1>p, <2>1
  <2>3. CASE p \in open /\ Settle(p, settling[p]) /\ check' = Disturbed(check)
    BY <2>1, <2>2, <2>3, ClosingDisturbs
  <2>4. CASE UNCHANGED <<open, balance, check>>
    BY <2>1, <2>2, <2>4, Unlooked
  <2> QED
    BY <1>6, <2>3, <2>4 DEF TriggerSettlement
<1>7. ASSUME NEW p \in Held, Watchdog(p) PROVE WatchInv'
  <2>1. UNCHANGED <<unborn, needless, price, settling>> /\ p \in open /\ price[p] \in Int
    BY <1>7, <1>p DEF Watchdog, WithStop, market
  <2>2. CASE Settle(p, price[p]) /\ check' = Disturbed(check)
    BY <1>p, <2>1, <2>2, ClosingDisturbs
  <2>3. CASE UNCHANGED <<open, balance, check>>
    BY <1>p, <2>1, <2>3, Unlooked
  <2> QED
    BY <1>7, <2>2, <2>3 DEF Watchdog
<1>8. ASSUME NEW g \in Guards, ReadWallet(g) PROVE WatchInv'
  <2>1. PICK c \in Check : /\ c = check[g] /\ c.pc = "reading"
                           /\ Looked(c, unborn) /\ UpToDate(c, open, balance)
    BY <1>8 DEF ReadWallet, WatchInv, WatchTypeOK
  <2>2. PICK k : k = [c EXCEPT !.balance = balance]
    OBVIOUS
  <2>3. /\ k \in Check /\ k.pc = "reading" /\ k.balance = balance /\ k.rest = c.rest /\ k.pnl = c.pnl
    BY <1>t, <2>1, <2>2 DEF Check, WatchTypeOK
  <2>4. /\ check' = [check EXCEPT ![g] = k]
        /\ UNCHANGED <<unborn, open, balance, needless, price, settling>>
    BY <1>8, <2>1, <2>2 DEF ReadWallet, market, monitor
  <2>5. Looked(k, unborn) /\ UpToDate(k, open, balance)
    BY <2>1, <2>3 DEF Looked, UpToDate
  <2> QED
    BY <1>p, <2>3, <2>4, <2>5, CheckMoves
<1>9. ASSUME NEW g \in Guards, EndCheck(g) PROVE WatchInv'
  <2>1. /\ check' = [check EXCEPT ![g] = NoCheck]
        /\ UNCHANGED <<unborn, open, balance, needless, price, settling>>
    BY <1>9 DEF EndCheck, market
  <2> QED
    BY <1>p, <1>n, <2>1, NoCheckIs, CheckMoves
<1>10. CASE RefreshWallet
  BY <1>10, <1>p, Unlooked DEF RefreshWallet, market
<1>11. CASE StartScan
  <2>1. /\ check' = [check EXCEPT !["scan"] = new] /\ "scan" \in Guards
        /\ UNCHANGED <<unborn, open, balance, needless, price, settling>>
    BY <1>11, <1>r DEF StartScan, market, monitor, Guards
  <2> QED
    BY <1>p, <1>r, <1>n, <2>1, CheckMoves
<1> QED
  BY <1>1, <1>2, <1>3, <1>4, <1>5, <1>6, <1>7, <1>8, <1>9, <1>10, <1>11, AssessIs, LiquidateIs
     DEF WatchNext

\* Whatever quotes, closings, new positions and failures come between its steps, a
\* stop-out that nobody crosses closes no position of an account that is at 50 % or
\* above (trading-service/stopout.engine.ts).
THEOREM StopOutIsMinimal == Spec => []MinimalStopOut
<1>1. WatchInv => MinimalStopOut
  BY DEF WatchInv
<1>2. Init => WatchInv
  BY WatchInitially DEF Init
<1>3. WatchInv /\ [Next]_vars => WatchInv'
  <2>1. [Next]_vars => [WatchNext]_watchVars
    BY DEF Next, vars, BesideAccount, BesideAlgo, BesidePilot
  <2> QED
    BY <2>1, WatchStep
<1> QED
  BY <1>1, <1>2, <1>3, PTL DEF Spec

=============================================================================

------------------------------ MODULE FiniteSums ------------------------------
(***************************************************************************)
(* Sums over finite sets: what the folds of the community modules compute, *)
(* in whatever order they take the members, and what becomes of a sum when *)
(* its set does.  The induction is on the number of members, by a least    *)
(* counterexample.                                                         *)
(***************************************************************************)
EXTENDS Integers, FiniteSets, FiniteSetTheorems, WellFoundedInduction, TLAPS

\* A non-empty set of naturals has a least member.
LEMMA LeastMember ==
    ASSUME NEW T, T \subseteq Nat, T # {}
    PROVE  \E x \in T : \A y \in T : x <= y
<1> DEFINE Below == {p \in Nat \X Nat : p[1] < p[2]}
<1>1. ~ \E f \in [Nat -> Nat] : \A n \in Nat : f[n + 1] < f[n]
  BY NatLessThanWellFounded DEF OpToRel, IsWellFoundedOn
<1>2. PICK x \in T : \A y \in T : ~ (<<y, x>> \in Below)
  BY <1>1, WFMin DEF IsWellFoundedOn
<1>3. \A y \in T : y < x => <<y, x>> \in Below
  OBVIOUS
<1>4. \A y \in T : ~ (y < x)
  BY <1>2, <1>3
<1> QED
  BY <1>4
---------------------------------------------------------------------------
\* The member a fold takes next, and what it leaves.
Taken(s) == CHOOSE x \in s : TRUE

\* g has the sums of f over the subsets of U that have n members or fewer.
SumsTo(g, f, U, n) ==
    /\ g \in [SUBSET U -> Int] /\ g[{}] = 0
    /\ \A s \in SUBSET U : Cardinality(s) <= n => \A x \in s : g[s] = f[x] + g[s \ {x}]
Sums(g, f, U) ==
    /\ g \in [SUBSET U -> Int] /\ g[{}] = 0
    /\ \A s \in SUBSET U : \A x \in s : g[s] = f[x] + g[s \ {x}]

LEMMA OneFewer ==
    ASSUME NEW U, IsFiniteSet(U), NEW s \in SUBSET U
    PROVE  /\ Cardinality(s) \in Nat /\ Cardinality(s) <= Cardinality(U)
           /\ \A x \in s : s \ {x} \in SUBSET U /\ Cardinality(s \ {x}) = Cardinality(s) - 1
           /\ s # {} => Taken(s) \in s
<1>1. IsFiniteSet(s) /\ Cardinality(s) <= Cardinality(U)
  BY FS_Subset
<1>2. Cardinality(s) \in Nat
  BY <1>1, FS_CardinalityType
<1>3. ASSUME NEW x \in s PROVE s \ {x} \in SUBSET U /\ Cardinality(s \ {x}) = Cardinality(s) - 1
  BY <1>1, FS_RemoveElement
<1>4. s # {} => Taken(s) \in s
  BY DEF Taken
<1> QED
  BY <1>1, <1>2, <1>3, <1>4

LEMMA SumsExist ==
    ASSUME NEW U, IsFiniteSet(U), NEW f \in [U -> Int]
    PROVE  \E g : Sums(g, f, U)
<1> DEFINE T == {n \in Nat : ~ \E g : SumsTo(g, f, U, n)}
<1>1. T = {}
  <2>1. SUFFICES ASSUME T # {} PROVE FALSE
    OBVIOUS
  <2>2. PICK n \in T : \A y \in T : n <= y
    BY <2>1, LeastMember
  <2>3. CASE n = 0
    <3> DEFINE zero == [s \in SUBSET U |-> 0]
    <3>1. zero \in [SUBSET U -> Int] /\ zero[{}] = 0
      OBVIOUS
    <3>2. ASSUME NEW s \in SUBSET U, Cardinality(s) <= 0, NEW x \in s PROVE FALSE
      <4>1. PICK c \in Nat, d \in Nat : c = Cardinality(s) /\ d = Cardinality(s \ {x}) /\ d = c - 1
        BY OneFewer
      <4> QED
        BY <3>2, <4>1
    <3>3. SumsTo(zero, f, U, 0)
      BY <3>1, <3>2 DEF SumsTo
    <3> QED
      BY <2>2, <2>3, <3>3
  <2>4. CASE n # 0
    <3>1. PICK m \in Nat : n = m + 1
      BY <2>4
    <3>2. PICK g : SumsTo(g, f, U, m)
      BY <2>2, <3>1
    <3> DEFINE h == [s \in SUBSET U |-> IF s = {} THEN 0 ELSE f[Taken(s)] + g[s \ {Taken(s)}]]
    <3>3. ASSUME NEW s \in SUBSET U
          PROVE  /\ h[s] = IF s = {} THEN 0 ELSE f[Taken(s)] + g[s \ {Taken(s)}]
                 /\ g[s] \in Int /\ \A x \in s : f[x] \in Int /\ g[s \ {x}] \in Int
      BY <3>2 DEF SumsTo
    <3>4. h \in [SUBSET U -> Int]
      <4>1. ASSUME NEW s \in SUBSET U PROVE h[s] \in Int
        <5>1. CASE s = {}
          BY <3>3, <5>1
        <5>2. CASE s # {}
          <6>1. PICK x \in s : x = Taken(s)
            BY <5>2, OneFewer
          <6>2. h[s] = f[x] + g[s \ {x}] /\ f[x] \in Int /\ g[s \ {x}] \in Int
            BY <3>3, <5>2, <6>1
          <6> QED
            BY <6>2
        <5> QED
          BY <5>1, <5>2
      <4> QED
        BY <4>1
    <3>5. h[{}] = 0
      BY <3>3
    <3>6. ASSUME NEW s \in SUBSET U, Cardinality(s) <= m
          PROVE  h[s] = g[s]
      <4>1. CASE s = {}
        BY <3>2, <3>3, <4>1 DEF SumsTo
      <4>2. CASE s # {}
        BY <3>2, <3>3, <3>6, <4>2, OneFewer DEF SumsTo
      <4> QED
        BY <4>1, <4>2
    <3>7. ASSUME NEW s \in SUBSET U, Cardinality(s) <= n, NEW x \in s
          PROVE  h[s] = f[x] + h[s \ {x}]
      <4>1. PICK y \in s : y = Taken(s)
        BY OneFewer
      <4>2. h[s] = f[y] + g[s \ {y}]
        BY <3>3, <4>1
      <4>3. \A z \in s : s \ {z} \in SUBSET U /\ Cardinality(s \ {z}) \in Nat /\ Cardinality(s \ {z}) <= m
        BY <3>1, <3>7, OneFewer
      <4>4. h[s \ {x}] = g[s \ {x}]
        BY <3>6, <4>3
      <4>5. CASE x = y
        BY <4>2, <4>4, <4>5
      <4>6. CASE x # y
        <5>1. g[s \ {y}] = f[x] + g[(s \ {y}) \ {x}]
          BY <3>2, <4>3, <4>6 DEF SumsTo
        <5>2. g[s \ {x}] = f[y] + g[(s \ {x}) \ {y}]
          BY <3>2, <4>3, <4>6 DEF SumsTo
        <5>3. (s \ {y}) \ {x} = (s \ {x}) \ {y}
          OBVIOUS
        <5>4. PICK r \in SUBSET U : r = (s \ {x}) \ {y}
          OBVIOUS
        <5>5. f[x] \in Int /\ f[y] \in Int /\ g[r] \in Int
          BY <3>3, <5>4
        <5>6. PICK a \in Int, b \in Int, c \in Int : a = f[x] /\ b = f[y] /\ c = g[r]
          BY <5>5
        <5>7. g[s \ {y}] = a + c /\ g[s \ {x}] = b + c
          BY <5>1, <5>2, <5>3, <5>4, <5>6
        <5>8. h[s] = b + (a + c) /\ h[s \ {x}] = b + c
          BY <4>2, <4>4, <5>6, <5>7
        <5>9. b + (a + c) = a + (b + c)
          OBVIOUS
        <5> QED
          BY <5>6, <5>8, <5>9
      <4> QED
        BY <4>5, <4>6
    <3>8. SumsTo(h, f, U, n)
      BY <3>4, <3>5, <3>7 DEF SumsTo
    <3> QED
      BY <2>2, <3>8
  <2> QED
    BY <2>3, <2>4
<1>2. Cardinality(U) \in Nat
  BY FS_CardinalityType
<1>3. PICK g : SumsTo(g, f, U, Cardinality(U))
  BY <1>1, <1>2
<1>4. Sums(g, f, U)
  BY <1>3, OneFewer DEF Sums, SumsTo
<1> QED
  BY <1>4

\* A fold over part of U, taken in any order, gives the same sums.
Folded(r, f, T) ==
    r = [s \in SUBSET T |-> IF s = {} THEN 0 ELSE f[Taken(s)] + r[s \ {Taken(s)}]]

LEMMA FoldExists ==
    ASSUME NEW U, IsFiniteSet(U), NEW f \in [U -> Int], NEW g, Sums(g, f, U), NEW T \in SUBSET U
    PROVE  \E r : Folded(r, f, T)
<1> DEFINE r == [s \in SUBSET T |-> g[s]]
<1>1. ASSUME NEW s \in SUBSET T
      PROVE  g[s] = IF s = {} THEN 0 ELSE f[Taken(s)] + r[s \ {Taken(s)}]
  BY OneFewer DEF Sums
<1>2. r = [s \in SUBSET T |-> IF s = {} THEN 0 ELSE f[Taken(s)] + r[s \ {Taken(s)}]]
  BY <1>1
<1> QED
  BY <1>2 DEF Folded

LEMMA FoldIsSum ==
    ASSUME NEW U, IsFiniteSet(U), NEW f \in [U -> Int], NEW g, Sums(g, f, U), NEW T \in SUBSET U,
           NEW r, Folded(r, f, T)
    PROVE  r[T] = g[T]
<1> DEFINE B == {s \in SUBSET T : r[s] # g[s]}
           N == {Cardinality(s) : s \in B}
<1>1. B = {}
  <2>1. SUFFICES ASSUME B # {} PROVE FALSE
    OBVIOUS
  <2>2. N \subseteq Nat /\ N # {}
    BY <2>1, OneFewer
  <2>3. PICK n \in N : \A y \in N : n <= y
    <3> HIDE DEF N
    <3> QED
      BY <2>2, LeastMember
  <2>4. PICK s \in B : n = Cardinality(s)
    BY <2>3
  <2>5. s \in SUBSET U /\ s \in SUBSET T /\ r[s] # g[s]
    BY <2>4
  <2>6. r[s] = IF s = {} THEN 0 ELSE f[Taken(s)] + r[s \ {Taken(s)}]
    BY <2>5 DEF Folded
  <2>7. CASE s = {}
    BY <2>5, <2>6, <2>7 DEF Sums
  <2>8. CASE s # {}
    <3>1. PICK y \in s : y = Taken(s)
      BY <2>5, <2>8, OneFewer
    <3>2. Cardinality(s) \in Nat /\ Cardinality(s \ {y}) = Cardinality(s) - 1
      BY <2>5, <3>1, OneFewer
    <3>3. s \ {y} \in SUBSET T /\ s \ {y} \notin B
      BY <2>3, <2>4, <2>5, <3>2
    <3>4. r[s] = f[y] + r[s \ {y}] /\ r[s \ {y}] = g[s \ {y}] /\ g[s] = f[y] + g[s \ {y}]
      BY <2>5, <2>6, <2>8, <3>1, <3>3 DEF Sums
    <3> QED
      BY <2>5, <3>4
  <2> QED
    BY <2>7, <2>8
<1> QED
  BY <1>1

\* One more member adds one term, whatever is added was not there.
LEMMA SumOfMore ==
    ASSUME NEW U, IsFiniteSet(U), NEW f \in [U -> Int], NEW g, Sums(g, f, U),
           NEW s \in SUBSET U, NEW x \in U
    PROVE  /\ g[s] \in Int /\ g[s \cup {x}] \in Int /\ g[s \ {x}] \in Int
           /\ x \notin s => g[s \cup {x}] = g[s] + f[x]
           /\ x \in s => g[s \ {x}] = g[s] - f[x]
<1>1. g[s] \in Int /\ g[s \cup {x}] \in Int /\ g[s \ {x}] \in Int /\ f[x] \in Int
  BY DEF Sums
<1>2. ASSUME x \notin s PROVE g[s \cup {x}] = g[s] + f[x]
  <2>1. s \cup {x} \in SUBSET U /\ x \in s \cup {x} /\ (s \cup {x}) \ {x} = s
    BY <1>2
  <2>2. g[s \cup {x}] = f[x] + g[s]
    BY <2>1 DEF Sums
  <2> QED
    BY <1>1, <2>2
<1>3. ASSUME x \in s PROVE g[s \ {x}] = g[s] - f[x]
  <2>1. g[s] = f[x] + g[s \ {x}]
    BY <1>3 DEF Sums
  <2> QED
    BY <1>1, <2>1
<1> QED
  BY <1>1, <1>2, <1>3

\* A larger set has the larger sum, of terms that are not negative.
LEMMA SumsGrow ==
    ASSUME NEW U, IsFiniteSet(U), NEW f \in [U -> Int], NEW g, Sums(g, f, U),
           NEW t \in SUBSET U, NEW s \in SUBSET t, \A x \in t \ s : f[x] >= 0
    PROVE  g[s] \in Int /\ g[t] \in Int /\ g[s] <= g[t]
<1> DEFINE B == {r \in SUBSET t : s \subseteq r /\ ~ (g[s] <= g[r])}
           N == {Cardinality(r) : r \in B}
<1>1. ASSUME NEW r \in SUBSET t PROVE g[r] \in Int
  BY DEF Sums
<1>2. B = {}
  <2>1. SUFFICES ASSUME B # {} PROVE FALSE
    OBVIOUS
  <2>2. N \subseteq Nat /\ N # {}
    BY <2>1, OneFewer
  <2>3. PICK n \in N : \A y \in N : n <= y
    <3> HIDE DEF N
    <3> QED
      BY <2>2, LeastMember
  <2>4. PICK r \in B : n = Cardinality(r)
    BY <2>3
  <2>5. r \in SUBSET U /\ r \in SUBSET t /\ s \subseteq r /\ ~ (g[s] <= g[r])
    BY <2>4
  <2>6. PICK x \in r : x \notin s
    <3>1. g[s] \in Int
      BY <1>1
    <3>2. r # s
      BY <2>5, <3>1
    <3> QED
      BY <2>5, <3>2
  <2>7. r \ {x} \in SUBSET t /\ s \subseteq r \ {x} /\ r \ {x} \notin B
    <3>1. Cardinality(r) \in Nat /\ Cardinality(r \ {x}) = Cardinality(r) - 1
      BY <2>5, OneFewer
    <3> QED
      BY <2>3, <2>4, <2>5, <2>6, <3>1
  <2>8. g[s] <= g[r \ {x}]
    BY <2>7
  <2>9. PICK a \in Int, b \in Int, c \in Int, d \in Int :
           a = g[s] /\ b = g[r \ {x}] /\ c = f[x] /\ d = g[r] /\ c >= 0 /\ d = c + b
    <3>1. f[x] \in Int /\ f[x] >= 0 /\ g[r] = f[x] + g[r \ {x}]
      BY <2>5, <2>6 DEF Sums
    <3> QED
      BY <1>1, <2>5, <2>7, <3>1
  <2> QED
    BY <2>5, <2>8, <2>9
<1>3. t \notin B
  BY <1>2
<1> QED
  BY <1>1, <1>3

LEMMA SumsNotNegative ==
    ASSUME NEW U, IsFiniteSet(U), NEW f \in [U -> Int], NEW g, Sums(g, f, U),
           NEW t \in SUBSET U, \A x \in t : f[x] >= 0
    PROVE  g[t] \in Nat
<1>1. {} \in SUBSET t /\ g[{}] = 0
  BY DEF Sums
<1>2. g[{}] <= g[t] /\ g[t] \in Int
  BY <1>1, SumsGrow
<1> QED
  BY <1>1, <1>2

\* Sums of sets that share no member add up.
LEMMA SumsAdd ==
    ASSUME NEW U, IsFiniteSet(U), NEW f \in [U -> Int], NEW g, Sums(g, f, U),
           NEW s \in SUBSET U, NEW t \in SUBSET U, s \cap t = {}
    PROVE  g[s] \in Int /\ g[t] \in Int /\ g[s \cup t] = g[s] + g[t]
<1> DEFINE B == {r \in SUBSET t : g[s \cup r] # g[s] + g[r]}
           N == {Cardinality(r) : r \in B}
<1>1. ASSUME NEW r \in SUBSET U PROVE g[r] \in Int
  BY DEF Sums
<1>2. B = {}
  <2>1. SUFFICES ASSUME B # {} PROVE FALSE
    OBVIOUS
  <2>2. N \subseteq Nat /\ N # {}
    <3>1. \A r \in B : r \in SUBSET U
      OBVIOUS
    <3>2. \A r \in B : Cardinality(r) \in Nat
      BY <3>1, OneFewer
    <3> HIDE DEF B
    <3> QED
      BY <2>1, <3>2
  <2>3. PICK n \in N : \A y \in N : n <= y
    <3> HIDE DEF N
    <3> QED
      BY <2>2, LeastMember
  <2>4. PICK r \in B : n = Cardinality(r)
    BY <2>3
  <2>5. r \in SUBSET U /\ r \in SUBSET t /\ g[s \cup r] # g[s] + g[r]
    BY <2>4
  <2>6. PICK x : x \in r
    <3>1. g[s] \in Int /\ g[{}] = 0
      BY <1>1 DEF Sums
    <3>2. g[s] = g[s] + 0
      BY <3>1
    <3>3. s \cup {} = s
      OBVIOUS
    <3>4. r # {}
      BY <2>5, <3>1, <3>2, <3>3
    <3> QED
      BY <3>4
  <2>7. r \ {x} \in SUBSET t /\ r \ {x} \notin B
    <3>1. Cardinality(r) \in Nat /\ Cardinality(r \ {x}) = Cardinality(r) - 1
      BY <2>5, <2>6, OneFewer
    <3>2. r \ {x} \in SUBSET t
      BY <2>5
    <3>3. ASSUME r \ {x} \in B PROVE FALSE
      <4>1. n <= Cardinality(r \ {x})
        BY <2>3, <3>3
      <4> QED
        BY <2>4, <3>1, <4>1
    <3> QED
      BY <3>2, <3>3
  <2>8. (s \cup r) \ {x} = s \cup (r \ {x}) /\ x \in s \cup r /\ s \cup r \in SUBSET U
    BY <2>5, <2>6
  <2>9. PICK a \in Int, b \in Int, c \in Int, d \in Int :
           a = g[s] /\ b = g[r \ {x}] /\ c = f[x] /\ d = g[s \cup (r \ {x})]
    <3>1. f[x] \in Int
      BY <2>5, <2>6
    <3> QED
      BY <1>1, <2>5, <3>1
  <2>10. d = a + b
    BY <2>7, <2>9
  <2>11. g[r] = c + b /\ g[s \cup r] = c + d
    <3>1. g[r] = f[x] + g[r \ {x}]
      BY <2>5, <2>6 DEF Sums
    <3>2. PICK q \in SUBSET U : q = s \cup r /\ x \in q /\ q \ {x} = s \cup (r \ {x})
      BY <2>8
    <3>3. g[q] = f[x] + g[q \ {x}]
      BY <3>2 DEF Sums
    <3> QED
      BY <2>9, <3>1, <3>2, <3>3
  <2>12. c + d = a + (c + b)
    BY <2>10
  <2> QED
    BY <2>5, <2>9, <2>11, <2>12
<1>3. t \notin B
  BY <1>2
<1> QED
  BY <1>1, <1>3

\* The same two facts, of a set that is named.
LEMMA SumOfOneMore ==
    ASSUME NEW U, IsFiniteSet(U), NEW f \in [U -> Int], NEW g, Sums(g, f, U),
           NEW s \in SUBSET U, NEW x \in U, x \notin s, NEW u, u = s \cup {x}
    PROVE  g[u] = g[s] + f[x]
<1>1. u \in SUBSET U /\ x \in u /\ u \ {x} = s
  OBVIOUS
<1>2. g[u] = f[x] + g[u \ {x}]
  BY <1>1 DEF Sums
<1>3. g[u] = f[x] + g[s]
  BY <1>1, <1>2
<1>4. PICK a \in Int, b \in Int : a = g[s] /\ b = f[x]
  BY DEF Sums
<1>5. a + b = b + a
  OBVIOUS
<1> QED
  BY <1>3, <1>4, <1>5

LEMMA SumOfTwo ==
    ASSUME NEW U, IsFiniteSet(U), NEW f \in [U -> Int], NEW g, Sums(g, f, U),
           NEW s \in SUBSET U, NEW t \in SUBSET U, s \cap t = {}, NEW u, u = s \cup t
    PROVE  g[u] = g[s] + g[t]
BY SumsAdd

LEMMA SumsNotPositive ==
    ASSUME NEW U, IsFiniteSet(U), NEW f \in [U -> Int], NEW g, Sums(g, f, U), \A x \in U : f[x] <= 0
    PROVE  g[U] \in Int /\ g[U] <= 0
<1> DEFINE h == [s \in SUBSET U |-> -g[s]]
           e == [x \in U |-> -f[x]]
<1>1. g \in [SUBSET U -> Int] /\ g[{}] = 0
      /\ \A s \in SUBSET U : \A x \in s : g[s] = f[x] + g[s \ {x}]
  BY DEF Sums
<1>2. h \in [SUBSET U -> Int] /\ h[{}] = 0
  BY <1>1
<1>3. ASSUME NEW s \in SUBSET U, NEW x \in s PROVE h[s] = e[x] + h[s \ {x}]
  <2>1. PICK a \in Int, b \in Int, c \in Int : a = g[s] /\ b = f[x] /\ c = g[s \ {x}]
    <3>1. s \ {x} \in SUBSET U /\ x \in U
      OBVIOUS
    <3> QED
      BY <1>1, <3>1
  <2>2. a = b + c
    BY <1>1, <2>1
  <2>3. h[s] = -a /\ e[x] = -b /\ h[s \ {x}] = -c
    BY <2>1
  <2>4. -a = -b + -c
    BY <2>2
  <2> QED
    BY <2>3, <2>4
<1>4. Sums(h, e, U)
  BY <1>2, <1>3 DEF Sums
<1>5. e \in [U -> Int] /\ \A x \in U : e[x] >= 0
  OBVIOUS
<1>6. PICK t \in SUBSET U : t = U
  OBVIOUS
<1>7. h[t] \in Nat
  <2> HIDE DEF h, e
  <2> QED
    BY <1>4, <1>5, <1>6, SumsNotNegative
<1>8. h[t] = -g[U] /\ g[U] \in Int
  BY <1>1, <1>6
<1> HIDE DEF h, e
<1> QED
  BY <1>7, <1>8

\* Functions that agree on a set have the same sum over it.
LEMMA SumsAgree ==
    ASSUME NEW U, IsFiniteSet(U), NEW f \in [U -> Int], NEW g, Sums(g, f, U),
           NEW V, IsFiniteSet(V), NEW e \in [V -> Int], NEW h, Sums(h, e, V),
           NEW T, T \in SUBSET U, T \in SUBSET V, \A x \in T : f[x] = e[x]
    PROVE  g[T] = h[T]
<1>1. PICK r : Folded(r, f, T)
  BY FoldExists
<1>2. ASSUME NEW s \in SUBSET T, s # {} PROVE f[Taken(s)] = e[Taken(s)]
  BY <1>2 DEF Taken
<1>3. Folded(r, e, T)
  <2>1. \A s \in SUBSET T : (IF s = {} THEN 0 ELSE f[Taken(s)] + r[s \ {Taken(s)}])
                              = (IF s = {} THEN 0 ELSE e[Taken(s)] + r[s \ {Taken(s)}])
    BY <1>2
  <2> QED
    BY <1>1, <2>1 DEF Folded
<1>4. r[T] = g[T] /\ r[T] = h[T]
  BY <1>1, <1>3, FoldIsSum
<1> QED
  BY <1>4
==============================================================================

-------------------------- MODULE IterationTheorems --------------------------
(***************************************************************************)
(* Facts about natural numbers and iteration which the other proofs rest   *)
(* on.  They take sets and functions for the operators of the library's    *)
(* induction theorems.                                                     *)
(***************************************************************************)
EXTENDS Integers, FiniteSetTheorems, WellFoundedInduction, TLAPS

\* A set of natural numbers has a least element.
LEMMA LeastNatural ==
  ASSUME NEW S \in SUBSET Nat, S # {}
  PROVE  \E m \in S : \A k \in S : m <= k
<1>1. PICK m \in S : \A k \in S : ~ (<<k, m>> \in OpToRel(<, Nat))
  BY NatLessThanWellFounded, WFMin
<1>2. \A k \in S : ~ (k < m)
  <2> SUFFICES ASSUME NEW k \in S, k < m PROVE FALSE
    OBVIOUS
  <2>1. <<k, m>> \in OpToRel(<, Nat)
    BY DEF OpToRel
  <2> QED
    BY <2>1, <1>1
<1>3. m \in Nat /\ \A k \in S : k \in Nat
  OBVIOUS
<1> QED
  BY <1>2, <1>3

\* A set of natural numbers up to N has a greatest element.
LEMMA GreatestNatural ==
  ASSUME NEW S \in SUBSET Nat, S # {}, NEW N \in Nat, \A k \in S : k <= N
  PROVE  \E m \in S : \A k \in S : k <= m
<1> DEFINE T == {i \in Nat : N - i \in S}
<1>1. T # {}
  <2>1. PICK k \in S : TRUE
    OBVIOUS
  <2>2. N - k \in Nat /\ N - (N - k) = k
    OBVIOUS
  <2> QED
    BY <2>1, <2>2
<1>2. PICK i \in T : \A j \in T : i <= j
  BY <1>1, LeastNatural
<1>3. \A k \in S : k <= N - i
  <2> SUFFICES ASSUME NEW k \in S PROVE k <= N - i
    OBVIOUS
  <2>1. N - k \in Nat /\ N - (N - k) = k
    OBVIOUS
  <2>2. N - k \in T
    BY <2>1
  <2> QED
    BY <1>2, <2>2
<1> QED
  BY <1>3

\* Induction over the natural numbers, for a set.
LEMMA SetInduction ==
  ASSUME NEW S, 0 \in S, \A n \in Nat : n \in S => n + 1 \in S
  PROVE  Nat \subseteq S
<1> DEFINE T == Nat \ S
<1> SUFFICES ASSUME T # {} PROVE FALSE
  OBVIOUS
<1>1. PICK m \in T : \A k \in T : m <= k
  BY LeastNatural
<1>2. m - 1 \in Nat /\ m - 1 + 1 = m
  OBVIOUS
<1>3. m - 1 \in S
  BY <1>1, <1>2
<1> QED
  BY <1>2, <1>3

IsMapOn(F, T) == F \in [T -> T]

IsIteration(g, F, c, T, N) ==
  /\ g \in [0 .. N -> T]
  /\ g[0] = c
  /\ \A n \in 1 .. N : g[n] = F[g[n - 1]]

\* A function can be iterated N times.
LEMMA Iterates ==
  ASSUME NEW T, NEW F, IsMapOn(F, T), NEW c \in T, NEW N \in Nat
  PROVE  \E g : IsIteration(g, F, c, T, N)
<1>0. F \in [T -> T]
  BY DEF IsMapOn
<1> DEFINE Fits(g, n) == g[0] = c /\ \A i \in 1 .. n : g[i] = F[g[i - 1]]
           S == {n \in Nat : \E g \in [0 .. n -> T] : Fits(g, n)}
<1>1. 0 \in S
  <2> DEFINE g == [i \in 0 .. 0 |-> c]
  <2>1. g \in [0 .. 0 -> T] /\ Fits(g, 0)
    OBVIOUS
  <2> QED
    BY <2>1
<1>2. ASSUME NEW n \in Nat, n \in S PROVE n + 1 \in S
  <2>1. PICK g \in [0 .. n -> T] : Fits(g, n)
    BY <1>2
  <2> DEFINE h == [i \in 0 .. (n + 1) |-> IF i = n + 1 THEN F[g[n]] ELSE g[i]]
  <2>2. g[n] \in T /\ F[g[n]] \in T
    BY <1>0, <2>1
  <2>3. \A i \in 0 .. n : h[i] = g[i]
    OBVIOUS
  <2>4. h[n + 1] = F[h[n]]
    BY <2>3
  <2>5. \A i \in 0 .. (n + 1) : h[i] \in T
    <3> SUFFICES ASSUME NEW i \in 0 .. (n + 1) PROVE h[i] \in T
      OBVIOUS
    <3>1. i = n + 1 \/ i \in 0 .. n
      OBVIOUS
    <3> QED
      BY <2>2, <2>3, <3>1
  <2>6. h \in [0 .. (n + 1) -> T]
    BY <2>5
  <2>7. ASSUME NEW i \in 1 .. (n + 1) PROVE h[i] = F[h[i - 1]]
    <3>1. CASE i = n + 1
      BY <2>4, <3>1
    <3>2. CASE i # n + 1
      <4>1. i \in 1 .. n /\ i \in 0 .. n /\ i - 1 \in 0 .. n
        BY <3>2
      <4> QED
        BY <4>1, <2>1, <2>3
    <3> QED
      BY <3>1, <3>2
  <2>8. h[0] = c
    BY <2>1, <2>3
  <2>9. Fits(h, n + 1)
    BY <2>7, <2>8
  <2> HIDE DEF h, Fits
  <2> QED
    BY <2>6, <2>9
<1> HIDE DEF Fits
<1>3. Nat \subseteq S
  <2> HIDE DEF S
  <2> QED
    BY <1>1, <1>2, SetInduction
<1>4. \E g \in [0 .. N -> T] : Fits(g, N)
  BY <1>3
<1> QED
  BY <1>4 DEF Fits, IsIteration

-----------------------------------------------------------------------------
(* Recursive functions: each value depends on that of a next argument,     *)
(* whose rank is less.                                                     *)

IsRanked(S, T, next, r) ==
    /\ next \in [S -> S] /\ r \in [S -> Nat]
    /\ \A p \in S : p \notin T => r[next[p]] < r[p]

\* A set of arguments with none of least rank is empty.
LEMMA RankInduction ==
  ASSUME NEW S, NEW r \in [S -> Nat], NEW Bad \in SUBSET S,
         \A p \in Bad : \E q \in Bad : r[q] < r[p]
  PROVE  Bad = {}
<1> SUFFICES ASSUME Bad # {} PROVE FALSE
  OBVIOUS
<1> DEFINE ranks == {r[p] : p \in Bad}
<1>1. ranks \in SUBSET Nat /\ ranks # {}
  OBVIOUS
<1>2. PICK m \in ranks : \A k \in ranks : m <= k
  BY <1>1, LeastNatural
<1>3. PICK p \in Bad : m = r[p]
  BY <1>2
<1>4. PICK q \in Bad : r[q] < r[p]
  OBVIOUS
<1>5. r[q] \in ranks /\ r[q] \in Nat /\ r[p] \in Nat
  OBVIOUS
<1> QED
  BY <1>2, <1>3, <1>4, <1>5

IsRecursion(S, V, T, v, next, G, r) == v \in [S -> V] /\ G \in [S \X V -> V] /\ IsRanked(S, T, next, r)

Solves(f, S, V, T, v, next, G) ==
  f \in [S -> V] /\ \A p \in S : f[p] = IF p \in T THEN v[p] ELSE G[<<p, f[next[p]]>>]

LEMMA RecursiveFunctionExists ==
  ASSUME NEW S, NEW V, NEW T, NEW v, NEW next, NEW G, NEW r, IsRecursion(S, V, T, v, next, G, r)
  PROVE  \E f : Solves(f, S, V, T, v, next, G)
<1> v \in [S -> V] /\ G \in [S \X V -> V] /\ IsRanked(S, T, next, r)
  BY DEF IsRecursion
<1>0. next \in [S -> S] /\ r \in [S -> Nat] /\ \A p \in S : p \notin T => r[next[p]] < r[p]
  BY DEF IsRanked
<1> DEFINE Closed(X) ==
             /\ \A p \in S : p \in T => <<p, v[p]>> \in X
             /\ \A p \in S : \A w \in V : p \notin T /\ <<next[p], w>> \in X => <<p, G[<<p, w>>]>> \in X
           R == {q \in S \X V : \A X \in SUBSET (S \X V) : Closed(X) => q \in X}
           Made(p, w) == IF p \in T THEN w = v[p]
                         ELSE \E u \in V : <<next[p], u>> \in R /\ w = G[<<p, u>>]
\* The graph of the function: the least set which the equation closes
<1>1. Closed(R)
  <2>1. ASSUME NEW p \in S, p \in T PROVE <<p, v[p]>> \in R
    BY <2>1
  <2>2. ASSUME NEW p \in S, NEW w \in V, p \notin T, <<next[p], w>> \in R PROVE <<p, G[<<p, w>>]>> \in R
    <3>1. <<p, G[<<p, w>>]>> \in S \X V
      OBVIOUS
    <3>2. ASSUME NEW X \in SUBSET (S \X V), Closed(X) PROVE <<p, G[<<p, w>>]>> \in X
      <4>1. <<next[p], w>> \in X
        BY <2>2, <3>2
      <4> QED
        BY <2>2, <3>2, <4>1
    <3> QED
      BY <3>1, <3>2
  <2> QED
    BY <2>1, <2>2
<1>2. \A p \in S : \A w \in V : <<p, w>> \in R => Made(p, w)
  <2> DEFINE X == {q \in R : Made(q[1], q[2])}
  <2>1. X \in SUBSET (S \X V)
    OBVIOUS
  <2>2. \A p \in S : p \in T => <<p, v[p]>> \in X
    BY <1>1
  <2>3. ASSUME NEW p \in S, NEW w \in V, p \notin T, <<next[p], w>> \in X PROVE <<p, G[<<p, w>>]>> \in X
    <3>1. <<next[p], w>> \in R
      BY <2>3
    <3>2. <<p, G[<<p, w>>]>> \in R
      BY <1>1, <2>3, <3>1
    <3>3. Made(p, G[<<p, w>>])
      BY <2>3, <3>1
    <3> HIDE DEF Made, R
    <3> QED
      BY <3>2, <3>3
  <2>4. Closed(X)
    BY <2>2, <2>3
  <2>5. R \subseteq X
    BY <2>1, <2>4
  <2> HIDE DEF R, Made
  <2> QED
    BY <2>5
<1>3. R \subseteq S \X V
  OBVIOUS
<1> HIDE DEF R
\* which has a value for every argument
<1>4. \A p \in S : \E w \in V : <<p, w>> \in R
  <2> DEFINE Bad == {p \in S : ~\E w \in V : <<p, w>> \in R}
  <2>1. ASSUME NEW p \in Bad PROVE \E q \in Bad : r[q] < r[p]
    <3>1. p \notin T
      <4>1. p \in T => <<p, v[p]>> \in R
        BY <1>1
      <4>2. v[p] \in V
        OBVIOUS
      <4> QED
        BY <4>1, <4>2
    <3>2. next[p] \in S /\ r[next[p]] < r[p]
      BY <1>0, <3>1
    <3>3. ASSUME NEW w \in V, <<next[p], w>> \in R PROVE FALSE
      <4>1. <<p, G[<<p, w>>]>> \in R /\ G[<<p, w>>] \in V
        BY <1>1, <3>1, <3>3
      <4> QED
        BY <4>1
    <3> QED
      BY <3>2, <3>3
  <2>2. Bad \in SUBSET S
    OBVIOUS
  <2> HIDE DEF Bad
  <2>3. Bad = {}
    BY <1>0, <2>1, <2>2, RankInduction
  <2> QED
    BY <2>3 DEF Bad
\* and no more than one.
<1>5. \A p \in S : \A w, u \in V : <<p, w>> \in R /\ <<p, u>> \in R => w = u
  <2> DEFINE Bad == {p \in S : \E w, u \in V : <<p, w>> \in R /\ <<p, u>> \in R /\ w # u}
  <2>1. ASSUME NEW p \in Bad PROVE \E q \in Bad : r[q] < r[p]
    <3>1. PICK w \in V, u \in V : <<p, w>> \in R /\ <<p, u>> \in R /\ w # u
      OBVIOUS
    <3>2. Made(p, w) /\ Made(p, u)
      BY <1>2, <3>1
    <3>3. p \notin T
      BY <3>1, <3>2
    <3>4. PICK w1 \in V : <<next[p], w1>> \in R /\ w = G[<<p, w1>>]
      BY <3>2, <3>3
    <3>5. PICK u1 \in V : <<next[p], u1>> \in R /\ u = G[<<p, u1>>]
      BY <3>2, <3>3
    <3>6. w1 # u1
      BY <3>1, <3>4, <3>5
    <3>7. next[p] \in S /\ r[next[p]] < r[p]
      BY <1>0, <3>3
    <3> QED
      BY <3>4, <3>5, <3>6, <3>7
  <2>2. Bad \in SUBSET S
    OBVIOUS
  <2> HIDE DEF Bad
  <2>3. Bad = {}
    BY <1>0, <2>1, <2>2, RankInduction
  <2> QED
    BY <2>3 DEF Bad
<1> DEFINE f == [p \in S |-> CHOOSE w \in V : <<p, w>> \in R]
<1>6. \A p \in S : f[p] \in V /\ <<p, f[p]>> \in R
  BY <1>4
<1>7. ASSUME NEW p \in S PROVE f[p] = IF p \in T THEN v[p] ELSE G[<<p, f[next[p]]>>]
  <2>0. f[p] \in V /\ <<p, f[p]>> \in R
    BY <1>6
  <2>1. Made(p, f[p])
    BY <1>2, <2>0
  <2> HIDE DEF f
  <2>2. CASE p \in T
    BY <2>1, <2>2
  <2>3. CASE p \notin T
    <3>1. PICK u \in V : <<next[p], u>> \in R /\ f[p] = G[<<p, u>>]
      BY <2>1, <2>3
    <3>2. next[p] \in S
      BY <1>0
    <3>3. u = f[next[p]]
      BY <1>5, <1>6, <3>1, <3>2
    <3> QED
      BY <2>3, <3>1, <3>3
  <2> QED
    BY <2>2, <2>3
<1>8. f \in [S -> V]
  BY <1>6
<1> HIDE DEF f
<1> QED
  BY <1>7, <1>8 DEF Solves

-----------------------------------------------------------------------------
(* Sets which grow step by step: the n-th is made from the one before.     *)

IsGrowth(r, F, c, U, N) ==
    /\ F \in [SUBSET U -> SUBSET U] /\ c \in SUBSET U /\ N \in Nat
    /\ r[0] = c
    /\ \A n \in 1 .. N : r[n - 1] \in SUBSET U => r[n] = F[r[n - 1]]

LEMMA GrowthSteps ==
  ASSUME NEW U, NEW F, NEW c, NEW N, NEW r, IsGrowth(r, F, c, U, N)
  PROVE  /\ \A n \in 0 .. N : r[n] \in SUBSET U
         /\ \A n \in Nat : n + 1 <= N => r[n + 1] = F[r[n]]
<1>0. /\ F \in [SUBSET U -> SUBSET U] /\ c \in SUBSET U /\ N \in Nat /\ r[0] = c
      /\ \A n \in 1 .. N : r[n - 1] \in SUBSET U => r[n] = F[r[n - 1]]
  BY DEF IsGrowth
<1> DEFINE T == {n \in Nat : n <= N => r[n] \in SUBSET U}
<1>1. 0 \in T
  BY <1>0
<1>2. ASSUME NEW n \in Nat, n + 1 <= N, r[n] \in SUBSET U PROVE r[n + 1] = F[r[n]]
  <2>1. n + 1 \in 1 .. N /\ n + 1 - 1 = n
    BY <1>0, <1>2
  <2> QED
    BY <1>0, <1>2, <2>1
<1>3. ASSUME NEW n \in Nat, n \in T PROVE n + 1 \in T
  <2> SUFFICES ASSUME n + 1 <= N PROVE r[n + 1] \in SUBSET U
    OBVIOUS
  <2>1. r[n] \in SUBSET U
    BY <1>0, <1>3
  <2> QED
    BY <1>0, <1>2, <2>1
<1> HIDE DEF T
<1>4. Nat \subseteq T
  BY <1>1, <1>3, SetInduction
<1>5. \A n \in Nat : n <= N => r[n] \in SUBSET U
  BY <1>4 DEF T
<1>6. \A n \in Nat : n + 1 <= N => r[n + 1] = F[r[n]]
  BY <1>0, <1>2, <1>5
<1> QED
  BY <1>0, <1>5, <1>6

\* Growth stays inside a set which holds the start and what its subsets make.
LEMMA GrowthIsLeast ==
  ASSUME NEW U, NEW F, NEW c, NEW N, NEW r, IsGrowth(r, F, c, U, N),
         NEW S \in SUBSET U, c \subseteq S, \A X \in SUBSET S : F[X] \subseteq S
  PROVE  r[N] \subseteq S
<1>0. /\ N \in Nat /\ r[0] = c
  BY DEF IsGrowth
<1> DEFINE T == {n \in Nat : n <= N => r[n] \subseteq S}
<1>1. 0 \in T
  BY <1>0
<1>2. ASSUME NEW n \in Nat, n \in T PROVE n + 1 \in T
  <2> SUFFICES ASSUME n + 1 <= N PROVE r[n + 1] \subseteq S
    OBVIOUS
  <2>1. r[n] \subseteq S /\ r[n + 1] = F[r[n]]
    BY <1>0, <1>2, GrowthSteps
  <2> QED
    BY <2>1
<1> HIDE DEF T
<1>3. Nat \subseteq T
  BY <1>1, <1>2, SetInduction
<1> QED
  BY <1>0, <1>3 DEF T

\* Growth in a finite set ends after as many steps as the set has elements.
LEMMA GrowthEnds ==
  ASSUME NEW U, IsFiniteSet(U), NEW F, NEW c, NEW r, IsGrowth(r, F, c, U, Cardinality(U)),
         F[{}] = {}, \A X \in SUBSET U : X \subseteq F[X]
  PROVE  /\ r[Cardinality(U)] \in SUBSET U /\ c \subseteq r[Cardinality(U)]
         /\ F[r[Cardinality(U)]] = r[Cardinality(U)]
<1> DEFINE N == Cardinality(U)
<1>1. /\ N \in Nat /\ r[0] = c
      /\ \A n \in 0 .. N : r[n] \in SUBSET U
      /\ \A n \in Nat : n + 1 <= N => r[n + 1] = F[r[n]]
  <2>1. N \in Nat /\ r[0] = c
    BY DEF IsGrowth
  <2> QED
    BY <2>1, GrowthSteps
<1>2. \A X \in SUBSET U : IsFiniteSet(X) /\ Cardinality(X) \in Nat /\ Cardinality(X) <= N
  BY FS_Subset, FS_CardinalityType
<1> HIDE DEF N
<1>3. \A n \in 0 .. N : c \subseteq r[n]
  <2> DEFINE T == {n \in Nat : n <= N => c \subseteq r[n]}
  <2>1. 0 \in T
    BY <1>1
  <2>2. ASSUME NEW n \in Nat, n \in T PROVE n + 1 \in T
    <3> SUFFICES ASSUME n + 1 <= N PROVE c \subseteq r[n + 1]
      OBVIOUS
    <3>1. n <= N /\ n \in 0 .. N
      BY <1>1
    <3> QED
      BY <3>1, <2>2, <1>1
  <2> HIDE DEF T
  <2>3. Nat \subseteq T
    BY <2>1, <2>2, SetInduction
  <2> QED
    BY <2>3, <1>1 DEF T
<1>4. \E n \in 0 .. N : F[r[n]] = r[n]
  <2> SUFFICES ASSUME \A n \in 0 .. N : F[r[n]] # r[n] PROVE FALSE
    OBVIOUS
  <2> DEFINE T == {n \in Nat : n <= N => Cardinality(r[n]) > n}
  <2>1. \A n \in 0 .. N : IsFiniteSet(r[n]) /\ Cardinality(r[n]) \in Nat /\ Cardinality(r[n]) <= N
    BY <1>1, <1>2
  <2>2. 0 \in T
    <3>1. 0 \in 0 .. N
      BY <1>1
    <3>2. r[0] # {}
      BY <3>1
    <3>3. Cardinality(r[0]) # 0
      BY <3>1, <3>2, <2>1, FS_EmptySet
    <3> QED
      BY <3>1, <3>3, <2>1
  <2>3. ASSUME NEW n \in Nat, n \in T PROVE n + 1 \in T
    <3> SUFFICES ASSUME n + 1 <= N PROVE Cardinality(r[n + 1]) > n + 1
      OBVIOUS
    <3>1. n \in 0 .. N /\ n + 1 \in 0 .. N
      BY <1>1
    <3>2. r[n] \subseteq r[n + 1] /\ r[n] # r[n + 1]
      BY <3>1, <1>1
    <3>3. Cardinality(r[n]) <= Cardinality(r[n + 1]) /\ Cardinality(r[n]) # Cardinality(r[n + 1])
      BY <3>1, <3>2, <2>1, FS_Subset
    <3>4. Cardinality(r[n]) > n
      BY <3>1, <2>3
    <3> QED
      BY <3>1, <3>3, <3>4, <2>1
  <2> HIDE DEF T
  <2>4. N \in T
    BY <1>1, <2>2, <2>3, SetInduction
  <2>5. N \in 0 .. N
    BY <1>1
  <2> QED
    BY <2>4, <2>5, <2>1, <1>1 DEF T
<1>5. PICK n \in 0 .. N : F[r[n]] = r[n]
  BY <1>4
<1>6. r[N] = r[n]
  <2> DEFINE T == {i \in Nat : n + i <= N => r[n + i] = r[n]}
  <2>1. 0 \in T
    OBVIOUS
  <2>2. ASSUME NEW i \in Nat, i \in T PROVE i + 1 \in T
    <3> SUFFICES ASSUME n + (i + 1) <= N PROVE r[n + (i + 1)] = r[n]
      OBVIOUS
    <3>1. n + i \in Nat /\ n + i <= N /\ n + (i + 1) = n + i + 1
      BY <1>1
    <3>2. r[n + i + 1] = F[r[n + i]]
      BY <3>1, <1>1
    <3> QED
      BY <3>1, <3>2, <2>2, <1>5
  <2> HIDE DEF T
  <2>3. N - n \in T
    <3>1. N - n \in Nat
      BY <1>1
    <3> QED
      BY <3>1, <2>1, <2>2, SetInduction
  <2>4. n + (N - n) = N /\ N <= N
    BY <1>1
  <2> QED
    BY <2>3, <2>4 DEF T
<1>7. N \in 0 .. N
  BY <1>1
<1> QED
  BY <1>1, <1>3, <1>5, <1>6, <1>7 DEF N

IsGrower(F, c, U, N) == F \in [SUBSET U -> SUBSET U] /\ c \in SUBSET U /\ N \in Nat

\* There is such a growth.
LEMMA GrowthExists ==
  ASSUME NEW U, NEW F, NEW c, NEW N, IsGrower(F, c, U, N)
  PROVE  \E r \in [0 .. N -> SUBSET U] : r[0] = c /\ \A n \in 1 .. N : r[n] = F[r[n - 1]]
<1> DEFINE T == SUBSET U
<1>1. c \in T /\ IsMapOn(F, T) /\ N \in Nat
  BY DEF IsMapOn, IsGrower
<1> HIDE DEF T
<1>2. \E g : IsIteration(g, F, c, T, N)
  BY <1>1, Iterates
<1> QED
  BY <1>2 DEF IsIteration, T
===============================================================================

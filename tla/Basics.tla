------------------------------ MODULE Basics -------------------------------
(***************************************************************************)
(* What the proofs share: remainders, and induction for the proofs about   *)
(* loops.  The library's induction theorems take a predicate as a          *)
(* parameter; here it is the set of numbers that satisfy it, and the step  *)
(* of a loop is a function.                                                *)
(***************************************************************************)
EXTENDS Integers, Sequences, WellFoundedInduction, TLAPS

----------------------------------------------------------------------------
(* Remainders *)

LEMMA ModIs ==
  ASSUME NEW n \in Nat \ {0}, NEW k \in Int, NEW r \in 0 .. n - 1
  PROVE  (n * k + r) % n = r /\ (n * k + r) \div n = k
<1> DEFINE x == n * k + r
           q == x \div n
           m == x % n
<1>0. x \in Int /\ x = n * k + r
  OBVIOUS
<1>1. q \in Int /\ m \in Int /\ 0 <= m /\ m < n /\ x = n * q + m
  <2> HIDE DEF x
  <2>1. QED BY <1>0
<1> HIDE DEF x, q, m
<1>2. q = k
  <2>1. ASSUME q > k PROVE FALSE
    <3>1. q - k >= 1 /\ q - k \in Int
      BY <2>1, <1>1
    <3>2. n * (q - k) >= n * 1
      BY <3>1
    <3>3. n * (q - k) = n * q - n * k
      BY <1>1
    <3>4. n * q \in Int /\ n * k \in Int
      BY <1>1
    <3>5. QED BY <3>2, <3>3, <3>4, <1>0, <1>1
  <2>2. ASSUME q < k PROVE FALSE
    <3>1. k - q >= 1 /\ k - q \in Int
      BY <2>2, <1>1
    <3>2. n * (k - q) >= n * 1
      BY <3>1
    <3>3. n * (k - q) = n * k - n * q
      BY <1>1
    <3>4. n * q \in Int /\ n * k \in Int
      BY <1>1
    <3>5. QED BY <3>2, <3>3, <3>4, <1>0, <1>1
  <2>3. QED BY <2>1, <2>2, <1>1
<1>3. m = r
  <2>1. n * q \in Int /\ n * q = n * k
    BY <1>1, <1>2
  <2>2. QED BY <2>1, <1>0, <1>1
<1>4. QED BY <1>2, <1>3 DEF m, q, x

LEMMA ModWrap ==
  ASSUME NEW n \in Nat \ {0}, NEW x \in Int, 0 - n <= x, x < 2 * n
  PROVE  x % n = IF x < 0 THEN x + n ELSE IF x < n THEN x ELSE x - n
<1> DEFINE q == x \div n
           m == x % n
<1>1. q \in Int /\ m \in Int /\ 0 <= m /\ m < n /\ x = n * q + m
  OBVIOUS
<1>2. q \in {-1, 0, 1}
  <2> HIDE DEF q, m
  <2>1. q < 2
    <3>1. SUFFICES ASSUME q >= 2 PROVE FALSE
      BY <1>1
    <3>2. n * q >= n * 2
      BY <3>1, <1>1
    <3>3. QED BY <3>2, <1>1
  <2>2. q > -2
    <3>1. SUFFICES ASSUME q <= -2 PROVE FALSE
      BY <1>1
    <3>2. n * q <= n * (-2)
      BY <3>1, <1>1
    <3>3. QED BY <3>2, <1>1
  <2>3. QED BY <2>1, <2>2, <1>1
<1>3. QED
  <2> HIDE DEF q, m
  <2>1. CASE q = -1
    BY <2>1, <1>1 DEF m
  <2>2. CASE q = 0
    BY <2>2, <1>1 DEF m
  <2>3. CASE q = 1
    BY <2>3, <1>1 DEF m
  <2>4. QED BY <2>1, <2>2, <2>3, <1>2

----------------------------------------------------------------------------
(* Induction *)

\* The order of the naturals as a set of pairs, without an operator in it.
Before == {ss \in Nat \X Nat : ss[1] < ss[2]}

LEMMA NaturalsWellFounded == IsWellFoundedOn(Before, Nat)
<1>1. OpToRel(<, Nat) = Before
  BY Zenon DEF OpToRel, Before
<1>2. QED BY <1>1, NatLessThanWellFounded, Zenon

LEMMA LeastNatural ==
  ASSUME NEW T \in SUBSET Nat, T # {}
  PROVE  \E n \in T : \A m \in T : n <= m
<1>1. \E n \in T : \A m \in T : ~ (<<m, n>> \in Before)
  BY NaturalsWellFounded, WFMin, Zenon
<1>2. PICK n \in T : \A m \in T : ~ (<<m, n>> \in Before)
  BY <1>1
<1>3. ASSUME NEW m \in T PROVE n <= m
  <2>1. <<m, n>> \in Nat \X Nat
    OBVIOUS
  <2>2. ~ (m < n)
    BY <1>2, <2>1 DEF Before
  <2>3. QED BY <2>2
<1>4. QED BY <1>3

\* Induction up to a bound: the naturals that satisfy a predicate as a set.
LEMMA Induct ==
  ASSUME NEW n \in Nat, NEW S, 0 \in S, \A k \in 0 .. n - 1 : k \in S => k + 1 \in S
  PROVE  \A k \in 0 .. n : k \in S
<1>1. SUFFICES ASSUME {k \in 0 .. n : k \notin S} # {} PROVE FALSE
  OBVIOUS
<1> DEFINE T == {k \in 0 .. n : k \notin S}
<1>2. T \in SUBSET Nat /\ T # {}
  BY <1>1
<1>3. PICK k \in T : \A m \in T : k <= m
  <2> HIDE DEF T
  <2>1. QED BY <1>2, LeastNatural
<1>4. k \in Nat /\ k # 0 /\ k <= n /\ k - 1 \notin T
  BY <1>3
<1>5. k - 1 \in 0 .. n - 1 /\ k - 1 \in S
  BY <1>4
<1>6. QED BY <1>3, <1>4, <1>5

\* Max of FiniteSetsExt
Greatest(S) == CHOOSE x \in S : \A y \in S : x >= y

LEMMA GreatestIs ==
  ASSUME NEW S \in SUBSET Int, NEW m \in S, \A x \in S : x <= m
  PROVE  Greatest(S) = m
<1>1. Greatest(S) \in S /\ \A x \in S : Greatest(S) >= x
  <2>1. m \in S /\ \A x \in S : m >= x
    OBVIOUS
  <2>2. QED BY <2>1, Zenon DEF Greatest
<1> DEFINE g == Greatest(S)
<1>2. g \in Int /\ m \in Int /\ g >= m /\ g <= m
  BY <1>1
<1>3. g = m
  <2> HIDE DEF g
  <2>1. QED BY <1>2
<1>4. QED BY <1>3

LEMMA GreatestExists ==
  ASSUME NEW n \in Nat
  PROVE  \A S \in SUBSET (1 .. n) : S # {} => Greatest(S) \in S
<1> DEFINE P == {k \in 0 .. n : \A S \in SUBSET (1 .. k) : S # {} => Greatest(S) \in S}
<1>1. 0 \in P
  <2>1. 1 .. 0 = {}
    OBVIOUS
  <2>2. \A S \in SUBSET (1 .. 0) : S # {} => Greatest(S) \in S
    BY <2>1
  <2>3. 0 \in 0 .. n
    OBVIOUS
  <2>4. QED BY <2>2, <2>3, Zenon
<1>2. ASSUME NEW k \in 0 .. n - 1, k \in P PROVE k + 1 \in P
  <2> SUFFICES ASSUME NEW S \in SUBSET (1 .. k + 1), S # {} PROVE Greatest(S) \in S
    OBVIOUS
  <2>1. CASE k + 1 \in S
    <3>1. Greatest(S) = k + 1
      BY <2>1, GreatestIs
    <3>2. QED BY <3>1, <2>1
  <2>2. CASE k + 1 \notin S
    <3>1. S \in SUBSET (1 .. k)
      BY <2>2
    <3>2. QED BY <3>1, <1>2
  <2>3. QED BY <2>1, <2>2
<1>3. \A k \in 0 .. n : k \in P
  <2> HIDE DEF P
  <2>1. QED BY <1>1, <1>2, Induct
<1>4. QED BY <1>3

\* A fold over the numbers from 1 to n whose step is the function F.
IsFold(g, n, b, F) == \A S \in SUBSET (1 .. n) :
  g[S] = IF S = {} THEN b ELSE F[<<g[S \ {Greatest(S)}], Greatest(S)>>]

LEMMA FoldDefined ==
  ASSUME NEW n \in Nat, NEW B, NEW b \in B, NEW F \in [B \X (1 .. n) -> B]
  PROVE  \E g \in [SUBSET (1 .. n) -> B] : IsFold(g, n, b, F)
<1> USE DEF IsFold
<1> DEFINE Folds(g, k) == IsFold(g, k, b, F)
           P == {k \in 0 .. n : \E g \in [SUBSET (1 .. k) -> B] : Folds(g, k)}
<1>1. 0 \in P
  <2> DEFINE g == [S \in SUBSET (1 .. 0) |-> b]
  <2>1. g \in [SUBSET (1 .. 0) -> B]
    OBVIOUS
  <2>2. Folds(g, 0)
    <3>1. \A S \in SUBSET (1 .. 0) : S = {} /\ g[S] = b
      <4>1. 1 .. 0 = {}
        OBVIOUS
      <4>2. QED BY <4>1
    <3> HIDE DEF g
    <3>2. QED BY <3>1
  <2> HIDE DEF g, Folds
  <2>3. 0 \in 0 .. n
    OBVIOUS
  <2>4. QED BY <2>1, <2>2, <2>3
<1>2. ASSUME NEW k \in 0 .. n - 1, k \in P PROVE k + 1 \in P
  <2>1. PICK g \in [SUBSET (1 .. k) -> B] : \A S \in SUBSET (1 .. k) :
               g[S] = IF S = {} THEN b ELSE F[<<g[S \ {Greatest(S)}], Greatest(S)>>]
    BY <1>2
  <2> DEFINE h == [S \in SUBSET (1 .. k + 1) |->
                     IF k + 1 \in S THEN F[<<g[S \ {k + 1}], k + 1>>] ELSE g[S]]
  <2>2. ASSUME NEW S \in SUBSET (1 .. k + 1), k + 1 \in S
        PROVE  S \ {k + 1} \in SUBSET (1 .. k) /\ Greatest(S) = k + 1
    <3>1. \A x \in S : x \in Int /\ x <= k + 1
      BY <2>2
    <3>2. QED BY <2>2, <3>1, GreatestIs
  <2>3. ASSUME NEW S \in SUBSET (1 .. k + 1), k + 1 \notin S
        PROVE  S \in SUBSET (1 .. k) /\ (S # {} => Greatest(S) \in S /\ k + 1 \notin S \ {Greatest(S)})
    <3>1. S \in SUBSET (1 .. k)
      BY <2>3
    <3>2. k \in Nat
      OBVIOUS
    <3>3. QED BY <3>1, <3>2, <2>3, GreatestExists
  <2>4. h \in [SUBSET (1 .. k + 1) -> B]
    <3> SUFFICES ASSUME NEW S \in SUBSET (1 .. k + 1) PROVE h[S] \in B
      OBVIOUS
    <3>1. CASE k + 1 \in S
      <4>1. <<g[S \ {k + 1}], k + 1>> \in B \X (1 .. n)
        BY <3>1, <2>2
      <4>2. QED BY <3>1, <4>1
    <3>2. CASE k + 1 \notin S
      BY <3>2, <2>3
    <3>3. QED BY <3>1, <3>2
  <2>5. ASSUME NEW S \in SUBSET (1 .. k + 1)
        PROVE  h[S] = IF S = {} THEN b ELSE F[<<h[S \ {Greatest(S)}], Greatest(S)>>]
    <3>1. CASE k + 1 \in S
      <4>1. S \ {k + 1} \in SUBSET (1 .. k + 1) /\ k + 1 \notin S \ {k + 1}
        OBVIOUS
      <4>2. h[S \ {k + 1}] = g[S \ {k + 1}]
        BY <4>1
      <4>3. h[S] = F[<<g[S \ {k + 1}], k + 1>>]
        BY <3>1
      <4>4. S # {} /\ Greatest(S) = k + 1
        BY <3>1, <2>2
      <4> HIDE DEF h
      <4>5. QED BY <4>2, <4>3, <4>4
    <3>2. CASE k + 1 \notin S
      <4>1. h[S] = g[S] /\ S \in SUBSET (1 .. k)
        BY <3>2, <2>3
      <4>2. S # {} => h[S \ {Greatest(S)}] = g[S \ {Greatest(S)}]
        <5>1. S \ {Greatest(S)} \in SUBSET (1 .. k + 1)
          OBVIOUS
        <5>2. QED BY <5>1, <3>2, <2>3
      <4> HIDE DEF h
      <4>3. QED BY <4>1, <4>2, <2>1
    <3>3. QED BY <3>1, <3>2
  <2>6. Folds(h, k + 1)
    <3> HIDE DEF h
    <3>1. QED BY <2>5
  <2> HIDE DEF h, Folds
  <2>7. QED BY <2>4, <2>6
<1>3. n \in P
  <2>1. \A k \in 0 .. n : k \in P
    <3> HIDE DEF P
    <3>1. QED BY <1>1, <1>2, Induct
  <2> HIDE DEF P
  <2>2. QED BY <2>1
<1>4. QED
  <2> HIDE DEF Folds
  <2>1. QED BY <1>3 DEF Folds

\* The last turn of a fold taken off.
LEMMA LastTurn ==
  ASSUME NEW n \in Nat, NEW k \in 0 .. n - 1
  PROVE  /\ 1 .. k + 1 \in SUBSET (1 .. n) /\ 1 .. k + 1 # {}
         /\ Greatest(1 .. k + 1) = k + 1
         /\ (1 .. k + 1) \ {k + 1} = 1 .. k
<1>1. 1 .. k + 1 \in SUBSET (1 .. n) /\ k + 1 \in 1 .. k + 1 /\ (1 .. k + 1) \ {k + 1} = 1 .. k
  OBVIOUS
<1>2. \A x \in 1 .. k + 1 : x <= k + 1
  OBVIOUS
<1>3. 1 .. k + 1 \in SUBSET Int
  OBVIOUS
<1>4. Greatest(1 .. k + 1) = k + 1
  BY <1>1, <1>2, <1>3, GreatestIs
<1>5. QED BY <1>1, <1>4

\* A recursive function on the numbers up to n, whose step is the function F.
Iterates(t, n, b, F) == t[0] = b /\ \A k \in 0 .. n - 1 : t[k + 1] = F[<<t[k], k + 1>>]

LEMMA Recursion ==
  ASSUME NEW n \in Nat, NEW B, NEW b \in B, NEW F \in [B \X (1 .. n) -> B]
  PROVE  \E t \in [0 .. n -> B] : Iterates(t, n, b, F)
<1>1. PICK g \in [SUBSET (1 .. n) -> B] : IsFold(g, n, b, F)
  BY FoldDefined
<1> DEFINE t == [k \in 0 .. n |-> g[1 .. k]]
<1>2. \A k \in 0 .. n : 1 .. k \in SUBSET (1 .. n)
  OBVIOUS
<1>3. t \in [0 .. n -> B]
  BY <1>1, <1>2
<1>4. t[0] = b
  <2>1. 1 .. 0 = {} /\ {} \in SUBSET (1 .. n) /\ t[0] = g[1 .. 0]
    OBVIOUS
  <2>2. g[{}] = b
    BY <1>1, <2>1 DEF IsFold
  <2>3. QED BY <2>1, <2>2
<1>5. ASSUME NEW k \in 0 .. n - 1 PROVE t[k + 1] = F[<<t[k], k + 1>>]
  <2>1. /\ 1 .. k + 1 \in SUBSET (1 .. n) /\ 1 .. k + 1 # {}
        /\ Greatest(1 .. k + 1) = k + 1 /\ (1 .. k + 1) \ {k + 1} = 1 .. k
    BY LastTurn
  <2>2. g[1 .. k + 1] = F[<<g[(1 .. k + 1) \ {Greatest(1 .. k + 1)}], Greatest(1 .. k + 1)>>]
    BY <1>1, <2>1 DEF IsFold
  <2>3. t[k + 1] = g[1 .. k + 1] /\ t[k] = g[1 .. k]
    OBVIOUS
  <2>4. QED BY <2>1, <2>2, <2>3
<1>6. QED
  <2> HIDE DEF t
  <2>1. QED BY <1>3, <1>4, <1>5 DEF Iterates
=============================================================================

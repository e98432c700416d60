---------------------------- MODULE InductionFacts ----------------------------
(***************************************************************************)
(* Induction on the natural numbers, said of sets: the library's theorems  *)
(* take the property as an operator. Both facts rest on WFMin, by which a  *)
(* set with no least element is empty. And division, by any number.        *)
(***************************************************************************)
EXTENDS Integers, Sequences, WellFoundedInduction, TLAPS

\* A set of natural numbers has a least element.
LEMMA LeastNumber ==
    ASSUME NEW T \in SUBSET Nat, T # {}
    PROVE  \E x \in T : \A y \in T : x <= y
<1> DEFINE R == OpToRel(<, Nat)
<1>1. \A a, b \in Nat : <<a, b>> \in R <=> a < b
  BY DEF OpToRel
<1>2. IsWellFoundedOn(R, Nat)
  BY NatLessThanWellFounded
<1> HIDE DEF R
<1>3. PICK x \in T : \A y \in T : ~(<<y, x>> \in R)
  BY <1>2, WFMin
<1>4. \A y \in T : ~(y < x)
  BY <1>1, <1>3, Zenon
<1>5. \A y \in T : x <= y
  BY <1>4
<1> QED BY <1>5

\* A set with 0 and with the successor of each of its numbers has them all.
LEMMA SetInduction ==
    ASSUME NEW S, 0 \in S, \A n \in Nat : n \in S => n + 1 \in S
    PROVE  \A n \in Nat : n \in S
<1> SUFFICES ASSUME Nat \ S # {} PROVE FALSE
  OBVIOUS
<1>1. PICK x \in Nat \ S : \A y \in Nat \ S : x <= y
  BY LeastNumber
<1>2. x # 0 /\ x - 1 \in Nat /\ x - 1 \in S
  BY <1>1
<1> QED BY <1>2

\* The same up to a bound.
LEMMA BoundedInduction ==
    ASSUME NEW S, NEW m \in Nat, 0 \in S, \A n \in 0..(m - 1) : n \in S => n + 1 \in S
    PROVE  \A n \in 0..m : n \in S
<1> DEFINE T == {n \in Nat : n <= m => n \in S}
<1>1. 0 \in T
  OBVIOUS
<1>2. \A n \in Nat : n \in T => n + 1 \in T
  OBVIOUS
<1>3. \A n \in Nat : n \in T
  <2> HIDE DEF T
  <2> QED BY <1>1, <1>2, SetInduction
<1> QED BY <1>3

\* The recursion that begins with start and goes on from n - 1 to n with F[n] has a solution.
Solvable(m, X, start, F) ==
    \E g \in [0..m -> X] : g[0] = start /\ \A n \in 1..m : g[n] = F[n][g[n - 1]]

\* A recursive definition over 0..m has a solution.
LEMMA RecursionExists ==
    ASSUME NEW m \in Nat, NEW X, NEW start \in X, NEW F \in [1..m -> [X -> X]]
    PROVE  Solvable(m, X, start, F)
<1> DEFINE Solves(g, k) == g[0] = start /\ \A n \in 1..k : g[n] = F[n][g[n - 1]]
           S == {k \in Nat : \E g \in [0..k -> X] : Solves(g, k)}
<1>1. 0 \in S
  <2> DEFINE g == [n \in 0..0 |-> start]
  <2>1. g \in [0..0 -> X] /\ Solves(g, 0)
    OBVIOUS
  <2> QED BY <2>1
<1>2. ASSUME NEW k \in 0..(m - 1), k \in S PROVE k + 1 \in S
  <2>1. PICK g \in [0..k -> X] : Solves(g, k)
    BY <1>2
  <2> DEFINE h == [n \in 0..(k + 1) |-> IF n <= k THEN g[n] ELSE F[k + 1][g[k]]]
  <2>2. F[k + 1][g[k]] \in X
    OBVIOUS
  <2>3. h \in [0..(k + 1) -> X]
    BY <2>2
  <2>4. ASSUME NEW n \in 1..(k + 1) PROVE h[n] = F[n][h[n - 1]]
    <3>1. CASE n <= k
      BY <2>1, <3>1
    <3>2. CASE n = k + 1
      BY <3>2
    <3> QED BY <3>1, <3>2
  <2>5. Solves(h, k + 1)
    BY <2>1, <2>4
  <2>6. k + 1 \in Nat
    OBVIOUS
  <2> HIDE DEF h
  <2> QED BY <2>3, <2>5, <2>6
<1>3. \A k \in 0..m : k \in S
  <2> HIDE DEF S
  <2> QED BY <1>1, <1>2, BoundedInduction
<1> QED BY <1>3 DEF Solvable

\* Quotient and remainder are unique.
LEMMA DigitsUnique ==
    ASSUME NEW m \in Nat \ {0}, NEW q \in Int, NEW p \in Int, NEW r \in 0..(m - 1), NEW s \in 0..(m - 1),
           m * q + r = m * p + s
    PROVE  q = p /\ r = s
<1>1. CASE q > p
  <2>1. m * (q - p) >= m
    BY <1>1
  <2> QED BY <2>1
<1>2. CASE q < p
  <2>1. m * (p - q) >= m
    BY <1>2
  <2> QED BY <2>1
<1> QED BY <1>1, <1>2

\* A number below m is its own remainder, and the next m numbers lose m.
LEMMA Remainder ==
    ASSUME NEW m \in Nat \ {0}, NEW n \in 0..(2 * m - 1)
    PROVE  n % m = IF n < m THEN n ELSE n - m
<1> DEFINE q == n \div m
           r == n % m
<1>1. q \in Int /\ r \in 0..(m - 1) /\ n = m * q + r
  OBVIOUS
<1> HIDE DEF q, r
<1>2. CASE n < m
  <2>1. m * q + r = m * 0 + n /\ n \in 0..(m - 1)
    BY <1>1, <1>2
  <2>2. r = n
    BY <1>1, <2>1, DigitsUnique
  <2> QED BY <1>2, <2>2 DEF r
<1>3. CASE ~(n < m)
  <2>1. m * q + r = m * 1 + (n - m) /\ n - m \in 0..(m - 1)
    BY <1>1, <1>3
  <2>2. r = n - m
    BY <1>1, <2>1, DigitsUnique
  <2> QED BY <1>3, <2>2 DEF r
<1> QED BY <1>2, <1>3
===============================================================================

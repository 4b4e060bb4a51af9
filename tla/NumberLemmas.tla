---------------------------- MODULE NumberLemmas ----------------------------
(***************************************************************************)
(* Facts about natural numbers that the proofs about bytes rest on:        *)
(* induction in a form that the provers can use, powers of two, and        *)
(* division by them.                                                       *)
(***************************************************************************)
EXTENDS Integers, FiniteSets, FiniteSetTheorems, NaturalsInduction, WellFoundedInduction, TLAPS

(* A set with 0 and every successor of a member holds all numbers.         *)
LEMMA SetInduction ==
  ASSUME NEW S, 0 \in S, \A n \in Nat : n \in S => n + 1 \in S PROVE Nat \subseteq S
<1> SUFFICES ASSUME Nat \ S # {} PROVE FALSE
  OBVIOUS
<1>1. IsWellFoundedOn(OpToRel(<, Nat), Nat)
  BY NatLessThanWellFounded
<1>2. PICK x \in Nat \ S : \A y \in Nat \ S : <<y, x>> \notin OpToRel(<, Nat)
  <2>1. Nat \ S \subseteq Nat
    OBVIOUS
  <2> QED
    BY <1>1, <2>1, WFMin
<1>3. \A y \in Nat \ S : ~(y < x)
  BY <1>2 DEF OpToRel
<1>4. x - 1 \in Nat
  OBVIOUS
<1>5. x - 1 \in S
  BY <1>3, <1>4
<1> QED
  BY <1>4, <1>5

(* A set of numbers that is not empty has a least one.                     *)
LEMMA Least ==
  ASSUME NEW S \in SUBSET Nat, S # {}
  PROVE  \E x \in S : \A y \in S : x <= y
<1>1. IsWellFoundedOn(OpToRel(<, Nat), Nat)
  BY NatLessThanWellFounded
<1>2. PICK x \in S : \A y \in S : <<y, x>> \notin OpToRel(<, Nat)
  BY <1>1, WFMin
<1>3. \A y \in S : ~(y < x)
  BY <1>2 DEF OpToRel
<1> QED
  BY <1>3

(* The recursive function g[i] == g[i - 1] * b + h[i] exists.              *)
AllInt(h, n) == \A i \in 1..n : h[i] \in Int
Adds(g, n, b, h) ==
  /\ g \in [0..n -> Int] /\ g[0] = 0
  /\ \A i \in 1..n : g[i] = g[i - 1] * b + h[i]

LEMMA Recursion ==
  ASSUME NEW n \in Nat, NEW b \in Int, NEW h, AllInt(h, n) PROVE \E g : Adds(g, n, b, h)
<1> DEFINE Rule(g, m) == /\ g \in [0..m -> Int] /\ g[0] = 0
                         /\ \A i \in 1..m : i <= n => g[i] = g[i - 1] * b + h[i]
           S == {m \in Nat : \E g : Rule(g, m)}
<1>1. 0 \in S
  <2> DEFINE g == [i \in 0..0 |-> 0]
  <2>1. Rule(g, 0)
    OBVIOUS
  <2> QED
    BY <2>1
<1>2. ASSUME NEW m \in Nat, m \in S PROVE m + 1 \in S
  <2>1. PICK g : Rule(g, m)
    BY <1>2
  <2> DEFINE x == IF m + 1 <= n THEN g[m] * b + h[m + 1] ELSE 0
             k == [i \in 0..m + 1 |-> IF i <= m THEN g[i] ELSE x]
  <2>2. x \in Int
    <3>1. g[m] \in Int /\ (m + 1 <= n => m + 1 \in 1..n)
      BY <2>1
    <3> QED
      BY <3>1 DEF AllInt
  <2>3. k \in [0..m + 1 -> Int] /\ k[0] = 0
    <3> HIDE DEF x
    <3>1. \A i \in 0..m + 1 : i <= m => i \in 0..m
      OBVIOUS
    <3>2. \A i \in 0..m : g[i] \in Int
      BY <2>1
    <3>3. k \in [0..m + 1 -> Int]
      BY <2>2, <3>1, <3>2
    <3>4. k[0] = g[0] /\ g[0] = 0
      BY <2>1
    <3> QED
      BY <3>3, <3>4
  <2>4. ASSUME NEW i \in 1..m + 1, i <= n PROVE k[i] = k[i - 1] * b + h[i]
    <3>1. CASE i <= m
      <4>1. i \in 1..m /\ i \in 0..m + 1 /\ i - 1 \in 0..m + 1 /\ i - 1 <= m
        BY <3>1
      <4>2. k[i] = g[i] /\ k[i - 1] = g[i - 1]
        BY <3>1, <4>1
      <4> QED
        BY <2>1, <2>4, <4>1, <4>2
    <3>2. CASE ~(i <= m)
      <4>1. i = m + 1 /\ i - 1 = m /\ m \in 0..m + 1 /\ m + 1 \in 0..m + 1 /\ ~(m + 1 <= m) /\ m <= m
        BY <3>2
      <4>2. k[m + 1] = x /\ k[m] = g[m] /\ x = g[m] * b + h[m + 1]
        BY <2>4, <4>1
      <4> HIDE DEF k, x
      <4> QED
        BY <4>1, <4>2
    <3> QED
      BY <3>1, <3>2
  <2>5. Rule(k, m + 1)
    <3> HIDE DEF k
    <3> QED
      BY <2>3, <2>4
  <2> HIDE DEF k, Rule
  <2> QED
    BY <2>5
<1>3. n \in S
  <2> HIDE DEF S
  <2> QED
    BY <1>1, <1>2, SetInduction
<1>4. PICK g : Rule(g, n)
  BY <1>3
<1>5. \A i \in 1..n : g[i] = g[i - 1] * b + h[i]
  BY <1>4
<1>6. g \in [0..n -> Int] /\ g[0] = 0
  BY <1>4
<1> HIDE DEF Rule
<1> QED
  BY <1>5, <1>6 DEF Adds

-----------------------------------------------------------------------------
(* Powers of two                                                           *)

(* 2^n counts the subsets of 1..n.                                         *)
LEMMA PowerCounts ==
  ASSUME NEW n \in Nat
  PROVE  /\ IsFiniteSet(SUBSET (1..n)) /\ Cardinality(SUBSET (1..n)) = 2^n
<1>1. IsFiniteSet(1..n) /\ Cardinality(1..n) = n
  BY FS_Interval
<1> QED
  BY <1>1, FS_SUBSET

LEMMA PowerStep == ASSUME NEW n \in Nat PROVE 2^n \in Nat /\ 2^(n + 1) = 2 * 2^n
<1> DEFINE A == SUBSET (1..n)
           B == {s \cup {n + 1} : s \in A}
<1>1. IsFiniteSet(A) /\ Cardinality(A) = 2^n
  BY PowerCounts
<1>2. Cardinality(SUBSET (1..(n + 1))) = 2^(n + 1)
  <2>1. n + 1 \in Nat
    OBVIOUS
  <2> QED
    BY <2>1, PowerCounts
<1>3. SUBSET (1..(n + 1)) = A \cup B
  <2>1. ASSUME NEW s \in SUBSET (1..(n + 1)), s \notin A PROVE s \in B
    <3>1. n + 1 \in s
      BY <2>1
    <3>2. s = (s \ {n + 1}) \cup {n + 1} /\ s \ {n + 1} \in A
      BY <3>1
    <3> QED
      BY <3>2
  <2>2. ASSUME NEW s \in A PROVE s \cup {n + 1} \in SUBSET (1..(n + 1)) /\ s \in SUBSET (1..(n + 1))
    OBVIOUS
  <2> HIDE DEF A
  <2> QED
    BY <2>1, <2>2
<1>4. A \cap B = {}
  OBVIOUS
<1>5. IsFiniteSet(B) /\ Cardinality(B) = Cardinality(A)
  <2> DEFINE f == [s \in A |-> s \cup {n + 1}]
  <2>1. ASSUME NEW s \in A, NEW t \in A, f[s] = f[t] PROVE s = t
    <3>1. s \cup {n + 1} = t \cup {n + 1} /\ n + 1 \notin s /\ n + 1 \notin t
      BY <2>1
    <3> QED
      BY <3>1
  <2>2. f \in [A -> B] /\ \A t \in B : \E s \in A : f[s] = t
    OBVIOUS
  <2> HIDE DEF f, A, B
  <2>3. f \in Bijection(A, B)
    BY <2>1, <2>2 DEF Bijection, Injection, Surjection, IsInjective
  <2> QED
    BY <1>1, <2>3, FS_Bijection DEF ExistsBijection
<1> HIDE DEF A, B
<1>6. Cardinality(A \cup B) = Cardinality(A) + Cardinality(B) - Cardinality({})
  BY <1>1, <1>4, <1>5, FS_Union
<1>7. Cardinality(A) \in Nat /\ Cardinality({}) = 0
  BY <1>1, FS_CardinalityType, FS_EmptySet
<1>8. \A x \in Nat : x + x - 0 = 2 * x
  OBVIOUS
<1> QED
  BY <1>1, <1>2, <1>3, <1>5, <1>6, <1>7, <1>8

LEMMA PowerZero == 2^0 = 1
<1>1. Cardinality(SUBSET {}) = 2^Cardinality({}) /\ Cardinality({}) = 0 /\ SUBSET {} = {{}}
  BY FS_EmptySet, FS_SUBSET
<1>2. Cardinality({{}}) = 1
  BY FS_Singleton
<1> QED
  BY <1>1, <1>2

LEMMA PowerPositive == ASSUME NEW n \in Nat PROVE 2^n \in Nat \ {0}
<1> DEFINE S == {k \in Nat : 2^k \in Nat \ {0}}
<1>1. 0 \in S
  BY PowerZero
<1>2. ASSUME NEW k \in Nat, k \in S PROVE k + 1 \in S
  <2>1. 2^k \in Nat \ {0} /\ 2^(k + 1) = 2 * 2^k
    BY <1>2, PowerStep
  <2> QED
    BY <2>1
<1> HIDE DEF S
<1>3. n \in S
  BY <1>1, <1>2, SetInduction
<1> QED
  BY <1>3 DEF S

LEMMA PowerSum == ASSUME NEW a \in Nat, NEW b \in Nat PROVE 2^(a + b) = 2^a * 2^b
<1> DEFINE S == {k \in Nat : 2^(a + k) = 2^a * 2^k}
<1>1. 0 \in S
  <2>1. a + 0 = a /\ 2^a \in Nat
    BY PowerPositive
  <2> QED
    BY <2>1, PowerZero
<1>2. ASSUME NEW k \in Nat, k \in S PROVE k + 1 \in S
  <2>1. 2^(a + k) = 2^a * 2^k
    BY <1>2
  <2>2. 2^((a + k) + 1) = 2 * 2^(a + k) /\ 2^(k + 1) = 2 * 2^k
    BY PowerStep
  <2>3. (a + k) + 1 = a + (k + 1)
    OBVIOUS
  <2>4. 2^a \in Nat /\ 2^k \in Nat
    BY PowerPositive
  <2>5. \A x, y \in Nat : 2 * (x * y) = x * (2 * y)
    OBVIOUS
  <2>6. 2 * (2^a * 2^k) = 2^a * (2 * 2^k)
    BY <2>4, <2>5
  <2>7. 2^(a + (k + 1)) = 2^a * 2^(k + 1)
    BY <2>1, <2>2, <2>3, <2>6
  <2> QED
    BY <2>7
<1> HIDE DEF S
<1>3. b \in S
  BY <1>1, <1>2, SetInduction
<1> QED
  BY <1>3 DEF S

(* Powers grow.                                                            *)
LEMMA PowerMonotonic ==
  ASSUME NEW a \in Nat, NEW b \in Nat, a <= b PROVE 2^a <= 2^b
<1>1. PICK d \in Nat : b = a + d
  <2>1. b - a \in Nat /\ b = a + (b - a)
    OBVIOUS
  <2> QED
    BY <2>1
<1>2. 2^b = 2^a * 2^d /\ 2^a \in Nat \ {0} /\ 2^d \in Nat \ {0}
  BY <1>1, PowerSum, PowerPositive
<1>3. \A x, y \in Nat \ {0} : x <= x * y
  OBVIOUS
<1> QED
  BY <1>2, <1>3

-----------------------------------------------------------------------------
(* Division                                                                *)

(* Only one quotient and rest fit.                                         *)
LEMMA DivUnique ==
  ASSUME NEW n \in Int, NEW d \in Nat \ {0}, NEW q \in Int, NEW r \in 0..d - 1, n = q * d + r
  PROVE  (n \div d) = q /\ (n % d) = r
OBVIOUS

LEMMA DivMod ==
  ASSUME NEW n \in Int, NEW d \in Nat \ {0}
  PROVE  /\ (n \div d) \in Int /\ (n % d) \in 0..d - 1
         /\ n = (n \div d) * d + (n % d)
OBVIOUS

LEMMA DivSmall ==
  ASSUME NEW d \in Nat \ {0}, NEW n \in -d..d - 1
  PROVE  (n \div d) = IF n < 0 THEN -1 ELSE 0
<1>1. CASE n < 0
  <2>1. n = (-1) * d + (n + d) /\ n + d \in 0..d - 1
    BY <1>1
  <2> QED
    BY <1>1, <2>1, DivUnique
<1>2. CASE ~(n < 0)
  <2>1. n = 0 * d + n /\ n \in 0..d - 1
    BY <1>2
  <2> QED
    BY <1>2, <2>1, DivUnique
<1> QED
  BY <1>1, <1>2

(* Dividing twice is dividing by the product.                              *)
LEMMA DivDiv ==
  ASSUME NEW n \in Int, NEW d \in Nat \ {0}, NEW e \in Nat \ {0}
  PROVE  (n \div (d * e)) = ((n \div d) \div e)
<1> DEFINE q == n \div d
           r == n % d
           p == q \div e
           s == q % e
<1>1. q \in Int /\ r \in 0..d - 1 /\ n = q * d + r
  BY DivMod
<1>2. p \in Int /\ s \in 0..e - 1 /\ q = p * e + s
  BY <1>1, DivMod
<1> HIDE DEF q, r, p, s
<1>3. d * e \in Nat \ {0}
  OBVIOUS
<1>4. s * d + r \in 0..d * e - 1
  <2>1. s * d >= 0 /\ s * d \in Int
    BY <1>2
  <2>2. (s + 1) * d <= e * d
    BY <1>2
  <2> QED
    BY <1>1, <1>2, <2>1, <2>2
<1>5. n = p * (d * e) + (s * d + r)
  BY <1>1, <1>2
<1>6. (n \div (d * e)) = p
  BY <1>2, <1>3, <1>4, <1>5, DivUnique
<1> QED
  BY <1>6 DEF p, q

=============================================================================

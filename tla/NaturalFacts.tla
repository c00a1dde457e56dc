---------------------------- MODULE NaturalFacts ----------------------------
(***************************************************************************)
(* Facts about the naturals that several proof modules cite: remainders,   *)
(* and induction stated for a set instead of a predicate, so that the      *)
(* provers can instantiate it; from it, that functions defined by          *)
(* recursion over an interval or over all naturals exist; and that powers  *)
(* of two double.                                                          *)
(***************************************************************************)
EXTENDS Integers, WellFoundedInduction, FiniteSetTheorems, TLAPS

(* Division with a remainder. *)
LEMMA DivisionFacts ==
  ASSUME NEW b \in Nat \ {0}, NEW a \in Int
  PROVE  /\ a \div b \in Int /\ a % b \in 0 .. b - 1
         /\ a = b * (a \div b) + (a % b)
OBVIOUS

(* Quotient and remainder are the only ones. *)
LEMMA QuotientIsUnique ==
  ASSUME NEW b \in Nat \ {0}, NEW a \in Int, NEW q \in Int, NEW r \in 0 .. b - 1,
         a = b * q + r
  PROVE  a \div b = q /\ a % b = r
<1> DEFINE d == a \div b
           m == a % b
<1>1. d \in Int /\ m \in 0 .. b - 1 /\ a = b * d + m
  BY DivisionFacts
<1> HIDE DEF d, m
<1>2. b * (q - d) = m - r
  BY <1>1
<1>3. q - d < 1
  <2>1. q - d >= 1 => b * (q - d) >= b
    BY <1>1
  <2> QED
    BY <1>1, <1>2, <2>1
<1>4. q - d > -1
  <2>1. q - d <= -1 => b * (q - d) <= -b
    BY <1>1
  <2> QED
    BY <1>1, <1>2, <2>1
<1>5. q = d
  BY <1>1, <1>3, <1>4
<1> QED
  BY <1>1, <1>5 DEF d, m

(* A factor one larger or smaller. *)
LEMMA OneMore ==
  ASSUME NEW a \in Int, NEW b \in Int
  PROVE  a * (b + 1) = a * b + a /\ a * (b - 1) = a * b - a /\ a * 0 = 0
OBVIOUS

(* A value below the modulus is its own remainder. *)
LEMMA SmallRemainder ==
  ASSUME NEW b \in Nat, NEW a \in 0 .. b - 1
  PROVE  a % b = a
<1>1. b \in Nat \ {0} /\ a \in Int /\ a = b * 0 + a
  OBVIOUS
<1> QED
  BY <1>1, QuotientIsUnique

-----------------------------------------------------------------------------
(* A nonempty set of naturals has a least element. *)
LEMMA LeastNumber ==
  ASSUME NEW T, T \subseteq Nat, T # {}
  PROVE  \E x \in T : \A y \in T : x <= y
<1>1. IsWellFoundedOn(OpToRel(<, Nat), Nat)
  BY NatLessThanWellFounded, Zenon
<1>2. PICK x \in T : \A y \in T : ~(<<y, x>> \in OpToRel(<, Nat))
  BY <1>1, WFMin, Zenon
<1>3. \A y \in T : ~(y < x)
  BY <1>2, Zenon DEF OpToRel
<1> QED
  BY <1>3

(* A set that holds 0 and with each natural the next holds them all. *)
LEMMA SetInduction ==
  ASSUME NEW T, 0 \in T, \A n \in Nat : n \in T => n + 1 \in T
  PROVE  Nat \subseteq T
<1> DEFINE rest == Nat \ T
<1>1. SUFFICES ASSUME rest # {} PROVE FALSE
  OBVIOUS
<1>2. PICK x \in rest : \A y \in rest : x <= y
  BY <1>1, LeastNumber
<1>3. x \in Nat /\ x # 0
  OBVIOUS
<1>4. x - 1 \in Nat /\ x - 1 \notin rest
  BY <1>2, <1>3
<1>5. (x - 1) + 1 \in T
  BY <1>4
<1> QED
  BY <1>3, <1>5

(* Each value of f is made of its index and the value before. *)
Recursive(f, n, base, step) == f[0] = base /\ \A i \in 1 .. n : f[i] = step[i][f[i - 1]]

(* A function defined by recursion over 0 .. n exists. *)
LEMMA RecursionExists ==
  ASSUME NEW n \in Nat, NEW V, NEW base \in V, NEW step \in [1 .. n -> [V -> V]]
  PROVE  \E f \in [0 .. n -> V] : Recursive(f, n, base, step)
<1> USE DEF Recursive
<1> DEFINE Upto(k, f) == Recursive(f, k, base, step)
           T == {k \in Nat : k <= n => \E f \in [0 .. k -> V] : Upto(k, f)}
<1>1. 0 \in T
  <2> DEFINE f == [i \in 0 .. 0 |-> base]
  <2>1. f \in [0 .. 0 -> V] /\ Upto(0, f)
    OBVIOUS
  <2> QED
    BY <2>1
<1>2. ASSUME NEW k \in Nat, k \in T
      PROVE  k + 1 \in T
  <2>1. SUFFICES ASSUME k + 1 <= n
                 PROVE  \E f \in [0 .. k + 1 -> V] : Upto(k + 1, f)
    OBVIOUS
  <2>2. PICK g \in [0 .. k -> V] : Upto(k, g)
    BY <1>2, <2>1
  <2> DEFINE f == [i \in 0 .. k + 1 |-> IF i <= k THEN g[i] ELSE step[k + 1][g[k]]]
  <2>3. step[k + 1] \in [V -> V] /\ g[k] \in V
    BY <2>1
  <2>4. f \in [0 .. k + 1 -> V]
    BY <2>3
  <2>5. f[0] = base
    BY <2>2
  <2>6. \A i \in 1 .. k + 1 : f[i] = step[i][f[i - 1]]
    <3> SUFFICES ASSUME NEW i \in 1 .. k + 1 PROVE f[i] = step[i][f[i - 1]]
      OBVIOUS
    <3>1. f[i - 1] = g[i - 1]
      OBVIOUS
    <3>2. CASE i <= k
      <4>1. f[i] = g[i] /\ i \in 1 .. k
        BY <3>2
      <4>2. g[i] = step[i][g[i - 1]]
        BY <2>2, <4>1
      <4> QED
        BY <3>1, <4>1, <4>2
    <3>3. CASE i = k + 1
      <4>1. f[i] = step[k + 1][g[k]] /\ i - 1 = k
        BY <3>3
      <4> QED
        BY <3>1, <3>3, <4>1
    <3> QED
      BY <3>2, <3>3
  <2> HIDE DEF f
  <2> QED
    BY <2>4, <2>5, <2>6
<1> HIDE DEF T
<1>3. n \in T
  BY <1>1, <1>2, SetInduction
<1> QED
  BY <1>3 DEF T
(* Each value of f on the naturals is made of its index and the value before. *)
Endless(f, base, step) == f[0] = base /\ \A i \in Nat : f[i + 1] = step[i][f[i]]

(* A function defined by recursion over the naturals exists. *)
LEMMA EndlessRecursionExists ==
  ASSUME NEW V, NEW base \in V, NEW step \in [Nat -> [V -> V]]
  PROVE  \E f \in [Nat -> V] : Endless(f, base, step)
<1> DEFINE back(n) == [i \in 1 .. n |-> step[i - 1]]
           Runs(g, n) == g[0] = base /\ \A i \in 1 .. n : g[i] = step[i - 1][g[i - 1]]
           run == [n \in Nat |-> CHOOSE g \in [0 .. n -> V] : Runs(g, n)]
           f == [n \in Nat |-> run[n][n]]
<1>1. ASSUME NEW n \in Nat PROVE run[n] \in [0 .. n -> V] /\ Runs(run[n], n)
  <2>1. back(n) \in [1 .. n -> [V -> V]]
    OBVIOUS
  <2>2. PICK g \in [0 .. n -> V] : Recursive(g, n, base, back(n))
    <3> HIDE DEF back
    <3> QED
      BY <2>1, RecursionExists
  <2>3. Runs(g, n)
    <3>1. \A i \in 1 .. n : g[i] = back(n)[i][g[i - 1]]
      BY <2>2 DEF Recursive
    <3>2. \A i \in 1 .. n : back(n)[i] = step[i - 1]
      OBVIOUS
    <3> QED
      BY <2>2, <3>1, <3>2 DEF Recursive
  <2> HIDE DEF Runs
  <2>4. \E h \in [0 .. n -> V] : Runs(h, n)
    BY <2>3
  <2>5. run[n] = CHOOSE h \in [0 .. n -> V] : Runs(h, n)
    OBVIOUS
  <2> QED
    BY <2>4, <2>5, Zenon
<1> HIDE DEF run
<1>2. ASSUME NEW n \in Nat PROVE \A i \in 0 .. n : run[n + 1][i] = run[n][i]
  <2> DEFINE T == {i \in Nat : i <= n => run[n + 1][i] = run[n][i]}
  <2>0. n + 1 \in Nat
    OBVIOUS
  <2>1. 0 \in T
    BY <1>1, <2>0
  <2>2. ASSUME NEW i \in Nat, i \in T PROVE i + 1 \in T
    <3> SUFFICES ASSUME i + 1 <= n PROVE run[n + 1][i + 1] = run[n][i + 1]
      OBVIOUS
    <3>1. run[n + 1][i] = run[n][i]
      BY <2>2
    <3>2. i + 1 \in 1 .. n /\ i + 1 \in 1 .. n + 1 /\ (i + 1) - 1 = i
      OBVIOUS
    <3>3. run[n + 1][i + 1] = step[i][run[n + 1][i]]
      BY <1>1, <2>0, <3>2
    <3>4. run[n][i + 1] = step[i][run[n][i]]
      BY <1>1, <3>2
    <3> QED
      BY <3>1, <3>3, <3>4
  <2> HIDE DEF T
  <2>3. Nat \subseteq T
    BY <2>1, <2>2, SetInduction
  <2> QED
    BY <2>3 DEF T
<1>3. f \in [Nat -> V]
  <2>1. ASSUME NEW n \in Nat PROVE run[n][n] \in V
    BY <1>1
  <2> QED
    BY <2>1
<1>4. f[0] = base
  BY <1>1
<1>5. ASSUME NEW i \in Nat PROVE f[i + 1] = step[i][f[i]]
  <2>1. i + 1 \in 1 .. i + 1 /\ i + 1 \in Nat /\ (i + 1) - 1 = i /\ i \in 0 .. i
    OBVIOUS
  <2>2. run[i + 1][i + 1] = step[i][run[i + 1][i]]
    BY <1>1, <2>1
  <2>3. run[i + 1][i] = run[i][i]
    BY <1>2, <2>1
  <2> QED
    BY <2>1, <2>2, <2>3
<1> HIDE DEF f
<1>6. Endless(f, base, step)
  BY <1>4, <1>5 DEF Endless
<1> QED
  BY <1>3, <1>6

-----------------------------------------------------------------------------
(* Each exponent doubles the power: an interval with one more number has its
   old subsets, and as many that hold the new number. *)
LEMMA PowersDouble == 2^0 = 1 /\ \A n \in Nat : 2^n \in Nat \ {0} /\ 2^(n + 1) = 2 * 2^n
<1>1. \A n \in Nat : IsFiniteSet(SUBSET (1 .. n)) /\ Cardinality(SUBSET (1 .. n)) = 2^n
  <2> TAKE n \in Nat
  <2>1. IsFiniteSet(1 .. n) /\ Cardinality(1 .. n) = n
    BY FS_Interval
  <2> QED
    BY <2>1, FS_SUBSET
<1>2. 2^0 = 1
  <2>1. IsFiniteSet({}) /\ Cardinality({}) = 0
    BY FS_EmptySet
  <2>2. Cardinality(SUBSET {}) = 2^0
    BY <2>1, FS_SUBSET
  <2>3. SUBSET {} = {{}}
    OBVIOUS
  <2> QED
    BY <2>2, <2>3, FS_Singleton
<1>3. ASSUME NEW n \in Nat PROVE 2^n \in Nat \ {0} /\ 2^(n + 1) = 2 * 2^n
  <2> DEFINE old == SUBSET (1 .. n)
             f == [x \in old |-> x \cup {n + 1}]
             new == {f[x] : x \in old}
  <2>1. 1 .. n + 1 = (1 .. n) \cup {n + 1} /\ n + 1 \notin 1 .. n
    OBVIOUS
  <2>2. SUBSET (1 .. n + 1) = old \cup new
    <3>1. ASSUME NEW x \in SUBSET (1 .. n + 1) PROVE x \in old \cup new
      <4>1. CASE n + 1 \in x
        <5>1. x \ {n + 1} \in old /\ x = f[x \ {n + 1}]
          BY <2>1, <4>1
        <5> QED
          BY <5>1
      <4>2. CASE n + 1 \notin x
        BY <2>1, <4>2
      <4> QED
        BY <4>1, <4>2
    <3>2. old \cup new \subseteq SUBSET (1 .. n + 1)
      BY <2>1
    <3> QED
      BY <3>1, <3>2
  <2>3. old \cap new = {}
    BY <2>1
  <2>4. f \in Bijection(old, new)
    <3>1. ASSUME NEW x \in old, NEW y \in old, f[x] = f[y] PROVE x = y
      <4>1. f[x] = x \cup {n + 1} /\ f[y] = y \cup {n + 1} /\ n + 1 \notin x /\ n + 1 \notin y
        BY <2>1
      <4> HIDE DEF f
      <4>2. x = f[x] \ {n + 1} /\ y = f[y] \ {n + 1}
        BY <4>1
      <4> QED
        BY <3>1, <4>2
    <3>2. f \in [old -> new] /\ \A y \in new : \E x \in old : f[x] = y
      OBVIOUS
    <3> HIDE DEF f, old, new
    <3> QED
      BY <3>1, <3>2 DEF Bijection, Injection, Surjection, IsInjective
  <2>5. IsFiniteSet(old) /\ Cardinality(old) = 2^n
    BY <1>1
  <2>6. Cardinality(SUBSET (1 .. n + 1)) = 2^(n + 1)
    BY <1>1
  <2> HIDE DEF old, new, f
  <2>7. IsFiniteSet(new) /\ Cardinality(new) = Cardinality(old)
    BY <2>4, <2>5, FS_Bijection DEF ExistsBijection
  <2>8. Cardinality(old \cup new) = Cardinality(old) + Cardinality(new)
    <3>1. Cardinality(old \cup new) = Cardinality(old) + Cardinality(new) - Cardinality(old \cap new)
      BY <2>5, <2>7, FS_Union
    <3>2. Cardinality(old \cap new) = 0 /\ Cardinality(old) \in Nat
      BY <2>3, <2>5, FS_EmptySet, FS_CardinalityType
    <3> QED
      BY <2>7, <3>1, <3>2
  <2>9. Cardinality(old) \in Nat /\ Cardinality(old) # 0
    <3>1. {} \in old
      BY DEF old
    <3> QED
      BY <2>5, <3>1, FS_EmptySet, FS_CardinalityType
  <2> DEFINE c == Cardinality(old)
             p == 2^(n + 1)
  <2>10. c \in Nat \ {0} /\ 2^n = c
    BY <2>5, <2>9
  <2>11. p = c + c
    BY <2>2, <2>6, <2>7, <2>8
  <2> HIDE DEF c, p
  <2>12. c + c = 2 * c
    BY <2>10
  <2> QED
    BY <2>10, <2>11, <2>12, Zenon DEF p
<1> QED
  BY <1>2, <1>3

(* Exponents add up. *)
LEMMA PowersMultiply == \A a, b \in Nat : 2^(a + b) = 2^a * 2^b
<1> TAKE a \in Nat
<1> DEFINE T == {b \in Nat : 2^(a + b) = 2^a * 2^b}
<1>1. 2^a \in Nat
  BY PowersDouble, Zenon
<1>2. 0 \in T
  <2>1. a + 0 = a
    OBVIOUS
  <2>2. 2^a * 1 = 2^a
    BY <1>1
  <2>3. 2^0 = 1
    BY PowersDouble
  <2> QED
    BY <2>1, <2>2, <2>3
<1>3. ASSUME NEW b \in Nat, b \in T PROVE b + 1 \in T
  <2> DEFINE x == 2^a
             y == 2^b
             both == 2^(a + b)
  <2>1. 2^((a + b) + 1) = 2 * both
    <3>1. a + b \in Nat
      OBVIOUS
    <3> QED
      BY <3>1, PowersDouble, Zenon
  <2>2. 2^(b + 1) = 2 * y /\ y \in Nat
    BY PowersDouble, Zenon
  <2>3. both = x * y
    BY <1>3
  <2>4. a + (b + 1) = (a + b) + 1
    OBVIOUS
  <2>5. 2^(a + (b + 1)) = 2 * both
    BY <2>1, <2>4
  <2> HIDE DEF x, y, both
  <2>6. x \in Nat
    BY <1>1 DEF x
  <2>7. 2 * (x * y) = x * (2 * y)
    BY <2>2, <2>6
  <2>8. 2^(a + (b + 1)) = x * 2^(b + 1)
    BY <2>2, <2>3, <2>5, <2>7
  <2> QED
    BY <2>8 DEF x
<1> HIDE DEF T
<1>4. Nat \subseteq T
  BY <1>2, <1>3, SetInduction
<1> QED
  BY <1>4 DEF T

(* A multiple of the divisor adds to the quotient. *)
LEMMA AddMultiple ==
  ASSUME NEW m \in Nat \ {0}, NEW v \in Int, NEW c \in Int
  PROVE  (v + m * c) \div m = (v \div m) + c
<1> DEFINE d == v \div m
           rest == v % m
           mc == m * c
           md == m * d
<1>1. d \in Int /\ rest \in 0 .. m - 1 /\ v = md + rest
  BY DivisionFacts
<1> HIDE DEF d, rest
<1>2. m * (d + c) = md + mc
  BY <1>1
<1>3. mc \in Int /\ md \in Int
  BY <1>1
<1> HIDE DEF mc, md
<1>4. v + mc = m * (d + c) + rest
  BY <1>1, <1>2, <1>3
<1>5. (v + mc) \div m = d + c
  BY <1>1, <1>3, <1>4, QuotientIsUnique
<1> QED
  BY <1>5 DEF d, mc

(* Two powers of two, the lower and the higher. *)
LEMMA HigherPower ==
  ASSUME NEW p \in Nat, NEW j \in Nat, p < j
  PROVE  \E k \in Nat \ {0} : 2^j = 2^p * (2 * k) /\ 2^p \in Nat \ {0}
<1> DEFINE k == 2^(j - p - 1)
<1>1. j - p - 1 \in Nat /\ j - p \in Nat /\ (j - p - 1) + 1 = j - p /\ p + (j - p) = j
  OBVIOUS
<1>2. k \in Nat \ {0} /\ 2^((j - p - 1) + 1) = 2 * k /\ 2^p \in Nat \ {0}
  BY <1>1, PowersDouble, Zenon
<1>3. 2^(p + (j - p)) = 2^p * 2^(j - p)
  BY <1>1, PowersMultiply, Zenon
<1>4. 2^j = 2^p * (2 * k)
  BY <1>1, <1>2, <1>3, Zenon
<1> HIDE DEF k
<1> QED
  BY <1>2, <1>4
=============================================================================

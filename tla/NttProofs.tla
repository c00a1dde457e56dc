------------------------------ MODULE NttProofs ------------------------------
(***************************************************************************)
(* The arithmetic of ModQ, and the transform of ntt.hpp for every degree,  *)
(* modulus and root: at every turn of ml_kem_ntt the blocks hold the       *)
(* input's residues, and multiplying through the transform is multiplying  *)
(* in Z_q[X]/(X^N + 1).  The inductive invariants, Splitting and Merging,  *)
(* say of every place in the loops which residues each block holds, and    *)
(* how many times; what one turn does to a block is one polynomial         *)
(* identity modulo Q, for the block's own root.                            *)
(***************************************************************************)
EXTENDS Ntt, NaturalFacts, TLAPS

-----------------------------------------------------------------------------
(* Powers and sums. *)

(* The powers of x, and the sums of the first values of h. *)
IsPowers(f, x) == f[0] = 1 /\ \A i \in Nat : f[i + 1] = f[i] * x
Powers(x) == CHOOSE f \in [Nat -> Int] : IsPowers(f, x)

IsSums(f, h) == f[0] = 0 /\ \A i \in Nat : f[i + 1] = f[i] + h[i]
Sums(h) == CHOOSE f \in [Nat -> Int] : IsSums(f, h)

(* Both exist, and unfold one index at a time. *)
LEMMA PowersUnfold ==
  ASSUME NEW x \in Int
  PROVE  /\ Powers(x) \in [Nat -> Int] /\ Powers(x)[0] = 1
         /\ \A i \in Nat : Powers(x)[i] \in Int /\ Powers(x)[i + 1] = Powers(x)[i] * x
<1> DEFINE step == [i \in Nat |-> [v \in Int |-> v * x]]
<1>1. step \in [Nat -> [Int -> Int]]
  OBVIOUS
<1>2. \A i \in Nat, v \in Int : step[i][v] = v * x
  OBVIOUS
<1> HIDE DEF step
<1>3. PICK f \in [Nat -> Int] : f[0] = 1 /\ \A i \in Nat : f[i + 1] = step[i][f[i]]
  <2>1. 1 \in Int
    OBVIOUS
  <2>2. \E f \in [Nat -> Int] : Endless(f, 1, step)
    BY <1>1, <2>1, EndlessRecursionExists, Zenon
  <2> QED
    BY <2>2 DEF Endless
<1>4. IsPowers(f, x)
  BY <1>2, <1>3 DEF IsPowers
<1>5. Powers(x) \in [Nat -> Int] /\ IsPowers(Powers(x), x)
  BY <1>4, Zenon DEF Powers
<1> HIDE DEF Powers
<1> QED
  BY <1>5 DEF IsPowers

(* The sums of numbers are numbers. *)
LEMMA SumsUnfold ==
  ASSUME NEW h \in [Nat -> Int]
  PROVE  /\ Sums(h) \in [Nat -> Int] /\ Sums(h)[0] = 0
         /\ \A i \in Nat : Sums(h)[i] \in Int /\ Sums(h)[i + 1] = Sums(h)[i] + h[i]
<1> DEFINE step == [i \in Nat |-> [v \in Int |-> v + h[i]]]
<1>1. step \in [Nat -> [Int -> Int]]
  OBVIOUS
<1>2. \A i \in Nat, v \in Int : step[i][v] = v + h[i]
  OBVIOUS
<1> HIDE DEF step
<1>3. PICK f \in [Nat -> Int] : f[0] = 0 /\ \A i \in Nat : f[i + 1] = step[i][f[i]]
  <2>1. 0 \in Int
    OBVIOUS
  <2>2. \E f \in [Nat -> Int] : Endless(f, 0, step)
    BY <1>1, <2>1, EndlessRecursionExists, Zenon
  <2> QED
    BY <2>2 DEF Endless
<1>4. IsSums(f, h)
  BY <1>2, <1>3 DEF IsSums
<1>5. Sums(h) \in [Nat -> Int] /\ IsSums(Sums(h), h)
  BY <1>4, Zenon DEF Sums
<1> HIDE DEF Sums
<1> QED
  BY <1>5 DEF IsSums

-----------------------------------------------------------------------------
(* ModQ (module Field): its operations are those of the integers modulo Q, for
   every modulus, and no intermediate value exceeds the square of it: less than
   2^46 for the two moduli the code uses, well within an int64_t.  The other
   modules write % Q for them on the strength of this. *)
Residues == 0 .. Q - 1

(* A number in 0 .. Q - 1 that differs from a value by a multiple of Q is what
   % gives. *)
LEMMA RemainderIsUnique ==
  ASSUME Q \in Nat \ {0}, NEW x \in Int, NEW k \in Int, NEW rest \in Residues,
         x = Q * k + rest
  PROVE  x % Q = rest
<1>1. rest \in 0 .. Q - 1
  BY DEF Residues
<1> QED
  BY <1>1, QuotientIsUnique

(* ModQ's constructor: every integer, negative ones included, is brought to
   its residue, although C++'s remainder is negative for those. *)
THEOREM NormalizeIsMod ==
  ASSUME Q \in Nat \ {0}, NEW x \in Int
  PROVE  Normalize(x) = x % Q /\ Normalize(x) \in Residues
<1>1. CASE x >= 0
  BY <1>1 DEF Normalize, Remainder, Residues
<1>2. CASE x < 0
  <2> DEFINE d == (-x) \div Q
             m == (-x) % Q
  <2>1. d \in Int /\ m \in 0 .. Q - 1 /\ -x = Q * d + m
    BY DivisionFacts
  <2>2. Normalize(x) = IF -m < 0 THEN Q - m ELSE -m
    BY <1>2, <2>1 DEF Normalize, Remainder
  <2> HIDE DEF d, m
  <2>3. CASE m = 0
    <3>1. x = Q * (-d) + 0
      BY <2>1, <2>3
    <3> QED
      BY <2>2, <2>3, <2>1, <3>1, RemainderIsUnique DEF Residues
  <2>4. CASE m # 0
    <3>1. x = Q * (-d - 1) + (Q - m)
      BY <2>1
    <3>2. Q - m \in Residues /\ -d - 1 \in Int
      BY <2>1, <2>4 DEF Residues
    <3>3. x % Q = Q - m
      BY <3>1, <3>2, RemainderIsUnique
    <3> QED
      BY <2>1, <2>2, <2>4, <3>2, <3>3
  <2> QED
    BY <2>3, <2>4
<1> QED
  BY <1>1, <1>2

(* Products of residues are the largest values computed. *)
LEMMA ProductsAreSmall ==
  ASSUME Q \in Nat \ {0}, NEW x \in Residues, NEW y \in Residues
  PROVE  x * y \in 0 .. Q * Q
<1>1. x \in Nat /\ y \in Nat /\ x <= Q /\ y <= Q
  BY DEF Residues
<1>2. x * y >= 0
  BY <1>1
<1>3. x * y <= Q * y
  BY <1>1
<1>4. Q * y <= Q * Q
  BY <1>1
<1>5. x * y \in Int /\ Q * y \in Int /\ Q * Q \in Int
  BY <1>1
<1> QED
  BY <1>2, <1>3, <1>4, <1>5

(* The operators of ModQ: each is the operation modulo Q, its result is a
   residue again, and what is normalised for it stays below Q * Q. *)
THEOREM OperationsAreModular ==
  ASSUME Q \in Nat \ {0}, NEW x \in Residues, NEW y \in Residues
  PROVE  /\ Plus(x, y) = (x + y) % Q /\ Minus(x, y) = (x - y) % Q
         /\ Times(x, y) = (x * y) % Q /\ Negated(x) = (-x) % Q
         /\ {Plus(x, y), Minus(x, y), Times(x, y), Negated(x)} \subseteq Residues
         /\ {x * y, x - y, -x} \subseteq -(Q * Q) .. Q * Q /\ x + y <= 2 * Q
<1>1. x \in Int /\ y \in Int /\ x \in 0 .. Q - 1 /\ y \in 0 .. Q - 1
  BY DEF Residues
<1>2. x + y \in Int /\ x - y \in Int /\ -x \in Int /\ x * y \in Int
  BY <1>1
<1>3. x * y \in 0 .. Q * Q
  BY ProductsAreSmall
<1>4. Q * Q \in Int /\ Q * Q >= Q
  OBVIOUS
<1>5. Plus(x, y) = (x + y) % Q /\ Plus(x, y) \in Residues
  BY <1>2, NormalizeIsMod DEF Plus
<1>6. Minus(x, y) = (x - y) % Q /\ Minus(x, y) \in Residues
  BY <1>2, NormalizeIsMod DEF Minus
<1>7. Times(x, y) = (x * y) % Q /\ Times(x, y) \in Residues
  BY <1>2, NormalizeIsMod DEF Times
<1>8. Negated(x) = (-x) % Q /\ Negated(x) \in Residues
  BY <1>2, NormalizeIsMod DEF Negated
<1>9. x * y \in -(Q * Q) .. Q * Q
  BY <1>3, <1>4
<1>10. x - y \in -(Q * Q) .. Q * Q /\ -x \in -(Q * Q) .. Q * Q /\ x + y <= 2 * Q
  BY <1>1, <1>4
<1> QED
  BY <1>5, <1>6, <1>7, <1>8, <1>9, <1>10

(* The centred form of a residue is that residue again when normalised, and is
   at most half the modulus away from zero. *)
THEOREM CenteredIsSmall ==
  ASSUME Q \in Nat \ {0}, NEW x \in Residues
  PROVE  /\ Centered(x) \in -(Q \div 2) .. Q \div 2
         /\ Normalize(Centered(x)) = x
<1>1. x \in 0 .. Q - 1 /\ Q \div 2 \in Int /\ Q - 1 <= 2 * (Q \div 2) /\ 2 * (Q \div 2) <= Q
  BY DEF Residues
<1>2. Centered(x) \in Int
  BY <1>1 DEF Centered
<1>3. Centered(x) % Q = x
  <2>1. CASE Centered(x) = x
    BY <1>1, <2>1
  <2>2. CASE Centered(x) = x - Q
    <3>1. \A k \in Int, rest \in Residues : Centered(x) = Q * k + rest => Centered(x) % Q = rest
      BY <1>2, RemainderIsUnique
    <3>2. Centered(x) = Q * (-1) + x
      BY <1>1, <2>2
    <3> QED
      BY <3>1, <3>2
  <2> QED
    BY <2>1, <2>2 DEF Centered
<1>4. Normalize(Centered(x)) = x
  BY <1>2, <1>3, NormalizeIsMod
<1>5. Centered(x) \in -(Q \div 2) .. Q \div 2
  BY <1>1 DEF Centered
<1> QED
  BY <1>4, <1>5

-----------------------------------------------------------------------------
(* Integers with the same remainder modulo Q. *)
Same(x, y) == x % Q = y % Q

(* There are residues, and 1 and -1 are different ones. *)
LEMMA ModulusIsPositive == Q \in Nat \ {0} /\ Q > 2
BY ConstantsAssumption

(* The same remainder is a difference that is a multiple of Q. *)
LEMMA SameMeans ==
  ASSUME NEW x \in Int, NEW y \in Int
  PROVE  Same(x, y) <=> \E k \in Int : x = y + Q * k
<1>1. ASSUME Same(x, y) PROVE \E k \in Int : x = y + Q * k
  <2> DEFINE a0 == x \div Q
             b0 == y \div Q
             rest == x % Q
  <2>1. a0 \in Int /\ b0 \in Int /\ rest \in Int /\ x = Q * a0 + rest /\ y = Q * b0 + rest
    BY <1>1, ModulusIsPositive, DivisionFacts DEF Same
  <2> HIDE DEF a0, b0, rest
  <2>2. x = y + Q * (a0 - b0) /\ a0 - b0 \in Int
    BY <2>1, ModulusIsPositive
  <2> QED
    BY <2>2
<1>2. ASSUME NEW k \in Int, x = y + Q * k PROVE Same(x, y)
  <2> DEFINE b0 == y \div Q
             rest == y % Q
  <2>1. b0 \in Int /\ rest \in 0 .. Q - 1 /\ y = Q * b0 + rest
    BY ModulusIsPositive, DivisionFacts
  <2>2. rest = y % Q
    OBVIOUS
  <2> HIDE DEF b0, rest
  <2>3. x = Q * (b0 + k) + rest /\ b0 + k \in Int
    BY <1>2, <2>1, ModulusIsPositive
  <2>4. x % Q = rest
    BY <2>1, <2>3, ModulusIsPositive, QuotientIsUnique
  <2> QED
    BY <2>2, <2>4 DEF Same
<1> QED
  BY <1>1, <1>2

(* Sums, differences and products of the same are the same. *)
LEMMA SameSums ==
  ASSUME NEW x \in Int, NEW y \in Int, NEW u \in Int, NEW v \in Int, Same(x, u), Same(y, v)
  PROVE  Same(x + y, u + v) /\ Same(x - y, u - v) /\ Same(x * y, u * v)
<1>1. PICK k \in Int : x = u + Q * k
  BY SameMeans
<1>2. PICK l \in Int : y = v + Q * l
  BY SameMeans
<1>3. Q \in Int
  BY ModulusIsPositive
<1>4. Same(x + y, u + v)
  <2>1. x + y = (u + v) + Q * (k + l) /\ k + l \in Int /\ x + y \in Int /\ u + v \in Int
    BY <1>1, <1>2, <1>3
  <2> QED
    BY <2>1, SameMeans
<1>5. Same(x - y, u - v)
  <2>1. x - y = (u - v) + Q * (k - l) /\ k - l \in Int /\ x - y \in Int /\ u - v \in Int
    BY <1>1, <1>2, <1>3
  <2> QED
    BY <2>1, SameMeans
<1>6. Same(x * y, u * v)
  <2> DEFINE n == u * l + k * v + Q * (k * l)
  <2>1. x * y = u * v + Q * n
    BY <1>1, <1>2, <1>3
  <2>2. n \in Int /\ x * y \in Int /\ u * v \in Int
    BY <1>3
  <2> HIDE DEF n
  <2> QED
    BY <2>1, <2>2, SameMeans
<1> QED
  BY <1>4, <1>5, <1>6

(* A remainder is the same as what it is the remainder of, and the same
   residues are equal. *)
LEMMA RemainderIsSame ==
  ASSUME NEW x \in Int
  PROVE  x % Q \in Residues /\ x % Q \in Int /\ Same(x % Q, x)
<1> DEFINE rest == x % Q
<1>1. rest \in 0 .. Q - 1
  BY ModulusIsPositive, DivisionFacts
<1> HIDE DEF rest
<1>2. rest % Q = rest /\ rest \in Int
  BY <1>1, ModulusIsPositive, SmallRemainder
<1> QED
  BY <1>1, <1>2 DEF rest, Same, Residues

(* Residues that are the same are equal. *)
LEMMA SameResidues ==
  ASSUME NEW x \in Residues, NEW y \in Residues, Same(x, y)
  PROVE  x = y
BY ModulusIsPositive, SmallRemainder DEF Same, Residues

(* A residue is its own remainder. *)
LEMMA ResiduesAreNumbers ==
  ASSUME NEW x \in Residues
  PROVE  x \in Int /\ x \in Nat /\ x % Q = x
BY ModulusIsPositive, SmallRemainder DEF Residues

(* ModQ's operators compute the same as the integers' do. *)
LEMMA OperationsAreSame ==
  ASSUME NEW x \in Residues, NEW y \in Residues
  PROVE  /\ Plus(x, y) \in Residues /\ Same(Plus(x, y), x + y)
         /\ Minus(x, y) \in Residues /\ Same(Minus(x, y), x - y)
         /\ Times(x, y) \in Residues /\ Same(Times(x, y), x * y)
<1>1. x \in Int /\ y \in Int
  BY ResiduesAreNumbers
<1>2. x + y \in Int /\ x - y \in Int /\ x * y \in Int
  BY <1>1
<1>3. Plus(x, y) = (x + y) % Q /\ Minus(x, y) = (x - y) % Q /\ Times(x, y) = (x * y) % Q
  BY ModulusIsPositive, OperationsAreModular
<1> QED
  BY <1>2, <1>3, RemainderIsSame

(* Exponents add up, for the powers of any number. *)
LEMMA PowersOfSum ==
  ASSUME NEW x \in Int, NEW n \in Nat, NEW m \in Nat
  PROVE  Powers(x)[n + m] = Powers(x)[n] * Powers(x)[m]
<1> DEFINE p == Powers(x)
           T == {k \in Nat : p[n + k] = p[n] * p[k]}
<1>0. p[0] = 1 /\ \A i \in Nat : p[i] \in Int /\ p[i + 1] = p[i] * x
  BY PowersUnfold
<1> HIDE DEF p
<1>1. 0 \in T
  <2>1. n + 0 = n /\ p[n] * 1 = p[n]
    BY <1>0
  <2> QED
    BY <1>0, <2>1
<1>2. ASSUME NEW k \in Nat, k \in T PROVE k + 1 \in T
  <2>1. n + k \in Nat /\ n + (k + 1) = (n + k) + 1
    OBVIOUS
  <2>2. p[(n + k) + 1] = p[n + k] * x /\ p[k + 1] = p[k] * x
    BY <1>0, <2>1
  <2>3. p[n + k] = p[n] * p[k]
    BY <1>2
  <2>4. (p[n] * p[k]) * x = p[n] * (p[k] * x)
    <3> DEFINE u == p[n]
               v == p[k]
    <3>1. u \in Int /\ v \in Int
      BY <1>0
    <3> HIDE DEF u, v
    <3>2. (u * v) * x = u * (v * x)
      BY <3>1
    <3> QED
      BY <3>2 DEF u, v
  <2>5. p[n + (k + 1)] = p[n] * p[k + 1]
    BY <2>1, <2>2, <2>3, <2>4
  <2> QED
    BY <2>5
<1> HIDE DEF T
<1>3. m \in T
  BY <1>1, <1>2, SetInduction
<1> QED
  BY <1>3 DEF T, p

(* The powers of a square are the even ones. *)
LEMMA PowersOfSquare ==
  ASSUME NEW x \in Int, NEW n \in Nat
  PROVE  Powers(x)[2 * n] = Powers(x * x)[n] /\ Powers(x)[2 * n + 1] = x * Powers(x * x)[n]
<1> DEFINE p == Powers(x)
           s == Powers(x * x)
           T == {k \in Nat : p[2 * k] = s[k]}
<1>0. p[0] = 1 /\ \A i \in Nat : p[i] \in Int /\ p[i + 1] = p[i] * x
  BY PowersUnfold
<1>a. x * x \in Int
  OBVIOUS
<1>b. s[0] = 1 /\ \A i \in Nat : s[i] \in Int /\ s[i + 1] = s[i] * (x * x)
  BY <1>a, PowersUnfold
<1> HIDE DEF p, s
<1>1. 0 \in T
  BY <1>0, <1>b
<1>2. ASSUME NEW k \in Nat, k \in T PROVE k + 1 \in T
  <2>1. 2 * k \in Nat /\ 2 * k + 1 \in Nat /\ 2 * (k + 1) = (2 * k + 1) + 1
    OBVIOUS
  <2>2. p[(2 * k + 1) + 1] = p[2 * k + 1] * x /\ p[2 * k + 1] = p[2 * k] * x
    BY <1>0, <2>1
  <2>3. p[2 * k] = s[k] /\ s[k] \in Int
    BY <1>2, <1>b
  <2>4. (s[k] * x) * x = s[k] * (x * x)
    <3> DEFINE u == s[k]
    <3> HIDE DEF u
    <3>1. u \in Int
      BY <2>3 DEF u
    <3>2. (u * x) * x = u * (x * x)
      BY <3>1
    <3> QED
      BY <3>2 DEF u
  <2>5. s[k + 1] = s[k] * (x * x)
    BY <1>b
  <2>6. p[2 * (k + 1)] = s[k + 1]
    BY <2>1, <2>2, <2>3, <2>4, <2>5
  <2> QED
    BY <2>6
<1> HIDE DEF T
<1>3. n \in T
  BY <1>1, <1>2, SetInduction
<1>4. p[2 * n] = s[n]
  BY <1>3 DEF T
<1>5. p[2 * n + 1] = x * s[n]
  <2>1. p[2 * n + 1] = p[2 * n] * x
    BY <1>0
  <2>2. s[n] \in Int
    BY <1>b
  <2>3. s[n] * x = x * s[n]
    BY <2>2
  <2> QED
    BY <1>4, <2>1, <2>3
<1> QED
  BY <1>4, <1>5 DEF p, s

(* Powers of the same are the same. *)
LEMMA PowersAreSame ==
  ASSUME NEW x \in Int, NEW y \in Int, Same(x, y), NEW n \in Nat
  PROVE  Same(Powers(x)[n], Powers(y)[n])
<1> DEFINE p == Powers(x)
           q == Powers(y)
           T == {k \in Nat : Same(p[k], q[k])}
<1>0. p[0] = 1 /\ \A i \in Nat : p[i] \in Int /\ p[i + 1] = p[i] * x
  BY PowersUnfold
<1>a. q[0] = 1 /\ \A i \in Nat : q[i] \in Int /\ q[i + 1] = q[i] * y
  BY PowersUnfold
<1> HIDE DEF p, q
<1>1. 0 \in T
  BY <1>0, <1>a DEF Same
<1>2. ASSUME NEW k \in Nat, k \in T PROVE k + 1 \in T
  <2>1. Same(p[k], q[k]) /\ p[k] \in Int /\ q[k] \in Int
    BY <1>0, <1>a, <1>2
  <2>2. Same(p[k] * x, q[k] * y)
    BY <2>1, SameSums
  <2> QED
    BY <1>0, <1>a, <2>2
<1> HIDE DEF T
<1>3. n \in T
  BY <1>1, <1>2, SetInduction
<1> QED
  BY <1>3 DEF T, p, q

-----------------------------------------------------------------------------
(* Every m-th coefficient of P from t on, as the polynomial they are the
   coefficients of; the value at x of its first n terms.  For n = N / m these
   are the coefficients of P modulo X^m - x. *)
Terms(P, m, x, t) == [j \in Nat |-> P[t + j * m] * Powers(x)[j]]
Eval(P, m, n, x, t) == Sums(Terms(P, m, x, t))[n]

Sequence == [Nat -> Int]

(* The terms are numbers again. *)
LEMMA TermsAreNumbers ==
  ASSUME NEW P \in Sequence, NEW m \in Nat, NEW x \in Int, NEW t \in Nat
  PROVE  /\ Terms(P, m, x, t) \in Sequence
         /\ \A j \in Nat : Terms(P, m, x, t)[j] = P[t + j * m] * Powers(x)[j]
<1>1. ASSUME NEW j \in Nat PROVE P[t + j * m] * Powers(x)[j] \in Int
  <2>1. t + j * m \in Nat
    OBVIOUS
  <2>2. P[t + j * m] \in Int
    BY <2>1 DEF Sequence
  <2>3. Powers(x)[j] \in Int
    BY PowersUnfold
  <2> QED
    BY <2>2, <2>3
<1> QED
  BY <1>1 DEF Terms, Sequence

OneTermMore(P, m, n, x, t) ==
  /\ Eval(P, m, 0, x, t) = 0 /\ Eval(P, m, n, x, t) \in Int
  /\ P[t + n * m] \in Int /\ Powers(x)[n] \in Int
  /\ Eval(P, m, n + 1, x, t) = Eval(P, m, n, x, t) + P[t + n * m] * Powers(x)[n]

(* The value of one more term. *)
LEMMA EvalUnfolds ==
  ASSUME NEW P \in Sequence, NEW m \in Nat, NEW x \in Int, NEW t \in Nat, NEW n \in Nat
  PROVE  OneTermMore(P, m, n, x, t)
<1>1. /\ Terms(P, m, x, t) \in [Nat -> Int]
      /\ Terms(P, m, x, t)[n] = P[t + n * m] * Powers(x)[n]
  BY TermsAreNumbers DEF Sequence
<1>2. t + n * m \in Nat
  OBVIOUS
<1>3. P[t + n * m] \in Int /\ Powers(x)[n] \in Int
  BY <1>2, PowersUnfold DEF Sequence
<1> DEFINE h == Terms(P, m, x, t)
<1>4. Sums(h)[0] = 0 /\ Sums(h)[n] \in Int /\ Sums(h)[n + 1] = Sums(h)[n] + h[n]
  BY <1>1, SumsUnfold
<1> QED
  BY <1>1, <1>3, <1>4 DEF Eval, OneTermMore

(* One step of a sum of products, modulo Q. *)
LEMMA SameMultiplyAdd ==
  ASSUME NEW e \in Int, NEW p \in Int, NEW u \in Int, NEW f \in Int, NEW r \in Int, NEW v \in Int,
         Same(e, f), Same(p, r), Same(u, v)
  PROVE  Same(e + p * u, f + r * v) /\ e + p * u \in Int /\ Same(p * u, r * v) /\ p * u \in Int
<1> DEFINE g == p * u
           h == r * v
<1>1. Same(g, h)
  BY SameSums
<1>2. g \in Int /\ h \in Int
  OBVIOUS
<1> HIDE DEF g, h
<1>3. Same(e + g, f + h) /\ e + g \in Int
  BY <1>1, <1>2, SameSums
<1> QED
  BY <1>1, <1>2, <1>3 DEF g, h

(* Sequences and points that are the same have values that are the same. *)
LEMMA EvalIsSame ==
  ASSUME NEW P \in Sequence, NEW R \in Sequence, NEW m \in Nat, NEW x \in Int, NEW y \in Int,
         NEW t \in Nat, NEW t2 \in Nat, NEW n \in Nat, Same(x, y),
         \A j \in 0 .. n - 1 : Same(P[t + j * m], R[t2 + j * m])
  PROVE  Same(Eval(P, m, n, x, t), Eval(R, m, n, y, t2))
<1> DEFINE E(k) == Eval(P, m, k, x, t)
           F(k) == Eval(R, m, k, y, t2)
           p(k) == P[t + k * m]
           r(k) == R[t2 + k * m]
           u(k) == Powers(x)[k]
           v(k) == Powers(y)[k]
           T == {k \in Nat : k <= n => Same(E(k), F(k))}
<1>a. \A k \in Nat : OneTermMore(P, m, k, x, t) /\ OneTermMore(R, m, k, y, t2)
  BY EvalUnfolds
<1>1. \A k \in Nat : E(k + 1) = E(k) + p(k) * u(k) /\ E(k) \in Int /\ p(k) \in Int /\ u(k) \in Int
  BY <1>a DEF OneTermMore
<1>2. \A k \in Nat : F(k + 1) = F(k) + r(k) * v(k) /\ F(k) \in Int /\ r(k) \in Int /\ v(k) \in Int
  BY <1>a DEF OneTermMore
<1>3. E(0) = 0 /\ F(0) = 0
  BY <1>a DEF OneTermMore
<1>4. \A k \in 0 .. n - 1 : Same(p(k), r(k))
  OBVIOUS
<1>5. \A k \in Nat : Same(u(k), v(k))
  BY PowersAreSame
<1> HIDE DEF E, F, p, r, u, v
<1>6. 0 \in T
  BY <1>3 DEF Same
<1>7. ASSUME NEW k \in Nat, k \in T PROVE k + 1 \in T
  <2> SUFFICES ASSUME k + 1 <= n PROVE Same(E(k + 1), F(k + 1))
    OBVIOUS
  <2>1. E(k + 1) = E(k) + p(k) * u(k) /\ E(k) \in Int /\ p(k) \in Int /\ u(k) \in Int
    BY <1>1
  <2>2. F(k + 1) = F(k) + r(k) * v(k) /\ F(k) \in Int /\ r(k) \in Int /\ v(k) \in Int
    BY <1>2
  <2>3. Same(E(k), F(k)) /\ Same(p(k), r(k)) /\ Same(u(k), v(k))
    BY <1>4, <1>5, <1>7
  <2>5. Same(E(k) + p(k) * u(k), F(k) + r(k) * v(k))
    BY <2>1, <2>2, <2>3, SameMultiplyAdd
  <2> QED
    BY <2>1, <2>2, <2>5
<1> HIDE DEF T
<1>8. n \in T
  BY <1>6, <1>7, SetInduction
<1>9. Same(E(n), F(n))
  BY <1>8 DEF T
<1> QED
  BY <1>9 DEF E, F

(* The terms of even number and those of odd number, taken separately. *)
LEMMA EvalSplits ==
  ASSUME NEW P \in Sequence, NEW m \in Nat, NEW x \in Int, NEW t \in Nat, NEW n \in Nat
  PROVE  Eval(P, m, 2 * n, x, t)
           = Eval(P, 2 * m, n, x * x, t) + x * Eval(P, 2 * m, n, x * x, t + m)
<1> DEFINE E(k) == Eval(P, m, k, x, t)
           F(k) == Eval(P, 2 * m, k, x * x, t)
           G(k) == Eval(P, 2 * m, k, x * x, t + m)
           T == {k \in Nat : E(2 * k) = F(k) + x * G(k)}
           p(k) == P[t + k * m]
           f(k) == P[t + k * (2 * m)]
           g(k) == P[(t + m) + k * (2 * m)]
           u(k) == Powers(x)[k]
           v(k) == Powers(x * x)[k]
<1>0. 2 * m \in Nat /\ x * x \in Int /\ t + m \in Nat
  OBVIOUS
<1>a. \A k \in Nat : OneTermMore(P, m, k, x, t)
  BY EvalUnfolds
<1>b. \A k \in Nat : OneTermMore(P, 2 * m, k, x * x, t)
  BY <1>0, EvalUnfolds
<1>c. \A k \in Nat : OneTermMore(P, 2 * m, k, x * x, t + m)
  BY <1>0, EvalUnfolds
<1>1. \A k \in Nat : E(k + 1) = E(k) + p(k) * u(k) /\ E(k) \in Int /\ p(k) \in Int /\ u(k) \in Int
  BY <1>a DEF OneTermMore
<1>2. \A k \in Nat : F(k + 1) = F(k) + f(k) * v(k) /\ F(k) \in Int /\ f(k) \in Int /\ v(k) \in Int
  BY <1>b DEF OneTermMore
<1>3. \A k \in Nat : G(k + 1) = G(k) + g(k) * v(k) /\ G(k) \in Int /\ g(k) \in Int
  BY <1>c DEF OneTermMore
<1>4. E(0) = 0 /\ F(0) = 0 /\ G(0) = 0
  BY <1>a, <1>b, <1>c DEF OneTermMore
<1>5. ASSUME NEW k \in Nat PROVE p(2 * k) = f(k) /\ p(2 * k + 1) = g(k)
  <2>1. t + (2 * k) * m = t + k * (2 * m) /\ t + (2 * k + 1) * m = (t + m) + k * (2 * m)
    OBVIOUS
  <2> QED
    BY <2>1
<1>6. \A k \in Nat : u(2 * k) = v(k) /\ u(2 * k + 1) = x * v(k)
  BY PowersOfSquare
<1> HIDE DEF E, F, G, p, f, g, u, v
<1>7. 0 \in T
  BY <1>4
<1>8. ASSUME NEW k \in Nat, k \in T PROVE k + 1 \in T
  <2>1. 2 * k \in Nat /\ 2 * k + 1 \in Nat /\ 2 * (k + 1) = (2 * k + 1) + 1
    OBVIOUS
  <2> DEFINE Ek == E(2 * k)
             Fk == F(k)
             Gk == G(k)
             fk == f(k)
             gk == g(k)
             vk == v(k)
  <2>2. E(2 * k + 1) = Ek + fk * vk
    BY <1>1, <1>5, <1>6, <2>1
  <2>3. E(2 * (k + 1)) = E(2 * k + 1) + gk * (x * vk)
    BY <1>1, <1>5, <1>6, <2>1
  <2>4. Ek = Fk + x * Gk
    BY <1>8
  <2>5. F(k + 1) = Fk + fk * vk /\ G(k + 1) = Gk + gk * vk
    BY <1>2, <1>3
  <2>6. Fk \in Int /\ Gk \in Int /\ fk \in Int /\ gk \in Int /\ vk \in Int
    BY <1>2, <1>3
  <2> HIDE DEF Ek, Fk, Gk, fk, gk, vk
  <2>7. ((Fk + x * Gk) + fk * vk) + gk * (x * vk) = (Fk + fk * vk) + x * (Gk + gk * vk)
    BY <2>6
  <2>8. E(2 * (k + 1)) = F(k + 1) + x * G(k + 1)
    BY <2>2, <2>3, <2>4, <2>5, <2>7
  <2> QED
    BY <2>8
<1> HIDE DEF T
<1>9. n \in T
  BY <1>7, <1>8, SetInduction
<1>10. E(2 * n) = F(n) + x * G(n)
  BY <1>9 DEF T
<1> QED
  BY <1>10 DEF E, F, G

(* The value of a sequence to which a multiple of another is added. *)
AddsMultiple(W, P, V, c, m, t, n) == \A j \in 0 .. n - 1 : W[t + j * m] = P[t + j * m] + c * V[t + j * m]

(* That value is the sum of theirs. *)
LEMMA EvalIsLinear ==
  ASSUME NEW P \in Sequence, NEW V \in Sequence, NEW W \in Sequence, NEW c \in Int,
         NEW m \in Nat, NEW x \in Int, NEW t \in Nat, NEW n \in Nat,
         AddsMultiple(W, P, V, c, m, t, n)
  PROVE  Eval(W, m, n, x, t) = Eval(P, m, n, x, t) + c * Eval(V, m, n, x, t)
<1> DEFINE E(k) == Eval(W, m, k, x, t)
           F(k) == Eval(P, m, k, x, t)
           G(k) == Eval(V, m, k, x, t)
           T == {k \in Nat : k <= n => E(k) = F(k) + c * G(k)}
           e(k) == W[t + k * m]
           f(k) == P[t + k * m]
           g(k) == V[t + k * m]
           u(k) == Powers(x)[k]
<1>a. \A k \in Nat : OneTermMore(P, m, k, x, t) /\ OneTermMore(V, m, k, x, t) /\ OneTermMore(W, m, k, x, t)
  BY EvalUnfolds
<1>1. \A k \in Nat : E(k + 1) = E(k) + e(k) * u(k) /\ E(k) \in Int /\ e(k) \in Int /\ u(k) \in Int
  BY <1>a DEF OneTermMore
<1>2. \A k \in Nat : F(k + 1) = F(k) + f(k) * u(k) /\ F(k) \in Int /\ f(k) \in Int
  BY <1>a DEF OneTermMore
<1>3. \A k \in Nat : G(k + 1) = G(k) + g(k) * u(k) /\ G(k) \in Int /\ g(k) \in Int
  BY <1>a DEF OneTermMore
<1>4. E(0) = 0 /\ F(0) = 0 /\ G(0) = 0
  BY <1>a DEF OneTermMore
<1>5. \A k \in 0 .. n - 1 : e(k) = f(k) + c * g(k)
  BY DEF AddsMultiple
<1> HIDE DEF E, F, G, e, f, g, u
<1>6. 0 \in T
  BY <1>4
<1>7. ASSUME NEW k \in Nat, k \in T PROVE k + 1 \in T
  <2> SUFFICES ASSUME k + 1 <= n PROVE E(k + 1) = F(k + 1) + c * G(k + 1)
    OBVIOUS
  <2> DEFINE Fk == F(k)
             Gk == G(k)
             fk == f(k)
             gk == g(k)
             uk == u(k)
  <2>1. k \in 0 .. n - 1
    OBVIOUS
  <2>2. E(k + 1) = E(k) + e(k) * uk /\ e(k) = fk + c * gk /\ E(k) = Fk + c * Gk
    BY <1>1, <1>5, <1>7, <2>1
  <2>3. F(k + 1) = Fk + fk * uk /\ G(k + 1) = Gk + gk * uk
    BY <1>2, <1>3
  <2>4. Fk \in Int /\ Gk \in Int /\ fk \in Int /\ gk \in Int /\ uk \in Int
    BY <1>1, <1>2, <1>3
  <2> HIDE DEF Fk, Gk, fk, gk, uk
  <2>5. (Fk + c * Gk) + (fk + c * gk) * uk = (Fk + fk * uk) + c * (Gk + gk * uk)
    BY <2>4
  <2> QED
    BY <2>2, <2>3, <2>5
<1> HIDE DEF T
<1>8. n \in T
  BY <1>6, <1>7, SetInduction
<1>9. E(n) = F(n) + c * G(n)
  BY <1>8 DEF T
<1> QED
  BY <1>9 DEF E, F, G

-----------------------------------------------------------------------------
(* The twiddle factors: bit_reverse_7, ml_kem_mod_pow, ml_kem_ntt_zeta and
   ml_kem_ntt_gamma. *)

(* The turns of bit_reverse_7. *)
Reverses(f, v) ==
  f[0] = 0 /\ \A i \in 1 .. Bits : f[i] = 2 * f[i - 1] + ((v \div 2^(i - 1)) % 2)

(* bit_reverse_7 goes through these turns. *)
LEMMA BitReverseUnfolds ==
  ASSUME NEW v \in Nat
  PROVE  \E f \in [0 .. Bits -> Nat] : Reverses(f, v) /\ BitReverse(v) = f[Bits]
<1> DEFINE bit(i) == (v \div 2^(i - 1)) % 2
           step == [i \in 1 .. Bits |-> [w \in Nat |-> 2 * w + bit(i)]]
           Turns(f) == f = [k \in 0 .. Bits |-> IF k = 0 THEN 0 ELSE 2 * f[k - 1] + ((v \div 2^(k - 1)) % 2)]
           reversed == CHOOSE f : Turns(f)
<1>0. Bits \in Nat
  BY ConstantsAssumption
<1>a. ASSUME NEW i \in 1 .. Bits PROVE bit(i) \in Nat
  <2> DEFINE m == 2^(i - 1)
  <2>0. i - 1 \in Nat
    BY <1>0
  <2>1. m \in Nat \ {0}
    BY <2>0, PowersDouble, Zenon
  <2> HIDE DEF m
  <2>2. (v \div m) % 2 \in Nat
    BY <2>1
  <2> QED
    BY <2>2 DEF m
<1>1. step \in [1 .. Bits -> [Nat -> Nat]]
  <2> HIDE DEF bit
  <2>1. ASSUME NEW i \in 1 .. Bits, NEW w \in Nat PROVE 2 * w + bit(i) \in Nat
    BY <1>a
  <2> QED
    BY <2>1
<1>2. PICK f \in [0 .. Bits -> Nat] : f[0] = 0 /\ \A i \in 1 .. Bits : f[i] = step[i][f[i - 1]]
  <2> HIDE DEF step
  <2>1. \E f \in [0 .. Bits -> Nat] : Recursive(f, Bits, 0, step)
    BY <1>0, <1>1, RecursionExists
  <2> QED
    BY <2>1 DEF Recursive
<1>3. \A i \in 1 .. Bits : f[i] = 2 * f[i - 1] + bit(i)
  <2> TAKE i \in 1 .. Bits
  <2>1. f[i - 1] \in Nat
    <3>1. i - 1 \in 0 .. Bits
      BY <1>0
    <3> HIDE DEF step
    <3> QED
      BY <1>2, <3>1
  <2> HIDE DEF bit
  <2>2. step[i][f[i - 1]] = 2 * f[i - 1] + bit(i)
    BY <2>1
  <2> QED
    BY <1>2, <2>2
<1>4. Turns(f)
  <2> HIDE DEF step
  <2>1. \A i \in 0 .. Bits : f[i] = IF i = 0 THEN 0 ELSE 2 * f[i - 1] + bit(i)
    <3> HIDE DEF bit
    <3> QED
      BY <1>0, <1>2, <1>3
  <2>2. f = [i \in 0 .. Bits |-> f[i]]
    BY <1>2
  <2> QED
    BY <2>1, <2>2, Zenon
<1>5. Turns(reversed)
  <2> HIDE DEF Turns
  <2> QED
    BY <1>4, Zenon
<1>6. BitReverse(v) = reversed[Bits]
  BY Zenon DEF BitReverse
<1> HIDE DEF reversed
<1>7. reversed = f
  <2> DEFINE T == {i \in Nat : i <= Bits => reversed[i] = f[i]}
  <2>1. \A i \in 0 .. Bits : reversed[i] = IF i = 0 THEN 0 ELSE 2 * reversed[i - 1] + bit(i)
    BY <1>5, Zenon
  <2>2. reversed = [i \in 0 .. Bits |-> reversed[i]]
    BY <1>5, Zenon
  <2> HIDE DEF bit, step, Turns
  <2>3. 0 \in T
    BY <1>0, <1>2, <2>1
  <2>4. ASSUME NEW i \in Nat, i \in T PROVE i + 1 \in T
    <3> SUFFICES ASSUME i + 1 <= Bits PROVE reversed[i + 1] = f[i + 1]
      OBVIOUS
    <3>1. reversed[i] = f[i]
      BY <2>4, <1>0
    <3>2. i + 1 \in 0 .. Bits /\ i + 1 # 0 /\ (i + 1) - 1 = i /\ i + 1 \in 1 .. Bits
      BY <1>0
    <3>3. reversed[i + 1] = 2 * reversed[i] + bit(i + 1)
      BY <2>1, <3>2
    <3>4. f[i + 1] = 2 * f[i] + bit(i + 1)
      BY <1>3, <3>2
    <3> QED
      BY <3>1, <3>3, <3>4
  <2> HIDE DEF T
  <2>5. Nat \subseteq T
    BY <2>3, <2>4, SetInduction
  <2>6. \A i \in 0 .. Bits : reversed[i] = f[i]
    BY <2>5, <1>0 DEF T
  <2>7. f = [i \in 0 .. Bits |-> f[i]]
    BY <1>2
  <2> QED
    BY <2>2, <2>6, <2>7
<1>8. Reverses(f, v)
  BY <1>2, <1>3, Zenon DEF Reverses
<1> QED
  BY <1>6, <1>7, <1>8

(* The states of ml_kem_mod_pow's loop, and the power one of them stands for. *)
PowStates == [exponent : Nat, factor : Residues, result : Residues]
Value(t) == t.result * Powers(t.factor)[t.exponent]

(* A turn keeps that power, and brings the loop nearer to its end. *)
LEMMA TurnKeepsValue ==
  ASSUME NEW t \in PowStates
  PROVE  /\ Turn(t) \in PowStates /\ Same(Value(Turn(t)), Value(t)) /\ Value(t) \in Int
         /\ IF t.exponent = 0 THEN Turn(t) = t ELSE Turn(t).exponent < t.exponent
<1> DEFINE x == t.factor
           n == t.exponent
           y == t.result
           d == n \div 2
           p == Powers(x)
           square == (x * x) % Q
           product == (y * x) % Q
           s == Powers(x * x)
<1>1. x \in Residues /\ y \in Residues /\ n \in Nat /\ t = [exponent |-> n, factor |-> x, result |-> y]
  BY DEF PowStates
<1>2. x \in Int /\ y \in Int
  BY <1>1, ResiduesAreNumbers
<1>3. p[n] \in Int
  BY <1>1, <1>2, PowersUnfold
<1>4. Value(t) = y * p[n] /\ Value(t) \in Int
  BY <1>2, <1>3 DEF Value
<1>5. CASE n = 0
  <2>1. Turn(t) = t
    BY <1>5 DEF Turn
  <2> QED
    BY <1>4, <1>5, <2>1 DEF Same
<1>6. CASE n # 0
  <2>1. x * x \in Int /\ y * x \in Int
    BY <1>2
  <2>2. /\ square \in Residues /\ Same(square, x * x) /\ square \in Int
        /\ product \in Residues /\ Same(product, y * x) /\ product \in Int
    BY <2>1, RemainderIsSame
  <2>3. d \in Nat /\ d < n /\ (n % 2 = 1 => n = 2 * d + 1) /\ (n % 2 # 1 => n = 2 * d)
    BY <1>1, <1>6
  <2> DEFINE z == IF n % 2 = 1 THEN product ELSE y
  <2>4. Turn(t) = [exponent |-> d, factor |-> square, result |-> z]
    BY <1>6 DEF Turn
  <2>5. z \in Residues
    BY <2>2, <1>1
  <2>6. Turn(t) \in PowStates /\ Turn(t).exponent < t.exponent
    <3> HIDE DEF d, square, z, product
    <3> QED
      BY <2>2, <2>3, <2>4, <2>5 DEF PowStates
  <2>7. Value(Turn(t)) = z * Powers(square)[d]
    <3> HIDE DEF d, square, z, product
    <3> QED
      BY <2>4 DEF Value
  <2>8. Same(Powers(square)[d], s[d]) /\ Powers(square)[d] \in Int /\ s[d] \in Int
    BY <2>1, <2>2, <2>3, PowersAreSame, PowersUnfold
  <2>9. p[2 * d] = s[d] /\ p[2 * d + 1] = x * s[d]
    BY <1>2, <2>3, PowersOfSquare
  <2> DEFINE w == Powers(square)[d]
             v == s[d]
  <2>10. Same(z * w, y * p[n])
    <3>1. CASE n % 2 = 1
      <4>1. z = product /\ p[n] = x * v
        BY <2>3, <2>9, <3>1
      <4>2. v \in Int /\ w \in Int /\ Same(w, v)
        BY <2>8
      <4> HIDE DEF z, product, v, w, p
      <4>3. Same(product * w, (y * x) * v)
        BY <2>1, <2>2, <4>2, SameSums
      <4>4. (y * x) * v = y * (x * v)
        BY <1>2, <4>2
      <4> QED
        BY <4>1, <4>3, <4>4
    <3>2. CASE n % 2 # 1
      <4>1. z = y /\ p[n] = v
        BY <2>3, <2>9, <3>2
      <4>2. v \in Int /\ w \in Int /\ Same(w, v)
        BY <2>8
      <4>3. Same(y, y)
        BY DEF Same
      <4> HIDE DEF z, product, v, w, p
      <4>4. Same(y * w, y * v)
        BY <1>2, <4>2, <4>3, SameSums
      <4> QED
        BY <4>1, <4>4
    <3> QED
      BY <3>1, <3>2
  <2> QED
    BY <1>4, <1>6, <2>6, <2>7, <2>10
<1> QED
  BY <1>5, <1>6

(* ml_kem_mod_pow computes the power, modulo Q. *)
THEOREM ModPowIsPower ==
  ASSUME NEW base \in Int, NEW e \in Nat
  PROVE  ModPow(base, e) \in Residues /\ Same(ModPow(base, e), Powers(base)[e])
<1> DEFINE first == [exponent |-> e, factor |-> base % Q, result |-> 1]
           step == [i \in 1 .. e |-> [t \in PowStates |-> Turn(t)]]
           Turns(f) == f = [i \in 0 .. e |-> IF i = 0 THEN [exponent |-> e, factor |-> base % Q, result |-> 1]
                                                       ELSE Turn(f[i - 1])]
           after == CHOOSE f : Turns(f)
<1>1. first \in PowStates
  <2>1. base % Q \in Residues
    BY RemainderIsSame
  <2>2. 1 \in Residues
    BY ModulusIsPositive DEF Residues
  <2> QED
    BY <2>1, <2>2 DEF PowStates
<1>2. step \in [1 .. e -> [PowStates -> PowStates]]
  BY TurnKeepsValue
<1>3. PICK f \in [0 .. e -> PowStates] : f[0] = first /\ \A i \in 1 .. e : f[i] = step[i][f[i - 1]]
  <2> HIDE DEF step, first
  <2>1. \E f \in [0 .. e -> PowStates] : Recursive(f, e, first, step)
    BY <1>1, <1>2, RecursionExists
  <2> QED
    BY <2>1 DEF Recursive
<1>4. \A i \in 1 .. e : f[i] = Turn(f[i - 1]) /\ f[i - 1] \in PowStates
  <2> TAKE i \in 1 .. e
  <2>1. f[i - 1] \in PowStates
    <3>1. i - 1 \in 0 .. e
      OBVIOUS
    <3> HIDE DEF step
    <3> QED
      BY <1>3, <3>1
  <2>2. step[i][f[i - 1]] = Turn(f[i - 1])
    BY <2>1
  <2> QED
    BY <1>3, <2>1, <2>2
<1>5. Turns(f)
  <2> HIDE DEF step, first
  <2>1. \A i \in 0 .. e : f[i] = IF i = 0 THEN first ELSE Turn(f[i - 1])
    BY <1>3, <1>4
  <2>2. f = [i \in 0 .. e |-> f[i]]
    BY <1>3
  <2> QED
    BY <2>1, <2>2, Zenon DEF first
<1>6. Turns(after)
  <2> HIDE DEF Turns
  <2> QED
    BY <1>5, Zenon
<1>7. ModPow(base, e) = after[e].result
  BY Zenon DEF ModPow
<1> HIDE DEF after
<1>8. \A i \in 0 .. e : after[i] = IF i = 0 THEN first ELSE Turn(after[i - 1])
  BY <1>6, Zenon DEF first
<1> HIDE DEF Turns, step
<1> DEFINE Kept(i) == /\ after[i] \in PowStates /\ after[i].exponent <= e - i
                      /\ Same(Value(after[i]), Value(first))
           T == {i \in Nat : i <= e => Kept(i)}
<1>9. 0 \in T
  <2>1. after[0] = first
    BY <1>8
  <2>2. first.exponent = e
    OBVIOUS
  <2> HIDE DEF first
  <2> QED
    BY <1>1, <2>1, <2>2 DEF Same
<1> HIDE DEF first
<1>10. ASSUME NEW i \in Nat, i \in T PROVE i + 1 \in T
  <2> SUFFICES ASSUME i + 1 <= e PROVE Kept(i + 1)
    OBVIOUS
  <2> DEFINE t == after[i]
  <2>1. Kept(i)
    BY <1>10
  <2>2. i + 1 \in 0 .. e /\ i + 1 # 0 /\ (i + 1) - 1 = i
    OBVIOUS
  <2>3. after[i + 1] = Turn(t)
    BY <1>8, <2>2
  <2>4. /\ Turn(t) \in PowStates /\ Same(Value(Turn(t)), Value(t))
        /\ IF t.exponent = 0 THEN Turn(t) = t ELSE Turn(t).exponent < t.exponent
    BY <2>1, TurnKeepsValue
  <2>5. Turn(t).exponent \in Nat /\ t.exponent \in Nat /\ t.exponent <= e - i
    BY <2>1, <2>4 DEF PowStates
  <2>6. Turn(t).exponent <= e - (i + 1)
    BY <2>4, <2>5
  <2>7. Same(Value(Turn(t)), Value(first))
    BY <2>1, <2>4 DEF Same
  <2> QED
    BY <2>3, <2>4, <2>6, <2>7
<1> HIDE DEF T
<1>11. Nat \subseteq T
  BY <1>9, <1>10, SetInduction
<1>12. Kept(e)
  BY <1>11 DEF T
<1> DEFINE last == after[e]
           rest == base % Q
<1>13. last \in PowStates /\ last.exponent = 0 /\ last.result \in Residues /\ last.factor \in Residues
  BY <1>12 DEF PowStates
<1>14. Value(last) = last.result
  <2>1. last.factor \in Int /\ last.result \in Int
    BY <1>13, ResiduesAreNumbers
  <2>2. Powers(last.factor)[0] = 1
    BY <2>1, PowersUnfold
  <2> QED
    BY <1>13, <2>1, <2>2 DEF Value
<1>15. rest \in Int /\ Same(rest, base)
  BY RemainderIsSame
<1>16. Value(first) = 1 * Powers(rest)[e]
  BY DEF Value, first
<1>17. Same(Powers(rest)[e], Powers(base)[e]) /\ Powers(rest)[e] \in Int
  <2> HIDE DEF rest
  <2> QED
    BY <1>15, PowersAreSame, PowersUnfold
<1>18. Value(first) = Powers(rest)[e]
  BY <1>16, <1>17
<1>19. Same(last.result, Powers(rest)[e])
  BY <1>12, <1>14, <1>18
<1> QED
  BY <1>7, <1>13, <1>17, <1>19 DEF Same

(* A sum taken modulo Q is the sum, modulo Q. *)
LEMMA ModSumIsSum ==
  ASSUME NEW n \in Nat, NEW h, NEW H \in Sequence,
         \A i \in 0 .. n - 1 : h[i] \in Int /\ Same(h[i], H[i])
  PROVE  ModSum(h, n) \in Residues /\ Same(ModSum(h, n), Sums(H)[n])
<1> DEFINE step == [i \in 1 .. n |-> [v \in Residues |-> (v + h[i - 1]) % Q]]
           Adds(f) == f = [i \in 0 .. n |-> IF i = 0 THEN 0 ELSE (f[i - 1] + h[i - 1]) % Q]
           sum == CHOOSE f : Adds(f)
<1>0. ASSUME NEW i \in 1 .. n PROVE i - 1 \in 0 .. n - 1 /\ i - 1 \in 0 .. n /\ h[i - 1] \in Int
  <2>1. i - 1 \in 0 .. n - 1 /\ i - 1 \in 0 .. n
    OBVIOUS
  <2> QED
    BY <2>1
<1>1. step \in [1 .. n -> [Residues -> Residues]]
  <2>1. ASSUME NEW i \in 1 .. n, NEW v \in Residues PROVE (v + h[i - 1]) % Q \in Residues
    <3>1. v + h[i - 1] \in Int
      BY <1>0, ResiduesAreNumbers
    <3> QED
      BY <3>1, RemainderIsSame
  <2> QED
    BY <2>1
<1>2. PICK f \in [0 .. n -> Residues] : f[0] = 0 /\ \A i \in 1 .. n : f[i] = step[i][f[i - 1]]
  <2> HIDE DEF step
  <2>0. 0 \in Residues
    BY ModulusIsPositive DEF Residues
  <2>1. \E f \in [0 .. n -> Residues] : Recursive(f, n, 0, step)
    BY <1>1, <2>0, RecursionExists
  <2> QED
    BY <2>1 DEF Recursive
<1>3. \A i \in 1 .. n : f[i] = (f[i - 1] + h[i - 1]) % Q /\ f[i - 1] \in Residues
  <2> TAKE i \in 1 .. n
  <2>1. f[i - 1] \in Residues
    <3> HIDE DEF step
    <3> QED
      BY <1>0, <1>2
  <2>2. step[i][f[i - 1]] = (f[i - 1] + h[i - 1]) % Q
    BY <2>1
  <2> QED
    BY <1>2, <2>1, <2>2
<1>4. Adds(f)
  <2> HIDE DEF step
  <2>1. \A i \in 0 .. n : f[i] = IF i = 0 THEN 0 ELSE (f[i - 1] + h[i - 1]) % Q
    BY <1>2, <1>3
  <2>2. f = [i \in 0 .. n |-> f[i]]
    BY <1>2
  <2> QED
    BY <2>1, <2>2, Zenon
<1>5. Adds(sum)
  <2> HIDE DEF Adds
  <2> QED
    BY <1>4, Zenon
<1>6. ModSum(h, n) = sum[n]
  BY Zenon DEF ModSum
<1> HIDE DEF sum
<1>7. \A i \in 0 .. n : sum[i] = IF i = 0 THEN 0 ELSE (sum[i - 1] + h[i - 1]) % Q
  BY <1>5, Zenon
<1> HIDE DEF Adds, step
<1> DEFINE G == Sums(H)
           T == {i \in Nat : i <= n => sum[i] \in Residues /\ Same(sum[i], G[i])}
<1>8. G[0] = 0 /\ \A i \in Nat : G[i] \in Int /\ G[i + 1] = G[i] + H[i] /\ H[i] \in Int
  BY SumsUnfold DEF Sequence
<1> HIDE DEF G
<1>9. 0 \in T
  <2>1. sum[0] = 0
    BY <1>7
  <2>2. 0 \in Residues
    BY ModulusIsPositive DEF Residues
  <2> QED
    BY <1>8, <2>1, <2>2 DEF Same
<1>10. ASSUME NEW i \in Nat, i \in T PROVE i + 1 \in T
  <2> SUFFICES ASSUME i + 1 <= n PROVE sum[i + 1] \in Residues /\ Same(sum[i + 1], G[i + 1])
    OBVIOUS
  <2> DEFINE s == sum[i]
             g == h[i]
             all == s + g
  <2>1. s \in Residues /\ Same(s, G[i])
    BY <1>10
  <2>2. i \in 0 .. n - 1 /\ i + 1 \in 0 .. n /\ i + 1 # 0 /\ (i + 1) - 1 = i
    OBVIOUS
  <2>3. g \in Int /\ Same(g, H[i])
    BY <2>2
  <2>4. sum[i + 1] = all % Q
    BY <1>7, <2>2
  <2>5. s \in Int
    BY <2>1, ResiduesAreNumbers
  <2>6. all \in Int /\ Same(all, G[i] + H[i])
    <3>1. G[i] \in Int /\ H[i] \in Int
      BY <1>8
    <3> HIDE DEF s, g
    <3>2. Same(s + g, G[i] + H[i])
      BY <2>1, <2>3, <2>5, <3>1, SameSums
    <3> QED
      BY <2>3, <2>5, <3>2
  <2> HIDE DEF all
  <2>7. all % Q \in Residues /\ Same(all % Q, all)
    BY <2>6, RemainderIsSame
  <2>8. G[i + 1] = G[i] + H[i]
    BY <1>8
  <2>9. Same(all % Q, G[i] + H[i])
    BY <2>6, <2>7 DEF Same
  <2> QED
    BY <2>4, <2>7, <2>8, <2>9
<1> HIDE DEF T
<1>11. n \in T
  BY <1>9, <1>10, SetInduction
<1>12. sum[n] \in Residues /\ Same(sum[n], G[n])
  BY <1>11 DEF T
<1> QED
  BY <1>6, <1>12 DEF G

-----------------------------------------------------------------------------
(* A polynomial, its coefficients from N on being zero. *)
Extended(p) == [k \in Nat |-> IF k \in Index THEN p[k] ELSE 0]

Polynomials == [Index -> Residues]

(* A polynomial's coefficients are residues, and numbers. *)
LEMMA ExtendedIsSequence ==
  ASSUME NEW p \in Polynomials
  PROVE  Extended(p) \in Sequence /\ \A k \in Index : Extended(p)[k] = p[k] /\ p[k] \in Residues /\ p[k] \in Int
<1>1. ASSUME NEW k \in Index PROVE p[k] \in Residues /\ p[k] \in Int
  BY ResiduesAreNumbers DEF Polynomials
<1>2. N \in Int
  <2> DEFINE e == Bits + 1
  <2>1. e \in Nat
    BY ConstantsAssumption
  <2>2. 2^e \in Nat
    BY <2>1, PowersDouble, Zenon
  <2> QED
    BY <2>2, ConstantsAssumption
<1>3. Index \subseteq Nat
  BY <1>2 DEF Index
<1> QED
  BY <1>1, <1>3 DEF Extended, Sequence

(* Residue is the value of a polynomial's every m-th coefficient, modulo Q. *)
LEMMA ResidueIsEval ==
  ASSUME NEW p \in Polynomials, NEW m \in Nat, NEW n \in Nat, NEW x \in Int, NEW t \in 0 .. m - 1,
         n * m = N, N \div m = n
  PROVE  Residue(p, m, x, t) \in Residues /\ Same(Residue(p, m, x, t), Eval(Extended(p), m, n, x, t))
<1> DEFINE h == [j \in 0 .. n - 1 |-> p[t + j * m] * ModPow(x, j)]
           P == Extended(p)
           H == Terms(P, m, x, t)
<1>1. Residue(p, m, x, t) = ModSum(h, n)
  BY Zenon DEF Residue
<1>2. P \in Sequence
  BY ExtendedIsSequence
<1>a. t \in Nat
  OBVIOUS
<1>3. H \in Sequence /\ \A j \in Nat : H[j] = P[t + j * m] * Powers(x)[j]
  <2> HIDE DEF P
  <2> QED
    BY <1>2, <1>a, TermsAreNumbers
<1>4. ASSUME NEW j \in 0 .. n - 1 PROVE h[j] \in Int /\ Same(h[j], H[j])
  <2> DEFINE k == t + j * m
             u == ModPow(x, j)
             v == Powers(x)[j]
             c == p[k]
  <2>1. j \in Nat
    OBVIOUS
  <2>2. k \in Index
    <3> DEFINE jm == j * m
               nm == n * m
    <3>1. j + 1 <= n /\ (j + 1) * m = jm + m /\ jm \in Nat
      OBVIOUS
    <3>2. (j + 1) * m <= nm
      <4>1. \E d \in Nat : n = (j + 1) + d
        <5>1. n - (j + 1) \in Nat /\ n = (j + 1) + (n - (j + 1))
          OBVIOUS
        <5> QED
          BY <5>1
      <4>2. PICK d \in Nat : n = (j + 1) + d
        BY <4>1
      <4>3. nm = (j + 1) * m + d * m
        BY <4>2
      <4>4. d * m \in Nat /\ (j + 1) * m \in Nat
        OBVIOUS
      <4> HIDE DEF nm
      <4> QED
        BY <4>3, <4>4
    <3>3. nm = N
      OBVIOUS
    <3> HIDE DEF jm, nm
    <3>4. t + jm \in 0 .. N - 1
      <4>1. jm + m <= N /\ N \in Nat
        <5>1. nm \in Nat
          BY DEF nm
        <5> QED
          BY <3>1, <3>2, <3>3, <5>1
      <4> QED
        BY <3>1, <4>1
    <3> QED
      BY <3>4 DEF Index, jm
  <2>3. u \in Residues /\ Same(u, v) /\ v \in Int
    BY <2>1, ModPowIsPower, PowersUnfold
  <2>4. u \in Int
    BY <2>3, ResiduesAreNumbers
  <2>5. P[k] = c /\ c \in Int
    BY <2>2, ExtendedIsSequence
  <2>6. h[j] = c * u
    OBVIOUS
  <2>7. H[j] = c * v
    <3>1. H[j] = P[k] * v
      BY <1>3, <2>1
    <3> QED
      BY <2>5, <3>1
  <2>8. Same(c, c)
    BY DEF Same
  <2> HIDE DEF h, H, c, u, v, k, P
  <2>9. c * u \in Int /\ Same(c * u, c * v)
    BY <2>3, <2>4, <2>5, <2>8, SameSums
  <2> QED
    BY <2>6, <2>7, <2>9
<1>5. Eval(P, m, n, x, t) = Sums(H)[n]
  BY DEF Eval
<1> HIDE DEF h, H, P
<1>6. ModSum(h, n) \in Residues /\ Same(ModSum(h, n), Sums(H)[n])
  BY <1>3, <1>4, ModSumIsSum
<1> QED
  BY <1>1, <1>5, <1>6 DEF P

(* Dividing by 2 * m is halving and dividing by m. *)
LEMMA HalvedFirst ==
  ASSUME NEW v \in Nat, NEW m \in Nat \ {0}
  PROVE  v \div (2 * m) = (v \div 2) \div m
<1> DEFINE h == v \div 2
           r == v % 2
           d == h \div m
           s == h % m
           md == m * d
<1>1. h \in Nat /\ r \in 0 .. 1 /\ v = 2 * h + r
  OBVIOUS
<1> HIDE DEF h, r
<1>2. d \in Int /\ s \in 0 .. m - 1 /\ h = md + s
  BY <1>1, DivisionFacts
<1> HIDE DEF d, s
<1>3. (2 * m) * d = 2 * md /\ md \in Int
  BY <1>2
<1> HIDE DEF md
<1>4. v = (2 * m) * d + (2 * s + r)
  BY <1>1, <1>2, <1>3
<1>5. 2 * s + r \in 0 .. (2 * m) - 1 /\ 2 * m \in Nat \ {0} /\ v \in Int
  BY <1>1, <1>2
<1>6. v \div (2 * m) = d
  BY <1>2, <1>4, <1>5, QuotientIsUnique
<1> QED
  BY <1>6 DEF d, h

(* There is at least one level. *)
LEMMA WidthIsPositive == Bits \in Nat \ {0} /\ Bits - 1 \in Nat
BY ConstantsAssumption

(* Reversal moves the lowest bit to the top. *)
LEMMA ReversalOfHalf ==
  ASSUME NEW v \in Nat, v < 2^Bits
  PROVE  /\ BitReverse(v) \in Nat /\ BitReverse(v \div 2) \in Nat
         /\ 2 * BitReverse(v) = BitReverse(v \div 2) + (v % 2) * 2^Bits
<1> DEFINE h == v \div 2
           r == v % 2
<1>1. h \in Nat /\ r \in Nat /\ v = 2 * h + r
  OBVIOUS
<1>2. PICK f \in [0 .. Bits -> Nat] : Reverses(f, v) /\ BitReverse(v) = f[Bits]
  BY BitReverseUnfolds
<1>3. PICK g \in [0 .. Bits -> Nat] : Reverses(g, h) /\ BitReverse(h) = g[Bits]
  <2> HIDE DEF h
  <2> QED
    BY <1>1, BitReverseUnfolds
<1> DEFINE T == {k \in Nat : k + 1 <= Bits => f[k + 1] = r * 2^k + g[k]}
<1>4. 0 \in T
  <2>1. 1 \in 1 .. Bits
    BY WidthIsPositive
  <2>2. f[1] = 2 * f[0] + ((v \div 2^(1 - 1)) % 2) /\ f[0] = 0 /\ g[0] = 0
    <3>1. f[0] = 0 /\ \A i \in 1 .. Bits : f[i] = 2 * f[i - 1] + ((v \div 2^(i - 1)) % 2)
      BY <1>2, Zenon DEF Reverses
    <3>2. f[1] = 2 * f[1 - 1] + ((v \div 2^(1 - 1)) % 2)
      BY <2>1, <3>1, Zenon
    <3>3. 1 - 1 = 0
      OBVIOUS
    <3>4. g[0] = 0
      BY <1>3, Zenon DEF Reverses
    <3> QED
      BY <3>1, <3>2, <3>3, <3>4
  <2>3. 1 - 1 = 0 /\ 0 + 1 = 1
    OBVIOUS
  <2>4. 2^0 = 1
    BY PowersDouble, Zenon
  <2>5. v \div 1 = v
    <3>1. v = 1 * v + 0 /\ v \in Int /\ 0 \in 0 .. 1 - 1 /\ 1 \in Nat \ {0}
      OBVIOUS
    <3> QED
      BY <3>1, QuotientIsUnique
  <2>6. f[1] = r
    <3>1. 2^(1 - 1) = 1
      BY <2>3, <2>4
    <3>2. v \div 2^(1 - 1) = v
      BY <2>5, <3>1
    <3>3. f[1] = 2 * 0 + (v % 2)
      BY <2>2, <3>2
    <3> QED
      BY <3>3
  <2>7. r * 1 + 0 = r
    BY <1>1
  <2> HIDE DEF r
  <2>8. f[0 + 1] = r * 2^0 + g[0]
    BY <2>2, <2>3, <2>4, <2>6, <2>7
  <2> QED
    BY <2>8
<1> HIDE DEF h, r
<1>5. ASSUME NEW k \in Nat, k \in T PROVE k + 1 \in T
  <2> SUFFICES ASSUME (k + 1) + 1 <= Bits PROVE f[(k + 1) + 1] = r * 2^(k + 1) + g[k + 1]
    OBVIOUS
  <2> DEFINE m == 2^k
  <2>1. (k + 1) + 1 \in 1 .. Bits /\ k + 1 \in 1 .. Bits /\ ((k + 1) + 1) - 1 = k + 1 /\ (k + 1) - 1 = k /\ k + 1 \in 0 .. Bits /\ k \in 0 .. Bits
    BY WidthIsPositive
  <2>2. f[k + 1] = r * m + g[k]
    BY <1>5, <2>1
  <2>3. f[(k + 1) + 1] = 2 * f[k + 1] + ((v \div 2^(k + 1)) % 2)
    BY <1>2, <2>1 DEF Reverses
  <2>4. g[k + 1] = 2 * g[k] + ((h \div m) % 2)
    BY <1>3, <2>1 DEF Reverses
  <2>5. m \in Nat \ {0} /\ 2^(k + 1) = 2 * m
    BY PowersDouble, Zenon
  <2>6. g[k] \in Nat
    BY <2>1
  <2> HIDE DEF m
  <2>7. v \div (2 * m) = h \div m
    BY <2>5, HalvedFirst DEF h
  <2> DEFINE bit == (h \div m) % 2
  <2>8. bit \in Int
    BY <1>1, <2>5
  <2> HIDE DEF bit
  <2>9. f[(k + 1) + 1] = 2 * (r * m + g[k]) + bit
    BY <2>2, <2>3, <2>5, <2>7 DEF bit
  <2>10. g[k + 1] = 2 * g[k] + bit
    BY <2>4 DEF bit
  <2>11. 2 * (r * m + g[k]) + bit = r * (2 * m) + (2 * g[k] + bit)
    BY <1>1, <2>5, <2>6, <2>8
  <2> QED
    BY <2>5, <2>9, <2>10, <2>11
<1> DEFINE e == Bits - 1
           m == 2^e
<1>6. e \in Nat /\ e + 1 = Bits /\ Bits \in 1 .. Bits /\ e \in 0 .. Bits /\ Bits \in 0 .. Bits
  BY WidthIsPositive
<1>7. f[e + 1] = r * m + g[e]
  <2> HIDE DEF T
  <2>1. e \in T
    BY <1>4, <1>5, <1>6, SetInduction
  <2> QED
    BY <2>1, <1>6 DEF T
<1>8. 2^Bits = 2 * m /\ m \in Nat \ {0}
  <2>1. 2^(e + 1) = 2 * 2^e /\ 2^e \in Nat \ {0}
    BY <1>6, PowersDouble, Zenon
  <2> QED
    BY <2>1, <1>6
<1>9. g[Bits] = 2 * g[e] + ((h \div m) % 2)
  BY <1>3, <1>6 DEF Reverses
<1>10. g[e] \in Nat /\ f[Bits] \in Nat /\ g[Bits] \in Nat
  BY <1>6
<1> HIDE DEF e, m, T
<1>11. h \div m = 0
  <2>1. h < m
    BY <1>1, <1>8
  <2>2. h = m * 0 + h /\ h \in 0 .. m - 1 /\ h \in Int
    BY <1>1, <1>8, <2>1
  <2> QED
    BY <1>8, <2>2, QuotientIsUnique
<1>12. 0 % 2 = 0
  OBVIOUS
<1>13. g[Bits] = 2 * g[e]
  BY <1>9, <1>10, <1>11, <1>12
<1>14. f[Bits] = r * m + g[e]
  BY <1>6, <1>7
<1>15. 2 * (r * m + g[e]) = 2 * g[e] + r * (2 * m)
  BY <1>1, <1>8, <1>10
<1>16. 2 * f[Bits] = g[Bits] + r * 2^Bits
  BY <1>8, <1>13, <1>14, <1>15
<1> QED
  BY <1>2, <1>3, <1>10, <1>16 DEF h, r

(* Larger exponents give larger powers of two. *)
LEMMA PowersGrow ==
  ASSUME NEW p \in Nat, NEW j \in Nat, p <= j
  PROVE  2^p <= 2^j /\ 2^p \in Nat \ {0} /\ 2^j \in Nat \ {0}
<1> DEFINE u == 2^p
           v == 2^j
<1>1. u \in Nat \ {0} /\ v \in Nat \ {0}
  BY PowersDouble, Zenon
<1>2. CASE p = j
  BY <1>1, <1>2
<1>3. CASE p < j
  <2>1. \E k \in Nat \ {0} : v = u * (2 * k) /\ u \in Nat \ {0}
    BY <1>3, HigherPower, Zenon
  <2>2. PICK k \in Nat \ {0} : v = u * (2 * k)
    BY <2>1
  <2> HIDE DEF u, v
  <2>3. u * (2 * k) = 2 * (u * k) /\ u * k >= u
    <3>1. \E d \in Nat : k = d + 1
      <4>1. k - 1 \in Nat /\ k = (k - 1) + 1
        OBVIOUS
      <4> QED
        BY <4>1
    <3>2. PICK d \in Nat : k = d + 1
      BY <3>1
    <3>3. u * k = u * d + u /\ u * d \in Nat
      BY <1>1, <3>2
    <3>4. u * (2 * k) = 2 * (u * k)
      BY <1>1
    <3> QED
      BY <1>1, <3>3, <3>4
  <2>4. u * k \in Nat
    BY <1>1
  <2> QED
    BY <1>1, <2>2, <2>3, <2>4 DEF u, v
<1> QED
  BY <1>2, <1>3

(* The reversals of 0 and of 1. *)
LEMMA ReversalOfSmall ==
  /\ BitReverse(0) = 0 /\ 2 * BitReverse(1) = 2^Bits /\ BitReverse(1) \in Nat
<1>1. 2^0 = 1 /\ 2^1 = 2 /\ 2^1 <= 2^Bits /\ 2^Bits \in Nat \ {0}
  <2>1. 1 \in Nat /\ Bits \in Nat /\ 1 <= Bits
    BY WidthIsPositive
  <2>2. 2^1 <= 2^Bits /\ 2^Bits \in Nat \ {0}
    BY <2>1, PowersGrow, Zenon
  <2>3. 0 + 1 = 1 /\ 0 \in Nat
    OBVIOUS
  <2>4. 2^(0 + 1) = 2 * 2^0 /\ 2^0 = 1
    BY <2>3, PowersDouble, Zenon
  <2> QED
    BY <2>2, <2>3, <2>4
<1> DEFINE top == 2^Bits
<1>2. top \in Nat /\ 2 <= top
  BY <1>1
<1> HIDE DEF top
<1>3. BitReverse(0) \in Nat /\ 2 * BitReverse(0) = BitReverse(0 \div 2) + (0 % 2) * top
  <2>1. 0 \in Nat /\ 0 < top
    BY <1>2
  <2> QED
    BY <2>1, ReversalOfHalf, Zenon DEF top
<1>4. 0 \div 2 = 0 /\ 0 % 2 = 0 /\ 0 * top = 0
  BY <1>2
<1>5. BitReverse(0) = 0
  BY <1>3, <1>4
<1>6. BitReverse(1) \in Nat /\ 2 * BitReverse(1) = BitReverse(1 \div 2) + (1 % 2) * top
  <2>1. 1 \in Nat /\ 1 < top
    BY <1>2
  <2> QED
    BY <2>1, ReversalOfHalf, Zenon DEF top
<1>7. 1 \div 2 = 0 /\ 1 % 2 = 1 /\ 1 * top = top
  BY <1>2
<1>8. 2 * BitReverse(1) = top
  BY <1>2, <1>5, <1>6, <1>7
<1> QED
  BY <1>5, <1>6, <1>8 DEF top

(* A bit on top of a number is one at the bottom of its reversal. *)
LEMMA ReversalOfTop ==
  ASSUME NEW x \in 0 .. 2^(Bits - 1) - 1
  PROVE  BitReverse(2^(Bits - 1) + x) = BitReverse(x) + 1
<1> DEFINE T == {k \in Nat : k <= Bits - 1 =>
                   \A y \in 0 .. 2^k - 1 : BitReverse(2^k + y) = BitReverse(y) + 2^(Bits - 1 - k)}
<1>1. 0 \in T
  <2>1. 2^0 = 1
    BY PowersDouble, Zenon
  <2> DEFINE m == 2^(Bits - 1)
  <2>2. 2^Bits = 2 * m /\ m \in Nat /\ Bits - 1 - 0 = Bits - 1
    <3>1. Bits - 1 \in Nat /\ (Bits - 1) + 1 = Bits /\ Bits - 1 - 0 = Bits - 1
      BY WidthIsPositive
    <3>2. 2^((Bits - 1) + 1) = 2 * m /\ m \in Nat
      BY <3>1, PowersDouble, Zenon
    <3> QED
      BY <3>1, <3>2
  <2> HIDE DEF m
  <2>3. BitReverse(1) = m
    BY <2>2, ReversalOfSmall
  <2> SUFFICES ASSUME NEW y \in 0 .. 2^0 - 1 PROVE BitReverse(2^0 + y) = BitReverse(y) + 2^(Bits - 1 - 0)
    OBVIOUS
  <2>4. y = 0 /\ 2^0 + y = 1
    BY <2>1
  <2>5. 2^(Bits - 1 - 0) = m
    BY <2>2 DEF m
  <2> QED
    BY <2>2, <2>3, <2>4, <2>5, ReversalOfSmall
<1>2. ASSUME NEW k \in Nat, k \in T PROVE k + 1 \in T
  <2> SUFFICES ASSUME k + 1 <= Bits - 1, NEW y \in 0 .. 2^(k + 1) - 1
               PROVE  BitReverse(2^(k + 1) + y) = BitReverse(y) + 2^(Bits - 1 - (k + 1))
    OBVIOUS
  <2> DEFINE m == 2^k
             top == 2^Bits
             e == Bits - 1 - (k + 1)
             d == 2^e
             v == 2 * m + y
             y2 == y \div 2
             r == y % 2
  <2>1. e \in Nat /\ e + 1 = Bits - 1 - k /\ k + 1 + 1 <= Bits /\ k + 1 + 1 \in Nat /\ Bits \in Nat /\ k + 1 \in Nat
    BY WidthIsPositive
  <2>2. 2^(k + 1) = 2 * m /\ m \in Nat \ {0} /\ 2^(e + 1) = 2 * d /\ d \in Nat /\ 2^(k + 1 + 1) = 2 * 2^(k + 1)
    BY <2>1, PowersDouble, Zenon
  <2>3. 2^(k + 1 + 1) <= top /\ top \in Nat
    BY <2>1, PowersGrow, Zenon
  <2> HIDE DEF m, d, top, e
  <2>4. y \in Nat /\ y < 2 * m /\ 4 * m <= top
    BY <2>2, <2>3
  <2>5. y2 \in 0 .. m - 1 /\ r \in Nat /\ y = 2 * y2 + r
    BY <2>2, <2>4
  <2>6. v \in Nat /\ v < top /\ y < top /\ v \div 2 = m + y2 /\ v % 2 = r
    BY <2>2, <2>3, <2>4
  <2> HIDE DEF v, y2, r
  <2>7. 2 * BitReverse(v) = BitReverse(m + y2) + r * top /\ BitReverse(v) \in Nat
    BY <2>6, ReversalOfHalf DEF top
  <2>8. 2 * BitReverse(y) = BitReverse(y2) + r * top /\ BitReverse(y) \in Nat /\ BitReverse(y2) \in Nat
    BY <2>4, <2>6, ReversalOfHalf DEF top, y2, r
  <2>9. BitReverse(m + y2) = BitReverse(y2) + 2 * d
    <3>1. k <= Bits - 1
      BY WidthIsPositive
    <3>2. \A z \in 0 .. m - 1 : BitReverse(m + z) = BitReverse(z) + 2^(Bits - 1 - k)
      BY <1>2, <3>1 DEF m
    <3>3. 2^(Bits - 1 - k) = 2 * d
      BY <2>1, <2>2
    <3> QED
      BY <2>5, <3>2, <3>3
  <2>10. r * top \in Nat
    BY <2>3, <2>5
  <2> DEFINE rt == r * top
  <2> HIDE DEF rt
  <2>11. BitReverse(v) = BitReverse(y) + d
    BY <2>2, <2>7, <2>8, <2>9, <2>10 DEF rt
  <2> QED
    BY <2>2, <2>11 DEF v, d, e
<1> DEFINE last == Bits - 1
<1>3. last \in T
  <2> HIDE DEF T
  <2>1. last \in Nat
    BY WidthIsPositive
  <2> QED
    BY <1>1, <1>2, <2>1, SetInduction
<1>4. Bits - 1 - last = 0 /\ last <= Bits - 1 /\ 2^0 = 1
  <2>1. 2^0 = 1
    BY PowersDouble, Zenon
  <2> QED
    BY <2>1, WidthIsPositive
<1>5. \A y \in 0 .. 2^last - 1 : BitReverse(2^last + y) = BitReverse(y) + 2^(Bits - 1 - last)
  BY <1>3, <1>4
<1>6. 2^(Bits - 1 - last) = 1
  BY <1>4
<1>7. BitReverse(2^last + x) = BitReverse(x) + 2^(Bits - 1 - last)
  BY <1>5, Zenon
<1> QED
  BY <1>6, <1>7

(* The indices a level runs through upwards, and those it runs through
   downwards, have reversals that add up to 2^Bits. *)
LEMMA ReversalsAddUp ==
  ASSUME NEW level \in 0 .. Bits - 1, NEW s \in 0 .. 2^level - 1
  PROVE  BitReverse(2^level + s) + BitReverse(2^(level + 1) - 1 - s) = 2^Bits
<1> DEFINE T == {k \in Nat : k <= Bits - 1 =>
                   \A c \in 0 .. 2^k - 1 :
                     BitReverse(2^k + c) + BitReverse(2^(k + 1) - 1 - c) = 2^Bits}
<1>1. 0 \in T
  <2>1. 2^0 = 1 /\ 2^(0 + 1) = 2
    <3>1. 2^0 = 1 /\ 2^(0 + 1) = 2 * 2^0
      BY PowersDouble, Zenon
    <3> QED
      BY <3>1
  <2> SUFFICES ASSUME NEW c \in 0 .. 2^0 - 1
               PROVE  BitReverse(2^0 + c) + BitReverse(2^(0 + 1) - 1 - c) = 2^Bits
    OBVIOUS
  <2>2. c = 0 /\ 2^0 + c = 1 /\ 2^(0 + 1) - 1 - c = 1
    BY <2>1
  <2>3. BitReverse(1) + BitReverse(1) = 2^Bits
    BY ReversalOfSmall
  <2> QED
    BY <2>2, <2>3
<1>2. ASSUME NEW k \in Nat, k \in T PROVE k + 1 \in T
  <2> SUFFICES ASSUME k + 1 <= Bits - 1, NEW c \in 0 .. 2^(k + 1) - 1
               PROVE  BitReverse(2^(k + 1) + c) + BitReverse(2^((k + 1) + 1) - 1 - c) = 2^Bits
    OBVIOUS
  <2> DEFINE m == 2^k
             top == 2^Bits
             v == 2 * m + c
             w == 4 * m - 1 - c
             c2 == c \div 2
             r == c % 2
  <2>1. k + 1 + 1 <= Bits /\ k + 1 + 1 \in Nat /\ Bits \in Nat /\ k + 1 \in Nat
    BY WidthIsPositive
  <2>2. 2^(k + 1) = 2 * m /\ m \in Nat \ {0} /\ 2^((k + 1) + 1) = 2 * 2^(k + 1)
    BY <2>1, PowersDouble, Zenon
  <2>3. 2^((k + 1) + 1) <= top /\ top \in Nat
    BY <2>1, PowersGrow, Zenon
  <2> HIDE DEF m, top
  <2>4. c \in Nat /\ c < 2 * m /\ 4 * m <= top
    BY <2>2, <2>3
  <2>5. c2 \in 0 .. m - 1 /\ r \in 0 .. 1 /\ c = 2 * c2 + r
    BY <2>2, <2>4
  <2>6. v \in Nat /\ v < top /\ v \div 2 = m + c2 /\ v % 2 = r
    BY <2>2, <2>3, <2>4
  <2>7. w \in Nat /\ w < top /\ w \div 2 = 2 * m - 1 - c2 /\ w % 2 = 1 - r
    <3>1. w = 2 * (2 * m - 1 - c2) + (1 - r) /\ 2 * m - 1 - c2 \in Int /\ 1 - r \in 0 .. 2 - 1 /\ w \in Int
      <4> HIDE DEF c2, r
      <4> QED
        BY <2>2, <2>4, <2>5
    <3>2. w \div 2 = 2 * m - 1 - c2 /\ w % 2 = 1 - r
      <4> DEFINE z == 2 * m - 1 - c2
                 low_bit == 1 - r
      <4>1. w = 2 * z + low_bit /\ z \in Int /\ low_bit \in 0 .. 1 /\ w \in Int
        BY <3>1
      <4> HIDE DEF w, z, low_bit
      <4>2. w \div 2 = z /\ w % 2 = low_bit
        BY <4>1
      <4> QED
        BY <4>2 DEF z, low_bit
    <3> QED
      BY <2>2, <2>3, <2>4, <3>2
  <2> HIDE DEF v, w, c2, r
  <2>8. 2 * BitReverse(v) = BitReverse(m + c2) + r * top /\ BitReverse(v) \in Nat /\ BitReverse(m + c2) \in Nat
    BY <2>6, ReversalOfHalf DEF top
  <2>9. 2 * BitReverse(w) = BitReverse(2 * m - 1 - c2) + (1 - r) * top /\ BitReverse(w) \in Nat /\ BitReverse(2 * m - 1 - c2) \in Nat
    BY <2>7, ReversalOfHalf DEF top
  <2>10. BitReverse(m + c2) + BitReverse(2 * m - 1 - c2) = top
    <3>1. k <= Bits - 1
      BY WidthIsPositive
    <3>2. \A z \in 0 .. m - 1 : BitReverse(m + z) + BitReverse(2^(k + 1) - 1 - z) = top
      BY <1>2, <3>1 DEF m, top
    <3> QED
      BY <2>2, <2>5, <3>2
  <2>11. r * top + (1 - r) * top = top
    BY <2>3, <2>5
  <2> DEFINE rt == r * top
             st == (1 - r) * top
  <2>12. rt \in Int /\ st \in Int
    BY <2>3, <2>5
  <2> HIDE DEF rt, st
  <2>13. BitReverse(v) + BitReverse(w) = top
    <3> DEFINE bv == BitReverse(v)
               bw == BitReverse(w)
               bm == BitReverse(m + c2)
               bn == BitReverse(2 * m - 1 - c2)
    <3>1. 2 * bv = bm + rt /\ bv \in Int /\ bm \in Int
      BY <2>8 DEF rt
    <3>2. 2 * bw = bn + st /\ bw \in Int /\ bn \in Int
      BY <2>9 DEF st
    <3>3. bm + bn = top /\ rt + st = top
      BY <2>10, <2>11 DEF rt, st
    <3> HIDE DEF bv, bw, bm, bn
    <3>4. bv + bw = top
      BY <2>3, <2>12, <3>1, <3>2, <3>3
    <3> QED
      BY <3>4 DEF bv, bw
  <2>14. 2^(k + 1) + c = v /\ 2^((k + 1) + 1) - 1 - c = w
    BY <2>2, <2>4 DEF v, w
  <2> QED
    BY <2>13, <2>14 DEF top
<1>3. level \in T
  <2> HIDE DEF T
  <2>1. level \in Nat
    OBVIOUS
  <2> QED
    BY <1>1, <1>2, <2>1, SetInduction
<1>4. level <= Bits - 1
  BY WidthIsPositive
<1>5. \A c \in 0 .. 2^level - 1 : BitReverse(2^level + c) + BitReverse(2^(level + 1) - 1 - c) = 2^Bits
  BY <1>3, <1>4
<1> QED
  BY <1>5, Zenon

(* After k levels of splitting there are Count(k) blocks of size Size(k). *)
Size(k)  == 2^(Bits + 1 - k)
Count(k) == 2^k

(* The degree, its half, and the first and the last levels. *)
LEMMA DegreeFacts ==
  /\ N = 2 * Half /\ Half = 2^Bits /\ Half \in Nat \ {0} /\ N \in Nat \ {0}
  /\ Size(0) = N /\ Count(0) = 1 /\ Count(1) = 2 /\ Size(Bits) = 2 /\ Size(Bits + 1) = 1 /\ Count(Bits) = Half
<1>1. Bits \in Nat /\ Bits + 1 - 0 = Bits + 1 /\ Bits + 1 - Bits = 0 + 1 /\ Bits + 1 - (Bits + 1) = 0 /\ 0 + 1 = 1
  BY WidthIsPositive
<1>2. 2^(Bits + 1) = 2 * 2^Bits /\ 2^Bits \in Nat \ {0} /\ 2^0 = 1 /\ 2^(0 + 1) = 2 * 2^0
  BY <1>1, PowersDouble, Zenon
<1> DEFINE m == 2^Bits
<1>3. N = 2 * m /\ m \in Nat \ {0}
  BY <1>2, ConstantsAssumption
<1>4. Half = m
  <2> HIDE DEF m
  <2> QED
    BY <1>3 DEF Half
<1>5. 2^1 = 2 /\ 2^(Bits + 1 - Bits) = 2 /\ 2^(Bits + 1 - 0) = N /\ 2^(Bits + 1 - (Bits + 1)) = 1
  <2>1. 2^(0 + 1) = 2
    BY <1>2
  <2>2. N = 2^(Bits + 1)
    BY ConstantsAssumption
  <2> QED
    BY <1>1, <1>2, <2>1, <2>2, Zenon
<1>6. N \in Nat \ {0}
  <2> HIDE DEF m
  <2> QED
    BY <1>3
<1> QED
  BY <1>2, <1>3, <1>4, <1>5, <1>6 DEF Size, Count

(* What the levels are to each other. *)
Splits(k) ==
  /\ {Size(k), Size(k + 1), Count(k), Count(k + 1)} \subseteq Nat \ {0}
  /\ Size(k) = 2 * Size(k + 1) /\ Count(k + 1) = 2 * Count(k)
  /\ Count(k) * Size(k) = N /\ N \div Size(k) = Count(k)

(* Every level splits the one before it. *)
LEMMA LevelSplits ==
  ASSUME NEW k \in 0 .. Bits
  PROVE  Splits(k)
<1> DEFINE e == Bits - k
<1>1. e \in Nat /\ k \in Nat /\ e + 1 = Bits + 1 - k /\ e = Bits + 1 - (k + 1) /\ k + (e + 1) = Bits + 1
  BY WidthIsPositive
<1> DEFINE m == 2^e
           c == 2^k
<1>2. m \in Nat \ {0} /\ c \in Nat \ {0} /\ 2^(e + 1) = 2 * m /\ 2^(k + 1) = 2 * c
  BY <1>1, PowersDouble, Zenon
<1>3. 2^(k + (e + 1)) = 2^k * 2^(e + 1)
  <2>1. e + 1 \in Nat
    BY <1>1
  <2> QED
    BY <1>1, <2>1, PowersMultiply, Zenon
<1>4. N = c * (2 * m)
  BY <1>1, <1>2, <1>3, ConstantsAssumption
<1>5. Size(k) = 2 * m /\ Size(k + 1) = m /\ Count(k) = c /\ Count(k + 1) = 2 * c
  BY <1>1, <1>2 DEF Size, Count
<1> HIDE DEF e, m, c
<1>6. N \div (2 * m) = c
  <2> DEFINE d == 2 * m
  <2>1. d \in Nat \ {0} /\ c * d \in Int /\ c \in Int
    BY <1>2
  <2>2. c * d = d * c + 0 /\ 0 \in 0 .. d - 1
    BY <2>1
  <2> HIDE DEF d
  <2>3. (c * d) \div d = c
    BY <2>1, <2>2, QuotientIsUnique
  <2> QED
    BY <1>4, <2>3 DEF d
<1>7. 2 * m \in Nat \ {0} /\ 2 * c \in Nat \ {0}
  BY <1>2
<1> QED
  BY <1>2, <1>4, <1>5, <1>6, <1>7 DEF Splits

-----------------------------------------------------------------------------
RootPower(e) == Powers(Root)[e]

(* Root is a root of -1 of order Half, and 0 is not -1. *)
LEMMA RootFacts ==
  /\ Root \in Int /\ Same(RootPower(Half), -1) /\ \A e \in Nat : RootPower(e) \in Int
  /\ ~Same(0, -1) /\ Same(Q, 0)
<1>1. Root \in Int
  BY ConstantsAssumption
<1>2. ModPow(Root, Half) = Q - 1
  BY RootAssumption
<1>3. Same(ModPow(Root, Half), RootPower(Half))
  BY <1>1, DegreeFacts, ModPowIsPower DEF RootPower
<1>4. Same(Q - 1, -1)
  <2>1. Q - 1 = -1 + Q * 1 /\ Q - 1 \in Int /\ -1 \in Int
    BY ModulusIsPositive
  <2> QED
    BY <2>1, SameMeans
<1>5. ~Same(0, -1)
  <2>1. 0 \in 0 .. Q - 1 /\ Q - 1 \in 0 .. Q - 1 /\ Q - 1 # 0
    BY ModulusIsPositive
  <2>2. 0 % Q = 0 /\ (Q - 1) % Q = Q - 1
    BY <2>1, ModulusIsPositive, SmallRemainder
  <2> QED
    BY <1>4, <2>1, <2>2 DEF Same
<1>6. Same(Q, 0)
  <2>1. Q = 0 + Q * 1 /\ Q \in Int /\ 0 \in Int
    BY ModulusIsPositive
  <2> QED
    BY <2>1, SameMeans
<1>7. \A e \in Nat : RootPower(e) \in Int
  BY <1>1, PowersUnfold DEF RootPower
<1> QED
  BY <1>1, <1>2, <1>3, <1>4, <1>5, <1>6, <1>7 DEF Same

(* Exponents of Root add up. *)
LEMMA RootPowersAdd ==
  ASSUME NEW d \in Nat, NEW e \in Nat
  PROVE  RootPower(d + e) = RootPower(d) * RootPower(e)
BY RootFacts, PowersOfSum DEF RootPower

(* ml_kem_ntt_zeta gives powers of Root with reversed exponents. *)
LEMMA ZetaIsPower ==
  ASSUME NEW i \in 0 .. Half - 1
  PROVE  /\ Zeta[i] \in Residues /\ Same(Zeta[i], RootPower(BitReverse(i)))
         /\ BitReverse(i) \in Nat /\ Zeta[i] \in Int
<1>1. i \in Nat /\ i < 2^Bits
  BY DegreeFacts
<1>2. BitReverse(i) \in Nat
  BY <1>1, ReversalOfHalf
<1>3. Zeta[i] = ModPow(Root, BitReverse(i))
  BY DEF Zeta
<1>4. ModPow(Root, BitReverse(i)) \in Residues /\ Same(ModPow(Root, BitReverse(i)), Powers(Root)[BitReverse(i)])
  BY <1>2, RootFacts, ModPowIsPower
<1> QED
  BY <1>2, <1>3, <1>4, ResiduesAreNumbers DEF RootPower

(* The zeta of the forward level and the one of the inverse level that undoes
   it have the product -1. *)
LEMMA ZetasCancel ==
  ASSUME NEW k \in 0 .. Bits - 1, NEW s \in 0 .. Count(k) - 1
  PROVE  /\ Count(k) + s \in 0 .. Half - 1 /\ Count(k + 1) - 1 - s \in 0 .. Half - 1
         /\ Same(Zeta[Count(k) + s] * Zeta[Count(k + 1) - 1 - s], -1)
         /\ Zeta[Count(k) + s] # 0
<1> DEFINE v == Count(k) + s
           w == Count(k + 1) - 1 - s
<1>1. v \in 0 .. Half - 1 /\ w \in 0 .. Half - 1
  <2>1. k \in 0 .. Bits /\ k + 1 \in Nat /\ k + 1 <= Bits /\ Bits \in Nat
    BY WidthIsPositive
  <2>2. Splits(k)
    BY <2>1, LevelSplits
  <2>3. 2^(k + 1) <= 2^Bits
    BY <2>1, PowersGrow, Zenon
  <2>4. Count(k + 1) <= Half
    BY <2>3, DegreeFacts DEF Count
  <2> QED
    BY <2>2, <2>4, DegreeFacts DEF Splits
<1>2. BitReverse(v) + BitReverse(w) = Half
  BY ReversalsAddUp, DegreeFacts DEF Count
<1> HIDE DEF v, w
<1> DEFINE z == Zeta[v]
           y == Zeta[w]
           d == BitReverse(v)
           e == BitReverse(w)
<1>3. z \in Int /\ y \in Int /\ d \in Nat /\ e \in Nat /\ Same(z, RootPower(d)) /\ Same(y, RootPower(e))
  BY <1>1, ZetaIsPower
<1> HIDE DEF z, y, d, e
<1>4. RootPower(d) \in Int /\ RootPower(e) \in Int
  BY <1>3, RootFacts
<1>5. Same(z * y, RootPower(d) * RootPower(e))
  BY <1>3, <1>4, SameSums
<1>6. RootPower(d + e) = RootPower(d) * RootPower(e)
  BY <1>3, RootPowersAdd
<1>7. d + e = Half
  BY <1>2 DEF d, e
<1>8. Same(z * y, -1)
  BY <1>5, <1>6, <1>7, RootFacts DEF Same
<1>9. z # 0
  <2>1. 0 * y = 0
    BY <1>3
  <2> QED
    BY <1>8, <2>1, RootFacts
<1> QED
  BY <1>1, <1>8, <1>9 DEF v, w, z, y

RootAt(k, c) == RootOf(Size(k), c)

(* The roots of the level below, from the zetas of this one. *)
LEMMA RootsBelow ==
  ASSUME NEW k \in 0 .. Bits - 1, NEW s \in 0 .. Count(k) - 1
  PROVE  /\ RootAt(k + 1, 2 * s) = Zeta[Count(k) + s]
         /\ RootAt(k + 1, 2 * s + 1) = Q - Zeta[Count(k) + s]
<1>1. Size(k + 1) # N /\ N \div (2 * Size(k + 1)) = Count(k)
  <2>1. k \in 0 .. Bits /\ k \in Nat /\ Splits(k)
    BY WidthIsPositive, LevelSplits
  <2> DEFINE m == Size(k)
             n == Size(k + 1)
  <2>2. m = 2 * n /\ n \in Nat \ {0} /\ N \div m = Count(k) /\ Count(k) * m = N /\ Count(k) \in Nat \ {0}
    BY <2>1 DEF Splits
  <2> DEFINE c == Count(k)
  <2> HIDE DEF m, n, c
  <2>3. n # N
    <3> DEFINE cn == c * n
    <3>0. N = c * m /\ c \in Nat \ {0}
      BY <2>2 DEF c
    <3>1. c * m = cn + cn /\ cn \in Nat
      BY <2>2, <3>0
    <3>2. cn >= n
      <4> DEFINE d == c - 1
      <4>1. d \in Nat /\ c = d + 1
        BY <3>0
      <4> HIDE DEF d
      <4>2. cn = d * n + n /\ d * n \in Nat
        BY <2>2, <4>1
      <4> QED
        BY <4>2, <2>2
    <3> HIDE DEF cn
    <3> QED
      BY <2>2, <3>0, <3>1, <3>2
  <2> QED
    BY <2>2, <2>3 DEF m, n
<1>2. s \in Nat
  <2>1. k \in 0 .. Bits
    BY WidthIsPositive
  <2>2. Splits(k)
    BY <2>1, LevelSplits
  <2> QED
    BY <2>2 DEF Splits
<1>3. (2 * s) \div 2 = s /\ (2 * s + 1) \div 2 = s /\ (2 * s) % 2 = 0 /\ (2 * s + 1) % 2 # 0
  BY <1>2
<1> DEFINE u == 2 * s
           v == 2 * s + 1
<1>4. u \div 2 = s /\ v \div 2 = s /\ u % 2 = 0 /\ v % 2 # 0
  BY <1>3
<1> HIDE DEF u, v
<1>5. RootAt(k + 1, u) = Zeta[Count(k) + s]
  BY <1>1, <1>4 DEF RootAt, RootOf
<1>6. RootAt(k + 1, v) = Q - Zeta[Count(k) + s]
  BY <1>1, <1>4 DEF RootAt, RootOf
<1> QED
  BY <1>5, <1>6 DEF u, v

(* A block with the number c of a level below the first is one half of the
   block c \div 2. *)
LEMMA HalvesOfBlocks ==
  ASSUME NEW k \in 1 .. Bits, NEW c \in 0 .. Count(k) - 1
  PROVE  \E s \in 0 .. Count(k - 1) - 1 :
           /\ s = c \div 2 /\ c = 2 * s + (c % 2) /\ c % 2 \in {0, 1}
           /\ k - 1 \in 0 .. Bits - 1 /\ (k - 1) + 1 = k
<1> DEFINE s == c \div 2
<1>1. k - 1 \in 0 .. Bits /\ k - 1 \in 0 .. Bits - 1 /\ (k - 1) + 1 = k
  BY WidthIsPositive
<1>2. Splits(k - 1)
  BY <1>1, LevelSplits
<1> DEFINE m == Count(k - 1)
<1>3. Count(k) = 2 * m /\ m \in Nat \ {0}
  BY <1>1, <1>2 DEF Splits
<1> HIDE DEF m
<1>4. c \in Nat /\ c < 2 * m
  BY <1>3
<1>5. s \in 0 .. m - 1 /\ c = 2 * s + (c % 2) /\ c % 2 \in {0, 1}
  BY <1>3, <1>4
<1> HIDE DEF s
<1> QED
  BY <1>1, <1>5 DEF m, s

(* The exponent of Root a block's root has. *)
RootExponent(k, c) ==
  IF k = 0 THEN Half ELSE BitReverse(Count(k - 1) + (c \div 2)) + (c % 2) * Half

(* Every block's root is that power of Root. *)
LEMMA RootsArePowers ==
  ASSUME NEW k \in 0 .. Bits, NEW c \in 0 .. Count(k) - 1
  PROVE  /\ RootAt(k, c) \in Residues /\ RootAt(k, c) \in Int /\ RootExponent(k, c) \in Nat
         /\ Same(RootAt(k, c), RootPower(RootExponent(k, c)))
<1>1. CASE k = 0
  <2>1. RootAt(k, c) = Q - 1
    BY <1>1, DegreeFacts DEF RootAt, RootOf
  <2>2. Q - 1 \in Residues /\ Q - 1 \in Int
    BY ModulusIsPositive DEF Residues
  <2>3. Same(Q - 1, -1)
    <3>1. Q - 1 = -1 + Q * 1 /\ Q - 1 \in Int /\ -1 \in Int
      BY ModulusIsPositive
    <3> QED
      BY <3>1, SameMeans
  <2>4. Same(Q - 1, RootPower(Half))
    BY <2>3, RootFacts DEF Same
  <2>5. RootExponent(k, c) = Half /\ Half \in Nat
    BY <1>1, DegreeFacts DEF RootExponent
  <2> QED
    BY <2>1, <2>2, <2>4, <2>5
<1>2. CASE k # 0
  <2>1. k \in 1 .. Bits
    BY <1>2, WidthIsPositive
  <2>2. PICK s \in 0 .. Count(k - 1) - 1 :
           /\ s = c \div 2 /\ c = 2 * s + (c % 2) /\ c % 2 \in {0, 1}
           /\ k - 1 \in 0 .. Bits - 1 /\ (k - 1) + 1 = k
    BY <2>1, HalvesOfBlocks
  <2> DEFINE i == Count(k - 1) + s
             z == Zeta[i]
             e == BitReverse(i)
  <2>3. i \in 0 .. Half - 1 /\ z # 0
    BY <2>2, ZetasCancel
  <2>4. z \in Residues /\ z \in Int /\ e \in Nat /\ Same(z, RootPower(e))
    <3> HIDE DEF i
    <3> QED
      BY <2>3, ZetaIsPower
  <2>5. RootAt(k, 2 * s) = z /\ RootAt(k, 2 * s + 1) = Q - z
    <3>1. /\ RootAt((k - 1) + 1, 2 * s) = z /\ RootAt((k - 1) + 1, 2 * s + 1) = Q - z
      BY <2>2, RootsBelow
    <3> QED
      BY <2>2, <3>1
  <2>6. RootExponent(k, c) = e + (c % 2) * Half
    BY <1>2, <2>2 DEF RootExponent
  <2> HIDE DEF i, z, e
  <2>7. CASE c % 2 = 0
    <3>1. c = 2 * s
      BY <2>2, <2>7
    <3>2. RootExponent(k, c) = e
      BY <2>4, <2>6, <2>7, DegreeFacts
    <3> QED
      BY <2>4, <2>5, <3>1, <3>2
  <2>8. CASE c % 2 = 1
    <3>1. c = 2 * s + 1
      BY <2>2, <2>8
    <3>2. RootExponent(k, c) = e + Half
      BY <2>4, <2>6, <2>8, DegreeFacts
    <3>3. Q - z \in Residues /\ Q - z \in Int
      BY <2>3, <2>4, ModulusIsPositive DEF z, Residues
    <3> DEFINE p == RootPower(e)
               h == RootPower(Half)
    <3>4. RootPower(e + Half) = p * h /\ p \in Int /\ h \in Int /\ Same(h, -1)
      BY <2>4, DegreeFacts, RootPowersAdd, RootFacts
    <3>5. Same(z, p)
      BY <2>4
    <3> HIDE DEF p, h
    <3>6. Same(p, p) /\ Same(p * h, p * (-1)) /\ -1 \in Int
      <4>1. Same(p, p) /\ -1 \in Int
        BY DEF Same
      <4> QED
        BY <4>1, <3>4, SameSums
    <3>7. Same(Q - z, 0 - p)
      <4>1. Same(Q, 0) /\ Q \in Int /\ 0 \in Int
        BY RootFacts, ModulusIsPositive
      <4> QED
        BY <4>1, <2>4, <3>4, <3>5, SameSums
    <3>8. 0 - p = p * (-1)
      BY <3>4
    <3>9. Same(Q - z, p * h)
      BY <3>6, <3>7, <3>8 DEF Same
    <3>10. e + Half \in Nat
      BY <2>4, DegreeFacts
    <3> QED
      BY <2>5, <3>1, <3>2, <3>3, <3>4, <3>9, <3>10
  <2> QED
    BY <2>2, <2>7, <2>8
<1> QED
  BY <1>1, <1>2

(* The zeta of a block is a square root of its root. *)
LEMMA ZetasAreRoots ==
  ASSUME NEW k \in 0 .. Bits - 1, NEW s \in 0 .. Count(k) - 1
  PROVE  Same(Zeta[Count(k) + s] * Zeta[Count(k) + s], RootAt(k, s))
<1> DEFINE i == Count(k) + s
           z == Zeta[i]
           e == BitReverse(i)
<1>1. i \in 0 .. Half - 1
  BY ZetasCancel
<1>2. z \in Int /\ e \in Nat /\ Same(z, RootPower(e)) /\ RootPower(e) \in Int
  <2> HIDE DEF i
  <2> QED
    BY <1>1, ZetaIsPower, RootFacts
<1>3. k \in 0 .. Bits
  BY WidthIsPositive
<1>4. RootExponent(k, s) = 2 * e
  <2>1. i \in Nat /\ i < 2^Bits
    BY <1>1, DegreeFacts
  <2>2. 2 * e = BitReverse(i \div 2) + (i % 2) * Half
    <3> HIDE DEF i
    <3> QED
      BY <2>1, ReversalOfHalf, DegreeFacts
  <2>3. CASE k = 0
    <3>1. i = 1
      BY <2>3, DegreeFacts
    <3>2. 2 * e = Half
      BY <3>1, ReversalOfSmall, DegreeFacts
    <3> QED
      BY <2>3, <3>2 DEF RootExponent
  <2>4. CASE k # 0
    <3>1. k - 1 \in 0 .. Bits /\ (k - 1) + 1 = k
      BY <2>4, WidthIsPositive
    <3>2. Splits(k - 1) /\ Splits(k)
      BY <1>3, <3>1, LevelSplits
    <3> DEFINE m == Count(k - 1)
    <3>3. Count(k) = 2 * m /\ m \in Nat
      BY <3>1, <3>2 DEF Splits
    <3> HIDE DEF m
    <3>4. i = 2 * m + s /\ s \in Nat
      BY <3>3
    <3>5. i \div 2 = m + (s \div 2) /\ i % 2 = s % 2
      BY <3>3, <3>4
    <3>6. RootExponent(k, s) = BitReverse(m + (s \div 2)) + (s % 2) * Half
      BY <2>4 DEF RootExponent, m
    <3> QED
      BY <2>2, <3>5, <3>6
  <2> QED
    BY <2>3, <2>4
<1>5. RootAt(k, s) \in Int /\ Same(RootAt(k, s), RootPower(2 * e))
  BY <1>3, <1>4, RootsArePowers
<1> HIDE DEF z, e
<1>6. RootPower(e + e) = RootPower(e) * RootPower(e) /\ e + e = 2 * e
  BY <1>2, RootPowersAdd
<1>7. Same(z * z, RootPower(e) * RootPower(e))
  BY <1>2, SameSums
<1> QED
  BY <1>5, <1>6, <1>7 DEF Same, z

(* A power of a power is one power. *)
LEMMA PowersOfPower ==
  ASSUME NEW x \in Int, NEW n \in Nat, NEW m \in Nat
  PROVE  Powers(Powers(x)[n])[m] = Powers(x)[n * m]
<1> DEFINE p == Powers(x)
           q == Powers(p[n])
           T == {k \in Nat : q[k] = p[n * k]}
<1>1. p[0] = 1 /\ \A i \in Nat : p[i] \in Int
  BY PowersUnfold
<1>2. q[0] = 1 /\ \A i \in Nat : q[i] \in Int /\ q[i + 1] = q[i] * p[n]
  <2>1. p[n] \in Int
    BY <1>1
  <2> HIDE DEF p
  <2> QED
    BY <2>1, PowersUnfold
<1>3. \A i \in Nat : p[i + n] = p[i] * p[n]
  BY PowersOfSum
<1> HIDE DEF p, q
<1>4. 0 \in T
  <2>1. n * 0 = 0
    OBVIOUS
  <2> QED
    BY <1>1, <1>2, <2>1
<1>5. ASSUME NEW k \in Nat, k \in T PROVE k + 1 \in T
  <2> DEFINE nk == n * k
  <2>1. nk \in Nat /\ n * (k + 1) = nk + n
    OBVIOUS
  <2>2. q[k] = p[nk]
    BY <1>5
  <2> HIDE DEF nk
  <2>3. q[k + 1] = p[nk + n]
    BY <1>2, <1>3, <2>1, <2>2
  <2> QED
    BY <2>1, <2>3
<1> HIDE DEF T
<1>6. m \in T
  BY <1>4, <1>5, SetInduction
<1> QED
  BY <1>6 DEF T, p, q

(* The odd powers of -1. *)
LEMMA PowersOfMinusOne ==
  ASSUME NEW n \in Nat
  PROVE  Powers(-1)[2 * n + 1] = -1
<1> DEFINE q == Powers(1)
           T == {k \in Nat : q[k] = 1}
<1>1. q[0] = 1 /\ \A i \in Nat : q[i] \in Int /\ q[i + 1] = q[i] * 1
  <2>1. 1 \in Int
    OBVIOUS
  <2> QED
    BY <2>1, PowersUnfold
<1> HIDE DEF q
<1>2. 0 \in T /\ \A k \in Nat : k \in T => k + 1 \in T
  BY <1>1
<1> HIDE DEF T
<1>3. n \in T
  BY <1>2, SetInduction
<1>4. q[n] = 1
  BY <1>3 DEF T
<1>5. (-1) * (-1) = 1 /\ -1 \in Int /\ (-1) * 1 = -1
  OBVIOUS
<1>6. Powers(-1)[2 * n + 1] = (-1) * Powers((-1) * (-1))[n]
  BY <1>5, PowersOfSquare
<1> QED
  BY <1>4, <1>5, <1>6 DEF q

(* The roots of the last level are the ones ml_kem_ntt_multiply takes, and
   each is a root of -1 of the order Half. *)
LEMMA GammasAreRoots ==
  ASSUME NEW i \in 0 .. Half - 1
  PROVE  /\ Gamma[i] \in Residues /\ Gamma[i] \in Int /\ RootOf(2, i) = Gamma[i] /\ RootAt(Bits, i) = Gamma[i]
         /\ Same(Powers(Gamma[i])[Half], -1)
<1> DEFINE e == 2 * BitReverse(i) + 1
           g == Gamma[i]
           rev == BitReverse(i)
<1>1. i \in Nat /\ i < 2^Bits
  BY DegreeFacts
<1>2. rev \in Nat /\ e = 2 * rev + 1 /\ e \in Nat
  <2>1. rev \in Nat
    BY <1>1, ReversalOfHalf
  <2> HIDE DEF rev
  <2> QED
    BY <2>1 DEF rev
<1>3. g = ModPow(Root, e)
  BY DEF Gamma
<1>4. g \in Residues /\ Same(g, RootPower(e)) /\ g \in Int
  <2> HIDE DEF e
  <2>1. ModPow(Root, e) \in Residues /\ Same(ModPow(Root, e), Powers(Root)[e])
    BY <1>2, RootFacts, ModPowIsPower
  <2> QED
    BY <1>3, <2>1, ResiduesAreNumbers DEF RootPower
<1>5. Bits \in 0 .. Bits /\ i \in 0 .. Count(Bits) - 1 /\ Bits # 0
  BY WidthIsPositive, DegreeFacts
<1>6. RootExponent(Bits, i) = e
  <2> DEFINE h == i \div 2
             m == 2^(Bits - 1)
  <2>1. h \in 0 .. m - 1
    <3>1. (Bits - 1) + 1 = Bits /\ Bits - 1 \in Nat
      BY WidthIsPositive
    <3>2. 2^((Bits - 1) + 1) = 2 * m /\ m \in Nat
      BY <3>1, PowersDouble, Zenon
    <3>3. i < 2 * m
      BY <1>1, <3>1, <3>2
    <3> HIDE DEF m
    <3> QED
      BY <1>1, <3>2, <3>3
  <2>2. BitReverse(m + h) = BitReverse(h) + 1
    <3> HIDE DEF h
    <3> QED
      BY <2>1, ReversalOfTop
  <2>3. 2 * rev = BitReverse(h) + (i % 2) * Half /\ BitReverse(h) \in Nat
    BY <1>1, ReversalOfHalf, DegreeFacts
  <2>4. RootExponent(Bits, i) = BitReverse(m + h) + (i % 2) * Half
    BY <1>5 DEF RootExponent, Count
  <2> DEFINE r == (i % 2) * Half
  <2>5. r \in Int
    BY DegreeFacts
  <2> HIDE DEF h, m, rev, r, e
  <2> QED
    BY <1>2, <2>2, <2>3, <2>4, <2>5 DEF r
<1>7. RootAt(Bits, i) = g
  <2> HIDE DEF g, e
  <2>1. RootAt(Bits, i) \in Residues /\ Same(RootAt(Bits, i), RootPower(e))
    BY <1>5, <1>6, RootsArePowers
  <2>2. Same(RootAt(Bits, i), g)
    BY <1>4, <2>1 DEF Same
  <2> QED
    BY <1>4, <2>1, <2>2, SameResidues
<1>8. Same(Powers(g)[Half], -1)
  <2> DEFINE p == RootPower(e)
             h == RootPower(Half)
  <2>1. p \in Int /\ h \in Int /\ Same(h, -1) /\ Half \in Nat /\ Root \in Int
    BY <1>2, DegreeFacts, RootFacts
  <2>2. Powers(p)[Half] = Powers(Root)[e * Half]
    BY <1>2, <2>1, PowersOfPower DEF RootPower
  <2>3. Powers(h)[e] = Powers(Root)[Half * e]
    BY <1>2, <2>1, PowersOfPower DEF RootPower
  <2>4. e * Half = Half * e
    BY <1>2, <2>1
  <2>5. -1 \in Int
    OBVIOUS
  <2>6. Powers(-1)[e] = -1
    <3> HIDE DEF rev
    <3> QED
      BY <1>2, PowersOfMinusOne
  <2> HIDE DEF p, h, e, g
  <2>7. Same(Powers(h)[e], Powers(-1)[e])
    BY <1>2, <2>1, <2>5, PowersAreSame
  <2>8. Same(Powers(g)[Half], Powers(p)[Half])
    BY <1>4, <2>1, PowersAreSame DEF p
  <2> QED
    BY <2>2, <2>3, <2>4, <2>6, <2>7, <2>8 DEF Same
<1>9. RootOf(2, i) = RootAt(Bits, i)
  BY DegreeFacts DEF RootAt
<1> QED
  BY <1>4, <1>7, <1>8, <1>9

-----------------------------------------------------------------------------
(* Blocks of an array, and one turn of either transform over one of them. *)

(* What block c of level k holds of p: p modulo X^Size(k) - RootAt(k, c), or so
   many times that. *)
BlockValue(p, k, c, t) == Residue(p, Size(k), RootAt(k, c), t)

Holds(v, p, k, c, weight) ==
  \A t \in 0 .. Size(k) - 1 : Same(v[c * Size(k) + t], weight * BlockValue(p, k, c, t))

(* A block's coefficients are values of its coefficients at its root, or at any
   number that is the same. *)
LEMMA BlockValueIsEval ==
  ASSUME NEW p \in Polynomials, NEW k \in 0 .. Bits, NEW c \in 0 .. Count(k) - 1,
         NEW t \in 0 .. Size(k) - 1, NEW y \in Int, Same(RootAt(k, c), y)
  PROVE  /\ BlockValue(p, k, c, t) \in Residues /\ BlockValue(p, k, c, t) \in Int
         /\ Same(BlockValue(p, k, c, t), Eval(Extended(p), Size(k), Count(k), y, t))
         /\ Eval(Extended(p), Size(k), Count(k), y, t) \in Int
<1> DEFINE m == Size(k)
           n == Count(k)
           x == RootAt(k, c)
           P == Extended(p)
<1>1. m \in Nat /\ n \in Nat /\ n * m = N /\ N \div m = n
  BY LevelSplits DEF Splits
<1>2. x \in Int
  BY RootsArePowers
<1>3. P \in Sequence
  BY ExtendedIsSequence
<1>4. t \in Nat /\ t \in 0 .. m - 1
  BY <1>1
<1> HIDE DEF m, n, x
<1>5. Residue(p, m, x, t) \in Residues /\ Same(Residue(p, m, x, t), Eval(P, m, n, x, t))
  BY <1>1, <1>2, <1>4, ResidueIsEval
<1> HIDE DEF P
<1>6. Same(x, y)
  BY DEF x
<1>7. Same(Eval(P, m, n, x, t), Eval(P, m, n, y, t))
  <2>1. \A j \in 0 .. n - 1 : Same(P[t + j * m], P[t + j * m])
    BY DEF Same
  <2> QED
    BY <1>1, <1>2, <1>3, <1>4, <1>6, <2>1, EvalIsSame
<1>8. Eval(P, m, n, y, t) \in Int
  <2>1. OneTermMore(P, m, n, y, t)
    BY <1>1, <1>3, <1>4, EvalUnfolds
  <2> QED
    BY <2>1 DEF OneTermMore
<1>9. Residue(p, m, x, t) \in Int
  BY <1>5, ResiduesAreNumbers
<1>10. Same(Residue(p, m, x, t), Eval(P, m, n, y, t))
  BY <1>5, <1>7 DEF Same
<1> QED
  BY <1>5, <1>8, <1>9, <1>10 DEF BlockValue, m, n, x, P

(* Being the same is an equivalence, and Q - x is the same as -x. *)
LEMMA SameNegated ==
  ASSUME NEW x \in Int, NEW y \in Int, NEW z \in Int, Same(x, y)
  PROVE  Same(x, x) /\ Same(Q - x, -y) /\ (Same(y, z) => Same(x, z)) /\ Same(y, x)
<1>1. Same(Q, 0) /\ Q \in Int /\ 0 \in Int
  BY RootFacts, ModulusIsPositive
<1>2. Same(Q - x, 0 - y) /\ 0 - y = -y
  BY <1>1, SameSums
<1> QED
  BY <1>2 DEF Same

(* The two halves a block is split into, from the block. *)
HalvesFit(p, k, s, t) ==
  LET l == Size(k + 1)
      z == Zeta[Count(k) + s]
      x == BlockValue(p, k, s, t)
      y == BlockValue(p, k, s, t + l)
  IN  /\ {x, y, z, BlockValue(p, k + 1, 2 * s, t), BlockValue(p, k + 1, 2 * s + 1, t)} \subseteq Int
      /\ Same(BlockValue(p, k + 1, 2 * s, t), x + z * y)
      /\ Same(BlockValue(p, k + 1, 2 * s + 1, t), x - z * y)

(* Splitting X^(2l) - z^2 into X^l - z and X^l + z. *)
LEMMA BlockSplits ==
  ASSUME NEW p \in Polynomials, NEW k \in 0 .. Bits - 1, NEW s \in 0 .. Count(k) - 1,
         NEW t \in 0 .. Size(k + 1) - 1
  PROVE  HalvesFit(p, k, s, t)
<1> DEFINE l == Size(k + 1)
           n == Count(k)
           P == Extended(p)
           z == Zeta[Count(k) + s]
           zz == z * z
           x == BlockValue(p, k, s, t)
           y == BlockValue(p, k, s, t + l)
           u == BlockValue(p, k + 1, 2 * s, t)
           v == BlockValue(p, k + 1, 2 * s + 1, t)
           E == Eval(P, 2 * l, n, zz, t)
           F == Eval(P, 2 * l, n, zz, t + l)
<1>1. k \in 0 .. Bits /\ k + 1 \in 0 .. Bits
  BY WidthIsPositive
<1>2. l \in Nat \ {0} /\ Size(k) = 2 * l /\ n \in Nat \ {0} /\ Count(k + 1) = 2 * n
  BY <1>1, LevelSplits DEF Splits
<1>3. s \in 0 .. n - 1 /\ s \in Nat /\ 2 * s \in 0 .. Count(k + 1) - 1 /\ 2 * s + 1 \in 0 .. Count(k + 1) - 1
  <2>1. s \in 0 .. n - 1
    OBVIOUS
  <2> HIDE DEF n
  <2> QED
    BY <1>2, <2>1
<1>4. t \in 0 .. Size(k) - 1 /\ t + l \in 0 .. Size(k) - 1 /\ t \in Nat /\ t + l \in Nat
  <2>1. t \in 0 .. l - 1
    OBVIOUS
  <2> HIDE DEF l
  <2> QED
    BY <1>2, <2>1
<1>5. z \in Int /\ zz \in Int /\ Same(zz, RootAt(k, s)) /\ Same(RootAt(k, s), zz)
  <2>1. Same(zz, RootAt(k, s)) /\ Same(RootAt(k, s), zz)
    BY ZetasAreRoots DEF Same
  <2>2. z \in Int
    BY ZetasCancel, ZetaIsPower
  <2> QED
    BY <2>1, <2>2
<1>6. x \in Int /\ Same(x, E) /\ E \in Int
  <2> HIDE DEF zz, P
  <2>1. BlockValue(p, k, s, t) \in Int /\ Same(BlockValue(p, k, s, t), Eval(Extended(p), Size(k), Count(k), zz, t))
        /\ Eval(Extended(p), Size(k), Count(k), zz, t) \in Int
    BY <1>1, <1>4, <1>5, BlockValueIsEval
  <2> QED
    BY <1>2, <2>1 DEF P
<1>7. y \in Int /\ Same(y, F) /\ F \in Int
  <2> HIDE DEF zz, P
  <2>1. BlockValue(p, k, s, t + l) \in Int
        /\ Same(BlockValue(p, k, s, t + l), Eval(Extended(p), Size(k), Count(k), zz, t + l))
        /\ Eval(Extended(p), Size(k), Count(k), zz, t + l) \in Int
    <3> DEFINE r == t + l
    <3>1. r \in 0 .. Size(k) - 1
      BY <1>4
    <3> HIDE DEF r
    <3>2. BlockValue(p, k, s, r) \in Int
          /\ Same(BlockValue(p, k, s, r), Eval(Extended(p), Size(k), Count(k), zz, r))
          /\ Eval(Extended(p), Size(k), Count(k), zz, r) \in Int
      BY <1>1, <3>1, <1>5, BlockValueIsEval
    <3> QED
      BY <3>2 DEF r
  <2> QED
    BY <1>2, <2>1 DEF P
<1>8. P \in Sequence
  BY ExtendedIsSequence
<1>9. RootAt(k + 1, 2 * s) = z /\ RootAt(k + 1, 2 * s + 1) = Q - z
  BY RootsBelow
<1>10. -z \in Int /\ Same(z, z) /\ Same(Q - z, -z)
  <2> HIDE DEF z
  <2>1. Same(z, z)
    BY DEF Same
  <2> QED
    BY <1>5, <2>1, SameNegated
<1>11. u \in Int /\ Same(u, Eval(P, l, 2 * n, z, t)) /\ Eval(P, l, 2 * n, z, t) \in Int
  <2> DEFINE c == 2 * s
  <2>1. c \in 0 .. Count(k + 1) - 1 /\ Same(RootAt(k + 1, c), z)
    BY <1>3, <1>9, <1>10
  <2> HIDE DEF c, z, P
  <2>2. BlockValue(p, k + 1, c, t) \in Int /\ Same(BlockValue(p, k + 1, c, t), Eval(Extended(p), Size(k + 1), Count(k + 1), z, t))
        /\ Eval(Extended(p), Size(k + 1), Count(k + 1), z, t) \in Int
    BY <1>1, <1>5, <2>1, BlockValueIsEval
  <2> QED
    BY <1>2, <2>2 DEF P, c
<1>12. v \in Int /\ Same(v, Eval(P, l, 2 * n, -z, t)) /\ Eval(P, l, 2 * n, -z, t) \in Int
  <2> DEFINE c == 2 * s + 1
             y1 == -z
  <2>1. c \in 0 .. Count(k + 1) - 1 /\ Same(RootAt(k + 1, c), y1) /\ y1 \in Int
    BY <1>3, <1>9, <1>10
  <2> HIDE DEF c, y1, P
  <2>2. BlockValue(p, k + 1, c, t) \in Int /\ Same(BlockValue(p, k + 1, c, t), Eval(Extended(p), Size(k + 1), Count(k + 1), y1, t))
        /\ Eval(Extended(p), Size(k + 1), Count(k + 1), y1, t) \in Int
    BY <1>1, <2>1, BlockValueIsEval
  <2> QED
    BY <1>2, <2>2 DEF P, c, y1
<1> HIDE DEF x, y, u, v, P, l, n
<1>13. Eval(P, l, 2 * n, z, t) = E + z * F
  <2> HIDE DEF z
  <2> QED
    BY <1>2, <1>4, <1>5, <1>8, EvalSplits
<1>14. Eval(P, l, 2 * n, -z, t) = E + (-z) * F
  <2> DEFINE y1 == -z
  <2>1. y1 \in Int /\ y1 * y1 = zz
    <3> HIDE DEF z
    <3> QED
      BY <1>5
  <2> HIDE DEF y1, z, zz
  <2>2. Eval(P, l, 2 * n, y1, t) = Eval(P, 2 * l, n, y1 * y1, t) + y1 * Eval(P, 2 * l, n, y1 * y1, t + l)
    BY <1>2, <1>4, <1>8, <2>1, EvalSplits
  <2> QED
    BY <2>1, <2>2 DEF y1
<1> HIDE DEF E, F, z, zz
<1>15. Same(u, x + z * y) /\ Same(v, x - z * y)
  <2>1. Same(x, E) /\ Same(y, F) /\ Same(z, z)
    BY <1>6, <1>7, <1>10
  <2> DEFINE zy == z * y
             zf == z * F
  <2>2. Same(zy, zf) /\ zy \in Int /\ zf \in Int
    BY <1>5, <1>6, <1>7, <2>1, SameSums
  <2>3. (-z) * F = -zf
    BY <1>5, <1>7
  <2> HIDE DEF zy, zf
  <2>4. Same(x + zy, E + zf) /\ Same(x - zy, E - zf)
    BY <1>6, <2>1, <2>2, SameSums
  <2>5. E + (-zf) = E - zf
    BY <1>6, <2>2
  <2>6. Same(u, E + zf) /\ Same(v, E - zf)
    BY <1>11, <1>12, <1>13, <1>14, <2>3, <2>5 DEF zf
  <2> QED
    BY <2>4, <2>6 DEF Same, zy
<1> QED
  BY <1>5, <1>6, <1>7, <1>11, <1>12, <1>15 DEF HalvesFit, x, y, u, v, z, l

(* ModQ's operators on a butterfly's operands. *)
LEMMA ButterflyArithmetic ==
  ASSUME NEW x \in Residues, NEW y \in Residues, NEW z \in Residues
  PROVE  /\ Plus(x, Times(z, y)) \in Residues /\ Same(Plus(x, Times(z, y)), x + z * y)
         /\ Minus(x, Times(z, y)) \in Residues /\ Same(Minus(x, Times(z, y)), x - z * y)
         /\ Plus(x, y) \in Residues /\ Same(Plus(x, y), x + y)
         /\ Times(z, Minus(y, x)) \in Residues /\ Same(Times(z, Minus(y, x)), z * (y - x))
<1> DEFINE zy == Times(z, y)
           d == Minus(y, x)
<1>1. x \in Int /\ y \in Int /\ z \in Int
  BY ResiduesAreNumbers
<1>2. zy \in Residues /\ Same(zy, z * y) /\ d \in Residues /\ Same(d, y - x)
  BY OperationsAreSame
<1>3. zy \in Int /\ d \in Int /\ z * y \in Int /\ y - x \in Int /\ Same(x, x) /\ Same(z, z)
  <2>1. zy \in Int /\ d \in Int
    BY <1>2, ResiduesAreNumbers
  <2> QED
    BY <2>1, <1>1 DEF Same
<1>4. /\ Plus(x, zy) \in Residues /\ Same(Plus(x, zy), x + zy)
      /\ Minus(x, zy) \in Residues /\ Same(Minus(x, zy), x - zy)
      /\ Times(z, d) \in Residues /\ Same(Times(z, d), z * d)
      /\ Plus(x, y) \in Residues /\ Same(Plus(x, y), x + y)
  <2> HIDE DEF zy, d
  <2> QED
    BY <1>2, OperationsAreSame
<1>5. Same(x + zy, x + z * y) /\ Same(x - zy, x - z * y)
  <2> DEFINE w == z * y
  <2>1. w \in Int /\ Same(zy, w)
    BY <1>2, <1>3
  <2> HIDE DEF w, zy
  <2>2. Same(x + zy, x + w) /\ Same(x - zy, x - w)
    BY <1>1, <1>3, <2>1, SameSums
  <2> QED
    BY <2>2 DEF w
<1>6. Same(z * d, z * (y - x))
  <2> DEFINE w == y - x
  <2>1. w \in Int /\ Same(d, w)
    BY <1>2, <1>3
  <2> HIDE DEF w, d
  <2>2. Same(z * d, z * w)
    BY <1>1, <1>3, <2>1, SameSums
  <2> QED
    BY <2>2 DEF w
<1> QED
  BY <1>4, <1>5, <1>6 DEF Same

Untouched(w, v, at, l) == \A i \in Index : i < at \/ i >= at + 2 * l => w[i] = v[i]

(* What one turn over a block computes. *)
LEMMA ButterfliesCompute ==
  ASSUME NEW v \in Polynomials, NEW at \in Nat, NEW l \in Nat, at + 2 * l <= N, NEW z \in Residues
  PROVE  /\ Butterflies(v, at, l, z) \in Polynomials
         /\ Untouched(Butterflies(v, at, l, z), v, at, l)
         /\ \A t \in 0 .. l - 1 :
              /\ at + t \in Index /\ at + l + t \in Index
              /\ Same(Butterflies(v, at, l, z)[at + t], v[at + t] + z * v[at + l + t])
              /\ Same(Butterflies(v, at, l, z)[at + l + t], v[at + t] - z * v[at + l + t])
<1> DEFINE W == Butterflies(v, at, l, z)
           low == at .. at + l - 1
           high == at + l .. at + 2 * l - 1
<1>0. N \in Nat
  BY DegreeFacts
<1>1. ASSUME NEW k \in Index
      PROVE  W[k] = CASE k \in low -> Plus(v[k], Times(z, v[k + l]))
                      [] k \in high -> Minus(v[k - l], Times(z, v[k]))
                      [] OTHER -> v[k]
  BY DEF Butterflies
<1>2. ASSUME NEW k \in low
      PROVE  /\ W[k] = Plus(v[k], Times(z, v[k + l])) /\ k \in Index /\ k + l \in Index
             /\ v[k] \in Residues /\ v[k + l] \in Residues
  <2>1. k \in Index /\ k + l \in Index
    BY <1>0 DEF Index
  <2>2. v[k] \in Residues /\ v[k + l] \in Residues
    BY <2>1 DEF Polynomials
  <2>3. W[k] = Plus(v[k], Times(z, v[k + l]))
    <3> HIDE DEF W, low, high
    <3>1. k \in low
      OBVIOUS
    <3>2. k \notin high
      BY <3>1 DEF low, high
    <3> QED
      BY <1>1, <2>1, <3>1, <3>2
  <2> QED
    BY <2>1, <2>2, <2>3
<1>3. ASSUME NEW k \in high
      PROVE  /\ W[k] = Minus(v[k - l], Times(z, v[k])) /\ k \in Index /\ k - l \in Index
             /\ v[k] \in Residues /\ v[k - l] \in Residues
  <2>1. k \in Index /\ k - l \in Index
    BY <1>0 DEF Index
  <2>2. v[k] \in Residues /\ v[k - l] \in Residues
    BY <2>1 DEF Polynomials
  <2>3. W[k] = Minus(v[k - l], Times(z, v[k]))
    <3> HIDE DEF W, low, high
    <3>1. k \in high
      OBVIOUS
    <3>2. k \notin low
      BY <3>1 DEF low, high
    <3> QED
      BY <1>1, <2>1, <3>1, <3>2
  <2> QED
    BY <2>1, <2>2, <2>3
<1>4. ASSUME NEW k \in Index, k \notin low, k \notin high
      PROVE  W[k] = v[k] /\ v[k] \in Residues
  <2> HIDE DEF W, low, high
  <2>1. W[k] = v[k]
    BY <1>1, <1>4
  <2> QED
    BY <2>1 DEF Polynomials
<1>5. W \in Polynomials
  <2>1. ASSUME NEW k \in Index PROVE W[k] \in Residues
    <3> HIDE DEF W, low, high
    <3>1. CASE k \in low
      <4>1. /\ W[k] = Plus(v[k], Times(z, v[k + l]))
            /\ v[k] \in Residues /\ v[k + l] \in Residues
        BY <1>2, <3>1, Zenon
      <4>2. Plus(v[k], Times(z, v[k + l])) \in Residues
        BY <4>1, ButterflyArithmetic, Zenon
      <4> QED
        BY <4>1, <4>2, Zenon
    <3>2. CASE k \in high
      <4>1. /\ W[k] = Minus(v[k - l], Times(z, v[k]))
            /\ v[k] \in Residues /\ v[k - l] \in Residues
        BY <1>3, <3>2, Zenon
      <4>2. Minus(v[k - l], Times(z, v[k])) \in Residues
        BY <4>1, ButterflyArithmetic, Zenon
      <4> QED
        BY <4>1, <4>2, Zenon
    <3>3. CASE k \notin low /\ k \notin high
      BY <1>4, <3>3
    <3> QED
      BY <3>1, <3>2, <3>3
  <2>2. W = [k \in Index |-> W[k]]
    BY DEF Butterflies
  <2> HIDE DEF W
  <2> QED
    BY <2>1, <2>2 DEF Polynomials
<1>6. Untouched(W, v, at, l)
  <2> SUFFICES ASSUME NEW i \in Index, i < at \/ i >= at + 2 * l PROVE W[i] = v[i]
    BY DEF Untouched
  <2>1. i \notin low /\ i \notin high
    BY DEF Index
  <2> HIDE DEF W, low, high
  <2> QED
    BY <1>4, <2>1
<1>7. ASSUME NEW t \in 0 .. l - 1
      PROVE  /\ at + t \in Index /\ at + l + t \in Index
             /\ Same(W[at + t], v[at + t] + z * v[at + l + t])
             /\ Same(W[at + l + t], v[at + t] - z * v[at + l + t])
  <2> DEFINE i == at + t
             j == at + l + t
  <2>1. i \in low /\ j \in high /\ i + l = j /\ j - l = i
    OBVIOUS
  <2> HIDE DEF W, low, high, i, j
  <2>2. /\ i \in Index /\ j \in Index /\ v[i] \in Residues /\ v[j] \in Residues
        /\ W[i] = Plus(v[i], Times(z, v[j])) /\ W[j] = Minus(v[i], Times(z, v[j]))
    BY <1>2, <1>3, <2>1
  <2>3. Same(W[i], v[i] + z * v[j]) /\ Same(W[j], v[i] - z * v[j])
    BY <2>2, ButterflyArithmetic
  <2> QED
    BY <2>2, <2>3 DEF i, j
<1> HIDE DEF W
<1> QED
  BY <1>5, <1>6, <1>7 DEF W
(* What one turn of the inverse transform computes. *)
LEMMA InverseButterfliesCompute ==
  ASSUME NEW v \in Polynomials, NEW at \in Nat, NEW l \in Nat, at + 2 * l <= N, NEW z \in Residues
  PROVE  /\ InverseButterflies(v, at, l, z) \in Polynomials
         /\ Untouched(InverseButterflies(v, at, l, z), v, at, l)
         /\ \A t \in 0 .. l - 1 :
              /\ at + t \in Index /\ at + l + t \in Index
              /\ Same(InverseButterflies(v, at, l, z)[at + t], v[at + t] + v[at + l + t])
              /\ Same(InverseButterflies(v, at, l, z)[at + l + t], z * (v[at + l + t] - v[at + t]))
<1> DEFINE W == InverseButterflies(v, at, l, z)
           low == at .. at + l - 1
           high == at + l .. at + 2 * l - 1
<1>0. N \in Nat
  BY DegreeFacts
<1>1. ASSUME NEW k \in Index
      PROVE  W[k] = CASE k \in low -> Plus(v[k], v[k + l])
                      [] k \in high -> Times(z, Minus(v[k], v[k - l]))
                      [] OTHER -> v[k]
  BY DEF InverseButterflies
<1>2. ASSUME NEW k \in low
      PROVE  /\ W[k] = Plus(v[k], v[k + l]) /\ k \in Index /\ k + l \in Index
             /\ v[k] \in Residues /\ v[k + l] \in Residues
  <2>1. k \in Index /\ k + l \in Index
    BY <1>0 DEF Index
  <2>2. v[k] \in Residues /\ v[k + l] \in Residues
    BY <2>1 DEF Polynomials
  <2>3. W[k] = Plus(v[k], v[k + l])
    <3> HIDE DEF W, low, high
    <3>1. k \in low
      OBVIOUS
    <3>2. k \notin high
      BY <3>1 DEF low, high
    <3> QED
      BY <1>1, <2>1, <3>1, <3>2
  <2> QED
    BY <2>1, <2>2, <2>3
<1>3. ASSUME NEW k \in high
      PROVE  /\ W[k] = Times(z, Minus(v[k], v[k - l])) /\ k \in Index /\ k - l \in Index
             /\ v[k] \in Residues /\ v[k - l] \in Residues
  <2>1. k \in Index /\ k - l \in Index
    BY <1>0 DEF Index
  <2>2. v[k] \in Residues /\ v[k - l] \in Residues
    BY <2>1 DEF Polynomials
  <2>3. W[k] = Times(z, Minus(v[k], v[k - l]))
    <3> HIDE DEF W, low, high
    <3>1. k \in high
      OBVIOUS
    <3>2. k \notin low
      BY <3>1 DEF low, high
    <3> QED
      BY <1>1, <2>1, <3>1, <3>2
  <2> QED
    BY <2>1, <2>2, <2>3
<1>4. ASSUME NEW k \in Index, k \notin low, k \notin high
      PROVE  W[k] = v[k] /\ v[k] \in Residues
  <2> HIDE DEF W, low, high
  <2>1. W[k] = v[k]
    BY <1>1, <1>4
  <2> QED
    BY <2>1 DEF Polynomials
<1>5. W \in Polynomials
  <2>1. ASSUME NEW k \in Index PROVE W[k] \in Residues
    <3> HIDE DEF W, low, high
    <3>1. CASE k \in low
      BY <1>2, <3>1, ButterflyArithmetic, SMTT(40)
    <3>2. CASE k \in high
      BY <1>3, <3>2, ButterflyArithmetic, SMTT(40)
    <3>3. CASE k \notin low /\ k \notin high
      BY <1>4, <3>3
    <3> QED
      BY <3>1, <3>2, <3>3
  <2>2. W = [k \in Index |-> W[k]]
    BY DEF InverseButterflies
  <2> HIDE DEF W
  <2> QED
    BY <2>1, <2>2 DEF Polynomials
<1>6. Untouched(W, v, at, l)
  <2> SUFFICES ASSUME NEW i \in Index, i < at \/ i >= at + 2 * l PROVE W[i] = v[i]
    BY DEF Untouched
  <2>1. i \notin low /\ i \notin high
    BY DEF Index
  <2> HIDE DEF W, low, high
  <2> QED
    BY <1>4, <2>1
<1>7. ASSUME NEW t \in 0 .. l - 1
      PROVE  /\ at + t \in Index /\ at + l + t \in Index
             /\ Same(W[at + t], v[at + t] + v[at + l + t])
             /\ Same(W[at + l + t], z * (v[at + l + t] - v[at + t]))
  <2> DEFINE i == at + t
             j == at + l + t
  <2>1. i \in low /\ j \in high /\ i + l = j /\ j - l = i
    OBVIOUS
  <2> HIDE DEF W, low, high, i, j
  <2>2. /\ i \in Index /\ j \in Index /\ v[i] \in Residues /\ v[j] \in Residues
        /\ W[i] = Plus(v[i], v[j]) /\ W[j] = Times(z, Minus(v[j], v[i]))
    BY <1>2, <1>3, <2>1
  <2>3. Same(W[i], v[i] + v[j]) /\ Same(W[j], z * (v[j] - v[i]))
    BY <2>2, ButterflyArithmetic
  <2> QED
    BY <2>2, <2>3 DEF i, j
<1> HIDE DEF W
<1> QED
  BY <1>5, <1>6, <1>7 DEF W

-----------------------------------------------------------------------------
(* Blocks of one size do not overlap. *)
LEMMA PlacesInOrder ==
  ASSUME NEW c \in Nat, NEW d \in Nat, NEW m \in Nat, c < d
  PROVE  c * m + m <= d * m /\ c * m \in Nat /\ d * m \in Nat
<1> DEFINE e == d - (c + 1)
<1>1. e \in Nat /\ d = (c + 1) + e
  OBVIOUS
<1> HIDE DEF e
<1>2. d * m = (c * m + m) + e * m
  BY <1>1
<1>3. e * m \in Nat /\ c * m \in Nat
  BY <1>1
<1> QED
  BY <1>2, <1>3

(* Where a block lies. *)
LEMMA BlocksLieInside ==
  ASSUME NEW k \in 0 .. Bits, NEW c \in 0 .. Count(k) - 1
  PROVE  /\ c \in Nat /\ Size(k) \in Nat /\ c * Size(k) \in Nat /\ c * Size(k) + Size(k) <= N
         /\ \A t \in 0 .. Size(k) - 1 : c * Size(k) + t \in Index
<1> DEFINE m == Size(k)
           n == Count(k)
<1>1. m \in Nat /\ n \in Nat /\ n * m = N
  BY LevelSplits DEF Splits
<1>2. c \in 0 .. n - 1
  OBVIOUS
<1> HIDE DEF m, n
<1>3. c \in Nat /\ c < n
  BY <1>1, <1>2
<1>4. c * m + m <= n * m /\ c * m \in Nat
  BY <1>1, <1>3, PlacesInOrder
<1> DEFINE cm == c * m
<1>5. cm + m <= N /\ cm \in Nat
  BY <1>1, <1>4
<1> HIDE DEF cm
<1>6. \A t \in 0 .. m - 1 : cm + t \in Index
  BY <1>1, <1>5, DegreeFacts DEF Index
<1> QED
  BY <1>1, <1>3, <1>5, <1>6 DEF cm, m

(* A block no turn touched still holds what it held. *)
LEMMA BlockStays ==
  ASSUME NEW v, NEW w, NEW p, NEW k \in 0 .. Bits, NEW c \in 0 .. Count(k) - 1, NEW weight,
         Holds(v, p, k, c, weight), NEW at \in Nat, NEW l \in Nat, Untouched(w, v, at, l),
         c * Size(k) + Size(k) <= at \/ c * Size(k) >= at + 2 * l
  PROVE  Holds(w, p, k, c, weight)
<1> SUFFICES ASSUME NEW t \in 0 .. Size(k) - 1
             PROVE  Same(w[c * Size(k) + t], weight * BlockValue(p, k, c, t))
  BY DEF Holds
<1> DEFINE m == Size(k)
           cm == c * m
           i == cm + t
<1>1. i \in Index /\ cm \in Nat /\ m \in Nat
  BY BlocksLieInside
<1>2. t \in 0 .. m - 1 /\ (cm + m <= at \/ cm >= at + 2 * l)
  OBVIOUS
<1> HIDE DEF m, cm
<1>3. i < at \/ i >= at + 2 * l
  BY <1>1, <1>2
<1> HIDE DEF i
<1>4. w[i] = v[i]
  BY <1>1, <1>3 DEF Untouched
<1> QED
  BY <1>4 DEF Holds, i, cm, m

(* Where the two halves of a block lie. *)
LEMMA HalvesLieInBlock ==
  ASSUME NEW k \in 0 .. Bits - 1, NEW s \in 0 .. Count(k) - 1
  PROVE  /\ k \in 0 .. Bits /\ k + 1 \in 0 .. Bits /\ s \in Nat
         /\ 2 * s \in 0 .. Count(k + 1) - 1 /\ 2 * s + 1 \in 0 .. Count(k + 1) - 1
         /\ Size(k) = 2 * Size(k + 1) /\ Size(k + 1) \in Nat /\ Size(k) \in Nat
         /\ (2 * s) * Size(k + 1) = s * Size(k)
         /\ (2 * s + 1) * Size(k + 1) = s * Size(k) + Size(k + 1)
         /\ s * Size(k) \in Nat /\ s * Size(k) + 2 * Size(k + 1) <= N
         /\ Zeta[Count(k) + s] \in Residues /\ Zeta[Count(k + 1) - 1 - s] \in Residues
<1> DEFINE l == Size(k + 1)
           n == Count(k)
           at == s * Size(k)
<1>1. k \in 0 .. Bits /\ k + 1 \in 0 .. Bits
  BY WidthIsPositive
<1>2. l \in Nat \ {0} /\ Size(k) = 2 * l /\ n \in Nat \ {0} /\ Count(k + 1) = 2 * n
  BY <1>1, LevelSplits DEF Splits
<1>3. s \in Nat /\ at \in Nat /\ at + Size(k) <= N
  BY <1>1, BlocksLieInside
<1>4. 2 * s \in 0 .. Count(k + 1) - 1 /\ 2 * s + 1 \in 0 .. Count(k + 1) - 1
  <2>1. s \in 0 .. n - 1
    OBVIOUS
  <2> HIDE DEF n
  <2> QED
    BY <1>2, <2>1
<1>5. at = s * (2 * l)
  BY <1>2
<1> HIDE DEF l, at
<1>6. (2 * s) * l = at /\ (2 * s + 1) * l = at + l
  BY <1>2, <1>3, <1>5
<1>7. Zeta[Count(k) + s] \in Residues /\ Zeta[Count(k + 1) - 1 - s] \in Residues
  BY ZetasCancel, ZetaIsPower
<1> QED
  BY <1>1, <1>2, <1>3, <1>4, <1>6, <1>7 DEF l, at

(* One turn of ml_kem_ntt splits a block in two. *)
LEMMA BlockIsSplit ==
  ASSUME NEW v \in Polynomials, NEW p \in Polynomials,
         NEW k \in 0 .. Bits - 1, NEW s \in 0 .. Count(k) - 1, Holds(v, p, k, s, 1),
         NEW W, W = Butterflies(v, s * Size(k), Size(k + 1), Zeta[Count(k) + s])
  PROVE  /\ W \in Polynomials /\ Untouched(W, v, s * Size(k), Size(k + 1))
         /\ Holds(W, p, k + 1, 2 * s, 1) /\ Holds(W, p, k + 1, 2 * s + 1, 1)
<1> DEFINE l == Size(k + 1)
           at == s * Size(k)
           z == Zeta[Count(k) + s]
<1>1. /\ l \in Nat /\ Size(k) = 2 * l /\ (2 * s) * l = at /\ (2 * s + 1) * l = at + l
      /\ at \in Nat /\ at + 2 * l <= N /\ z \in Residues /\ z \in Int
  BY HalvesLieInBlock, ResiduesAreNumbers
<1>2. /\ W \in Polynomials /\ Untouched(W, v, at, l)
      /\ \A t \in 0 .. l - 1 :
           /\ at + t \in Index /\ at + l + t \in Index
           /\ Same(W[at + t], v[at + t] + z * v[at + l + t])
           /\ Same(W[at + l + t], v[at + t] - z * v[at + l + t])
  <2> HIDE DEF l, at, z
  <2>1. W = Butterflies(v, at, l, z)
    BY DEF l, at, z
  <2> QED
    BY <1>1, <2>1, ButterfliesCompute
<1>3. ASSUME NEW t \in 0 .. l - 1
      PROVE  /\ Same(W[at + t], 1 * BlockValue(p, k + 1, 2 * s, t))
             /\ Same(W[at + l + t], 1 * BlockValue(p, k + 1, 2 * s + 1, t))
  <2> DEFINE x == BlockValue(p, k, s, t)
             y == BlockValue(p, k, s, t + l)
             u == BlockValue(p, k + 1, 2 * s, t)
             w == BlockValue(p, k + 1, 2 * s + 1, t)
             vx == v[at + t]
             vy == v[at + l + t]
  <2>1. HalvesFit(p, k, s, t)
    BY BlockSplits
  <2>2. x \in Int /\ y \in Int /\ u \in Int /\ w \in Int /\ Same(u, x + z * y) /\ Same(w, x - z * y)
    BY <2>1 DEF HalvesFit
  <2>3. Same(vx, 1 * x) /\ Same(vy, 1 * y)
    <3>1. \A j \in 0 .. Size(k) - 1 : Same(v[at + j], 1 * BlockValue(p, k, s, j))
      BY DEF Holds
    <3> HIDE DEF at, l
    <3>2. t \in 0 .. Size(k) - 1 /\ t + l \in 0 .. Size(k) - 1 /\ at + (t + l) = at + l + t
      BY <1>1
    <3>3. Same(v[at + t], 1 * BlockValue(p, k, s, t))
      BY <3>1, <3>2
    <3>4. Same(v[at + (t + l)], 1 * BlockValue(p, k, s, t + l))
      BY <3>1, <3>2
    <3> QED
      BY <3>2, <3>3, <3>4
  <2>4. vx \in Int /\ vy \in Int
    <3>1. vx \in Residues /\ vy \in Residues
      BY <1>2 DEF Polynomials
    <3> QED
      BY <3>1, ResiduesAreNumbers
  <2>5. Same(W[at + t], vx + z * vy) /\ Same(W[at + l + t], vx - z * vy)
    BY <1>2
  <2> DEFINE zy == z * y
             zv == z * vy
  <2> HIDE DEF x, y, u, w, vx, vy, z
  <2>6. Same(zv, zy) /\ zv \in Int /\ zy \in Int /\ Same(vx, x) /\ 1 * u = u /\ 1 * w = w
    <3>1. Same(vx, x) /\ Same(vy, y) /\ 1 * u = u /\ 1 * w = w
      BY <2>2, <2>3
    <3>2. Same(z, z)
      BY DEF Same
    <3> QED
      BY <1>1, <2>2, <2>4, <3>1, <3>2, SameSums
  <2> HIDE DEF zy, zv
  <2>7. Same(vx + zv, x + zy) /\ Same(vx - zv, x - zy)
    BY <2>2, <2>4, <2>6, SameSums
  <2>8. Same(W[at + t], u) /\ Same(W[at + l + t], w)
    BY <2>2, <2>5, <2>7 DEF Same, zy, zv
  <2> QED
    BY <2>6, <2>8 DEF u, w
<1>4. Holds(W, p, k + 1, 2 * s, 1)
  <2> SUFFICES ASSUME NEW t \in 0 .. l - 1
               PROVE  Same(W[(2 * s) * l + t], 1 * BlockValue(p, k + 1, 2 * s, t))
    BY DEF Holds
  <2> HIDE DEF l, at
  <2> QED
    BY <1>1, <1>3
<1>5. Holds(W, p, k + 1, 2 * s + 1, 1)
  <2> SUFFICES ASSUME NEW t \in 0 .. l - 1
               PROVE  Same(W[(2 * s + 1) * l + t], 1 * BlockValue(p, k + 1, 2 * s + 1, t))
    BY DEF Holds
  <2> HIDE DEF l, at
  <2> QED
    BY <1>1, <1>3
<1> QED
  BY <1>2, <1>4, <1>5

(* One turn of ml_kem_inverse_ntt puts two halves together, and doubles them. *)
LEMMA HalvesAreMerged ==
  ASSUME NEW v \in Polynomials, NEW p \in Polynomials, NEW g \in Int,
         NEW k \in 0 .. Bits - 1, NEW s \in 0 .. Count(k) - 1,
         Holds(v, p, k + 1, 2 * s, g), Holds(v, p, k + 1, 2 * s + 1, g),
         NEW W, W = InverseButterflies(v, s * Size(k), Size(k + 1), Zeta[Count(k + 1) - 1 - s])
  PROVE  /\ W \in Polynomials /\ Untouched(W, v, s * Size(k), Size(k + 1))
         /\ Holds(W, p, k, s, 2 * g)
<1> DEFINE l == Size(k + 1)
           at == s * Size(k)
           z == Zeta[Count(k) + s]
           i == Zeta[Count(k + 1) - 1 - s]
<1>1. /\ l \in Nat /\ Size(k) = 2 * l /\ (2 * s) * l = at /\ (2 * s + 1) * l = at + l
      /\ at \in Nat /\ at + 2 * l <= N /\ z \in Residues /\ z \in Int /\ i \in Residues /\ i \in Int
  BY HalvesLieInBlock, ResiduesAreNumbers
<1>2. /\ W \in Polynomials /\ Untouched(W, v, at, l)
      /\ \A t \in 0 .. l - 1 :
           /\ at + t \in Index /\ at + l + t \in Index
           /\ Same(W[at + t], v[at + t] + v[at + l + t])
           /\ Same(W[at + l + t], i * (v[at + l + t] - v[at + t]))
  <2> HIDE DEF l, at, i
  <2>1. W = InverseButterflies(v, at, l, i)
    BY DEF l, at, i
  <2> QED
    BY <1>1, <2>1, InverseButterfliesCompute
<1>3. Same(z * i, -1)
  BY ZetasCancel
<1>4. ASSUME NEW t \in 0 .. l - 1
      PROVE  /\ Same(W[at + t], (2 * g) * BlockValue(p, k, s, t))
             /\ Same(W[at + l + t], (2 * g) * BlockValue(p, k, s, t + l))
  <2> DEFINE x == BlockValue(p, k, s, t)
             y == BlockValue(p, k, s, t + l)
             u == BlockValue(p, k + 1, 2 * s, t)
             w == BlockValue(p, k + 1, 2 * s + 1, t)
             vx == v[at + t]
             vy == v[at + l + t]
  <2>1. HalvesFit(p, k, s, t)
    BY BlockSplits
  <2>2. x \in Int /\ y \in Int /\ u \in Int /\ w \in Int /\ Same(u, x + z * y) /\ Same(w, x - z * y)
    BY <2>1 DEF HalvesFit
  <2>3. Same(vx, g * u) /\ Same(vy, g * w)
    <3>1. /\ \A j \in 0 .. l - 1 : Same(v[(2 * s) * l + j], g * BlockValue(p, k + 1, 2 * s, j))
          /\ \A j \in 0 .. l - 1 : Same(v[(2 * s + 1) * l + j], g * BlockValue(p, k + 1, 2 * s + 1, j))
      BY DEF Holds
    <3> HIDE DEF at, l
    <3> QED
      BY <1>1, <3>1
  <2>4. vx \in Int /\ vy \in Int
    <3>1. vx \in Residues /\ vy \in Residues
      BY <1>2 DEF Polynomials
    <3> QED
      BY <3>1, ResiduesAreNumbers
  <2>5. Same(W[at + t], vx + vy) /\ Same(W[at + l + t], i * (vy - vx))
    BY <1>2
  <2> HIDE DEF x, y, u, w, vx, vy, z, i
  <2> DEFINE zy == z * y
             plus == x + zy
             minus == x - zy
  <2>6. zy \in Int /\ plus \in Int /\ minus \in Int /\ Same(g, g) /\ Same(i, i)
    BY <1>1, <2>2 DEF Same
  <2>7. Same(vx, g * plus) /\ Same(vy, g * minus)
    <3>1. Same(g * u, g * plus) /\ Same(g * w, g * minus)
      <4>1. Same(u, plus) /\ Same(w, minus)
        BY <2>2
      <4> HIDE DEF plus, minus
      <4> QED
        BY <2>2, <2>6, <4>1, SameSums
    <3> QED
      BY <2>3, <3>1 DEF Same
  <2>8. g * plus + g * minus = (2 * g) * x /\ g * minus - g * plus = -((2 * g) * zy)
    <3> HIDE DEF zy
    <3> QED
      BY <2>2, <2>6
  <2> DEFINE gp == g * plus
             gm == g * minus
  <2>9. gp \in Int /\ gm \in Int
    <3> HIDE DEF plus, minus
    <3> QED
      BY <2>6
  <2>10. Same(vx + vy, gp + gm) /\ Same(vy - vx, gm - gp)
    <3>1. Same(vx, gp) /\ Same(vy, gm)
      BY <2>7
    <3> HIDE DEF gp, gm
    <3> QED
      BY <2>4, <2>9, <3>1, SameSums
  <2>11. Same(vx + vy, (2 * g) * x)
    BY <2>8, <2>10
  <2>12. Same(i * (vy - vx), (2 * g) * y)
    <3> DEFINE d == vy - vx
               e == -((2 * g) * zy)
               gy == (2 * g) * y
               zi == z * i
    <3>1. Same(d, e)
      BY <2>8, <2>10
    <3>2. d \in Int /\ e \in Int /\ gy \in Int /\ zi \in Int
      <4> HIDE DEF zy
      <4> QED
        BY <1>1, <2>2, <2>4, <2>6
    <3>3. i * e = (-gy) * zi
      BY <1>1, <2>2
    <3>4. (-gy) * (-1) = gy /\ -gy \in Int
      <4> HIDE DEF gy
      <4> QED
        BY <3>2
    <3>5. Same(zi, -1)
      BY <1>3 DEF z, i
    <3> HIDE DEF d, e, gy, zi
    <3>6. Same(i * d, i * e)
      BY <1>1, <2>6, <3>1, <3>2, SameSums
    <3> DEFINE h == -gy
    <3>7. h \in Int /\ Same(h, h) /\ -1 \in Int
      BY <3>4 DEF Same
    <3> HIDE DEF h
    <3>8. Same(h * zi, h * (-1))
      BY <3>2, <3>5, <3>7, SameSums
    <3>9. Same(i * d, gy)
      BY <3>3, <3>4, <3>6, <3>8 DEF Same, h
    <3> QED
      BY <3>9 DEF d, gy
  <2> QED
    BY <2>5, <2>11, <2>12 DEF Same, x, y
<1>5. Holds(W, p, k, s, 2 * g)
  <2> SUFFICES ASSUME NEW j \in 0 .. Size(k) - 1
               PROVE  Same(W[at + j], (2 * g) * BlockValue(p, k, s, j))
    BY DEF Holds
  <2> HIDE DEF l, at
  <2>1. CASE j < l
    <3>1. j \in 0 .. l - 1
      BY <1>1, <2>1
    <3> QED
      BY <1>4, <3>1
  <2>2. CASE j >= l
    <3> DEFINE t == j - l
    <3>1. t \in 0 .. l - 1 /\ t + l = j /\ at + l + t = at + j
      BY <1>1, <2>2
    <3> HIDE DEF t
    <3>2. Same(W[at + l + t], (2 * g) * BlockValue(p, k, s, t + l))
      BY <1>4, <3>1
    <3> QED
      BY <3>1, <3>2
  <2> QED
    BY <1>1, <2>1, <2>2
<1> QED
  BY <1>2, <1>5

-----------------------------------------------------------------------------
(* The two forward transforms. *)

(* Where a transform of p is: at block s of level k, the blocks before it
   split, the others not yet. *)
ForwardAt(v, p, l, st, zi, k, s) ==
  /\ (k = Bits => s = 0) /\ l = Size(k + 1) /\ st = s * Size(k) /\ zi = Count(k) + s
  /\ \A c \in 0 .. 2 * s - 1 : Holds(v, p, k + 1, c, 1)
  /\ \A c \in s .. Count(k) - 1 : Holds(v, p, k, c, 1)

InForward(v, p, l, st, zi) ==
  \E k \in 0 .. Bits : \E s \in 0 .. Count(k) - 1 : ForwardAt(v, p, l, st, zi, k, s)

(* Block s of level k is one place a transform can be. *)
LEMMA InForwardAt ==
  ASSUME NEW k \in 0 .. Bits, NEW s \in 0 .. Count(k) - 1, NEW v, NEW p, NEW l, NEW st, NEW zi,
         ForwardAt(v, p, l, st, zi, k, s)
  PROVE  InForward(v, p, l, st, zi)
BY Zenon DEF InForward

(* NextBlock, on its operands. *)
NextLoop(l, st, down, l2, st2) ==
  IF st + 2 * l < N THEN st2 = st + 2 * l /\ l2 = l ELSE st2 = 0 /\ l2 = down

(* The loop over start ends with the last block of its level. *)
LEMMA LastBlock ==
  ASSUME NEW k \in 0 .. Bits - 1, NEW s \in 0 .. Count(k) - 1
  PROVE  /\ s * Size(k) + 2 * Size(k + 1) < N <=> s + 1 < Count(k)
         /\ s * Size(k) + 2 * Size(k + 1) = (s + 1) * Size(k)
<1> DEFINE m == Size(k)
           n == Count(k)
           sm == s * m
<1>1. m \in Nat \ {0} /\ n \in Nat /\ n * m = N /\ 2 * Size(k + 1) = m
  <2>1. k \in 0 .. Bits
    BY WidthIsPositive
  <2>2. Splits(k)
    BY <2>1, LevelSplits
  <2> QED
    BY <2>2 DEF Splits
<1>2. s \in Nat /\ s < n
  <2>1. s \in 0 .. n - 1
    OBVIOUS
  <2> HIDE DEF n
  <2> QED
    BY <1>1, <2>1
<1> HIDE DEF m, n
<1>3. sm + m = (s + 1) * m /\ sm \in Nat
  BY <1>1, <1>2
<1>4. CASE s + 1 < n
  <2>1. (s + 1) * m + m <= n * m
    <3>1. s + 1 \in Nat
      BY <1>2
    <3> QED
      BY <1>1, <1>4, <3>1, PlacesInOrder
  <2> DEFINE e == (s + 1) * m
  <2>2. e + m <= N
    BY <1>1, <2>1
  <2>3. e \in Nat /\ e = sm + m
    BY <1>1, <1>2, <1>3
  <2> HIDE DEF e, sm
  <2>4. sm + m < N
    BY <1>1, <2>2, <2>3, DegreeFacts
  <2> QED
    BY <1>1, <1>3, <1>4, <2>4 DEF sm, m, n
<1>5. CASE s + 1 = n
  BY <1>1, <1>3, <1>5 DEF m, n
<1> QED
  BY <1>1, <1>2, <1>4, <1>5

(* One turn of ml_kem_ntt goes from such a place to the next. *)
LEMMA ForwardContinues ==
  ASSUME NEW v \in Polynomials, NEW p \in Polynomials, NEW l, NEW st, NEW zi, l >= 2,
         InForward(v, p, l, st, zi), NEW W, W = Butterflies(v, st, l, Zeta[zi]),
         NEW l2, NEW st2, NextLoop(l, st, l \div 2, l2, st2)
  PROVE  W \in Polynomials /\ InForward(W, p, l2, st2, zi + 1)
<1>1. PICK k \in 0 .. Bits : \E s \in 0 .. Count(k) - 1 : ForwardAt(v, p, l, st, zi, k, s)
  BY Zenon DEF InForward
<1>2. PICK s \in 0 .. Count(k) - 1 : ForwardAt(v, p, l, st, zi, k, s)
  BY <1>1
<1>3. k \in 0 .. Bits - 1 /\ k \in Nat
  <2>1. k # Bits
    <3>1. SUFFICES ASSUME k = Bits PROVE FALSE
      OBVIOUS
    <3>2. l = 1
      BY <1>2, <3>1, DegreeFacts DEF ForwardAt
    <3> QED
      BY <3>2
  <2> QED
    BY <2>1, WidthIsPositive
<1> DEFINE n == Count(k)
           at == s * Size(k)
<1>4. /\ k + 1 \in 0 .. Bits /\ s \in Nat /\ l \in Nat /\ at \in Nat /\ (2 * s) * l = at /\ Size(k) = 2 * l
      /\ l = Size(k + 1) /\ st = at /\ zi = n + s
  BY <1>2, <1>3, HalvesLieInBlock DEF ForwardAt
<1>5. n \in Nat /\ Count(k + 1) = 2 * n /\ s \in 0 .. n - 1
  BY LevelSplits DEF Splits
<1>6. Holds(v, p, k, s, 1)
  <2>1. \A c \in s .. n - 1 : Holds(v, p, k, c, 1)
    BY <1>2 DEF ForwardAt
  <2> HIDE DEF n
  <2> QED
    BY <1>4, <1>5, <2>1
<1>7. W \in Polynomials /\ Untouched(W, v, at, l) /\ Holds(W, p, k + 1, 2 * s, 1) /\ Holds(W, p, k + 1, 2 * s + 1, 1)
  <2>1. W = Butterflies(v, s * Size(k), Size(k + 1), Zeta[Count(k) + s])
    BY <1>4
  <2> QED
    BY <1>3, <1>4, <1>6, <2>1, BlockIsSplit
<1>8. \A c \in 0 .. 2 * (s + 1) - 1 : Holds(W, p, k + 1, c, 1)
  <2> TAKE c \in 0 .. 2 * (s + 1) - 1
  <2>1. CASE c = 2 * s \/ c = 2 * s + 1
    BY <1>7, <2>1
  <2>2. CASE c < 2 * s
    <3>1. c \in 0 .. 2 * s - 1 /\ c \in Nat /\ 2 * s \in Nat
      BY <1>4, <2>2
    <3>2. Holds(v, p, k + 1, c, 1)
      BY <1>2, <3>1 DEF ForwardAt
    <3>3. c * l + l <= at
      <4>1. c * l + l <= (2 * s) * l
        BY <1>4, <2>2, <3>1, PlacesInOrder
      <4> QED
        BY <1>4, <4>1
    <3>4. c \in 0 .. Count(k + 1) - 1
      <4> HIDE DEF n
      <4> QED
        BY <1>5, <3>1, <2>2
    <3>5. c * Size(k + 1) + Size(k + 1) <= at
      BY <1>4, <3>3
    <3> HIDE DEF at
    <3> QED
      BY <1>4, <1>7, <3>2, <3>4, <3>5, BlockStays
  <2>3. c < 2 * s \/ c = 2 * s \/ c = 2 * s + 1
    BY <1>4
  <2> QED
    BY <2>1, <2>2, <2>3
<1>9. at + 2 * l < N <=> s + 1 < n
  <2>1. s * Size(k) + 2 * Size(k + 1) < N <=> s + 1 < Count(k)
    BY <1>3, LastBlock
  <2> QED
    BY <1>4, <2>1
<1>10. at + 2 * l = (s + 1) * Size(k)
  <2>1. s * Size(k) + 2 * Size(k + 1) = (s + 1) * Size(k)
    BY <1>3, LastBlock
  <2> QED
    BY <1>4, <2>1
<1>11. CASE s + 1 < n
  <2>1. \A c \in s + 1 .. n - 1 : Holds(W, p, k, c, 1)
    <3> TAKE c \in s + 1 .. n - 1
    <3>1. c \in s .. n - 1 /\ c \in 0 .. n - 1 /\ c \in Nat /\ s < c
      <4> HIDE DEF n
      <4> QED
        BY <1>4, <1>5
    <3>2. Holds(v, p, k, c, 1)
      BY <1>2, <3>1 DEF ForwardAt
    <3>3. c * Size(k) >= at + 2 * l
      <4> DEFINE m == Size(k)
      <4>1. m \in Nat /\ m = 2 * l
        BY <1>4
      <4> HIDE DEF m
      <4>2. s * m + m <= c * m /\ s * m \in Nat /\ c * m \in Nat
        BY <1>4, <3>1, <4>1, PlacesInOrder
      <4> QED
        BY <4>1, <4>2 DEF m
    <3> HIDE DEF at
    <3> QED
      BY <1>4, <1>7, <3>1, <3>2, <3>3, BlockStays
  <2>2. s + 1 \in 0 .. n - 1
    <3> HIDE DEF n
    <3> QED
      BY <1>4, <1>5, <1>11
  <2>3. st2 = at + 2 * l /\ l2 = l
    BY <1>4, <1>9, <1>11 DEF NextLoop
  <2>4. zi + 1 = n + (s + 1)
    <3> HIDE DEF n
    <3> QED
      BY <1>4, <1>5
  <2>5. ForwardAt(W, p, l2, st2, zi + 1, k, s + 1)
    <3>1. k # Bits
      BY <1>3, WidthIsPositive
    <3> HIDE DEF at
    <3> QED
      BY <1>4, <1>8, <1>10, <2>1, <2>3, <2>4, <3>1 DEF ForwardAt
  <2> QED
    BY <1>7, <2>2, <2>5, InForwardAt
<1>12. CASE s + 1 = n
  <2>1. st2 = 0 /\ l2 = l \div 2
    BY <1>4, <1>5, <1>9, <1>12 DEF NextLoop
  <2>2. l2 = Size((k + 1) + 1)
    <3>1. Size(k + 1) = 2 * Size((k + 1) + 1) /\ Size((k + 1) + 1) \in Nat
      BY <1>4, LevelSplits DEF Splits
    <3> DEFINE h == Size((k + 1) + 1)
    <3> HIDE DEF h
    <3>2. l = 2 * h /\ h \in Nat
      BY <1>4, <3>1 DEF h
    <3> QED
      BY <2>1, <3>2 DEF h
  <2>3. zi + 1 = Count(k + 1) + 0 /\ 2 * (s + 1) - 1 = Count(k + 1) - 1 /\ 0 \in 0 .. Count(k + 1) - 1
    <3> HIDE DEF n
    <3> QED
      BY <1>4, <1>5, <1>12
  <2>4. \A c \in 0 .. Count(k + 1) - 1 : Holds(W, p, k + 1, c, 1)
    BY <1>8, <2>3
  <2>5. st2 = 0 * Size(k + 1)
    BY <1>4, <2>1
  <2>6. \A c \in 0 .. 2 * 0 - 1 : Holds(W, p, (k + 1) + 1, c, 1)
    OBVIOUS
  <2>7. ForwardAt(W, p, l2, st2, zi + 1, k + 1, 0)
    BY <2>2, <2>3, <2>4, <2>5, <2>6 DEF ForwardAt
  <2> QED
    BY <1>4, <1>7, <2>3, <2>7, InForwardAt
<1> QED
  BY <1>4, <1>5, <1>11, <1>12

(* v is the transform of p. *)
Transformed(v, p) == \A c \in 0 .. Half - 1 : Holds(v, p, Bits, c, 1)

(* The one block of level 0 is the polynomial itself. *)
LEMMA WholeBlock ==
  ASSUME NEW p \in Polynomials, NEW t \in 0 .. Size(0) - 1
  PROVE  BlockValue(p, 0, 0, t) = p[t] /\ t \in Index /\ p[t] \in Residues /\ p[t] \in Int
<1> DEFINE x == RootAt(0, 0)
           P == Extended(p)
<1>1. 0 \in 0 .. Bits /\ 0 \in 0 .. Count(0) - 1 /\ t \in Index /\ t \in Nat
  BY WidthIsPositive, DegreeFacts DEF Index
<1>2. x \in Int
  BY <1>1, RootsArePowers
<1>3. P \in Sequence /\ P[t] = p[t] /\ p[t] \in Residues /\ p[t] \in Int
  BY <1>1, ExtendedIsSequence
<1> HIDE DEF P, x
<1>4. Same(RootAt(0, 0), x)
  BY DEF x, Same
<1>5. BlockValue(p, 0, 0, t) \in Residues /\ Same(BlockValue(p, 0, 0, t), Eval(P, Size(0), Count(0), x, t))
  BY <1>1, <1>2, <1>4, BlockValueIsEval DEF P
<1>6. Eval(P, N, 1, x, t) = p[t]
  <2>1. 0 \in Nat /\ N \in Nat /\ 0 + 1 = 1
    BY DegreeFacts
  <2>2. OneTermMore(P, N, 0, x, t)
    BY <1>1, <1>2, <1>3, <2>1, EvalUnfolds
  <2>3. Powers(x)[0] = 1
    BY <1>2, PowersUnfold
  <2>4. 0 * N = 0 /\ t + 0 = t
    BY <1>1, <2>1
  <2>5. Eval(P, N, 0 + 1, x, t) = Eval(P, N, 0, x, t) + P[t + 0 * N] * Powers(x)[0] /\ Eval(P, N, 0, x, t) = 0
    BY <2>2 DEF OneTermMore
  <2>6. Eval(P, N, 1, x, t) = 0 + p[t] * 1
    BY <1>3, <2>1, <2>3, <2>4, <2>5
  <2> QED
    BY <1>3, <2>6
<1>7. Same(BlockValue(p, 0, 0, t), p[t])
  BY <1>5, <1>6, DegreeFacts
<1>8. BlockValue(p, 0, 0, t) = p[t]
  BY <1>3, <1>5, <1>7, SameResidues
<1> QED
  BY <1>1, <1>3, <1>8

(* Before its first turn ml_kem_ntt is at block 0 of level 0. *)
LEMMA ForwardStarts ==
  ASSUME NEW p \in Polynomials
  PROVE  InForward(p, p, Half, 0, 1)
<1>1. 0 \in 0 .. Bits /\ 0 \in 0 .. Count(0) - 1 /\ 0 + 1 = 1 /\ 0 # Bits
  BY WidthIsPositive, DegreeFacts
<1>2. Size(0 + 1) = Half /\ Size(0) \in Nat
  <2>1. Splits(0)
    BY <1>1, LevelSplits
  <2> DEFINE m == Size(0 + 1)
             h == Half
  <2>2. Size(0) = 2 * m /\ m \in Nat /\ N = 2 * h /\ h \in Nat /\ Size(0) = N /\ N \in Nat
    BY <2>1, DegreeFacts DEF Splits
  <2> HIDE DEF m, h
  <2>3. m = h
    BY <2>2
  <2> QED
    BY <2>2, <2>3 DEF m, h
<1>3. Holds(p, p, 0, 0, 1)
  <2> SUFFICES ASSUME NEW t \in 0 .. Size(0) - 1
               PROVE  Same(p[0 * Size(0) + t], 1 * BlockValue(p, 0, 0, t))
    BY DEF Holds
  <2>1. BlockValue(p, 0, 0, t) = p[t] /\ p[t] \in Int
    BY WholeBlock
  <2>2. 0 * Size(0) + t = t
    BY <1>2
  <2>3. 1 * p[t] = p[t]
    BY <2>1
  <2> QED
    BY <2>1, <2>2, <2>3 DEF Same
<1>4. ForwardAt(p, p, Half, 0, 1, 0, 0)
  <2>1. \A c \in 0 .. 2 * 0 - 1 : Holds(p, p, 0 + 1, c, 1)
    OBVIOUS
  <2>2. \A c \in 0 .. Count(0) - 1 : Holds(p, p, 0, c, 1)
    <3>1. \A c \in 0 .. Count(0) - 1 : c = 0
      BY DegreeFacts
    <3> QED
      BY <1>3, <3>1
  <2>3. 0 = 0 * Size(0) /\ 1 = Count(0) + 0
    BY <1>2, DegreeFacts
  <2> QED
    BY <1>1, <1>2, <2>1, <2>2, <2>3 DEF ForwardAt
<1> QED
  BY <1>1, <1>4, InForwardAt

(* When len is below 2 the array is the transform. *)
LEMMA ForwardEnds ==
  ASSUME NEW v, NEW p, NEW l, NEW st, NEW zi, InForward(v, p, l, st, zi), ~(l >= 2)
  PROVE  st = 0 /\ Transformed(v, p)
<1>1. PICK k \in 0 .. Bits : \E s \in 0 .. Count(k) - 1 : ForwardAt(v, p, l, st, zi, k, s)
  BY Zenon DEF InForward
<1>2. PICK s \in 0 .. Count(k) - 1 : ForwardAt(v, p, l, st, zi, k, s)
  BY <1>1
<1>3. k = Bits
  <2>1. SUFFICES ASSUME k # Bits PROVE FALSE
    OBVIOUS
  <2>2. k + 1 \in 0 .. Bits
    BY <2>1, WidthIsPositive
  <2>3. Splits(k + 1)
    BY <2>2, LevelSplits
  <2> DEFINE h == Size((k + 1) + 1)
  <2>4. h \in Nat \ {0} /\ Size(k + 1) = 2 * h
    BY <2>3 DEF Splits
  <2>5. l = Size(k + 1)
    BY <1>2 DEF ForwardAt
  <2> HIDE DEF h
  <2> QED
    BY <2>4, <2>5
<1>4. s = 0 /\ st = s * Size(k)
  BY <1>2, <1>3 DEF ForwardAt
<1>5. st = 0
  BY <1>3, <1>4, DegreeFacts
<1>6. \A c \in 0 .. Count(Bits) - 1 : Holds(v, p, Bits, c, 1)
  BY <1>2, <1>3, <1>4 DEF ForwardAt
<1> QED
  BY <1>5, <1>6, DegreeFacts DEF Transformed

(* A block held once holds the residues themselves. *)
LEMMA HeldIsResidue ==
  ASSUME NEW v \in Polynomials, NEW p \in Polynomials, NEW k \in 0 .. Bits,
         NEW c \in 0 .. Count(k) - 1, Holds(v, p, k, c, 1), NEW t \in 0 .. Size(k) - 1
  PROVE  v[c * Size(k) + t] = Residue(p, Size(k), RootOf(Size(k), c), t)
<1> DEFINE i == c * Size(k) + t
           x == BlockValue(p, k, c, t)
<1>1. v[i] \in Residues
  <2>1. i \in Index
    BY BlocksLieInside
  <2> HIDE DEF i
  <2> QED
    BY <2>1 DEF Polynomials
<1>2. x \in Residues /\ x \in Int
  <2> DEFINE y == RootAt(k, c)
  <2>1. y \in Int /\ Same(RootAt(k, c), y)
    BY RootsArePowers DEF Same
  <2> HIDE DEF y
  <2> QED
    BY <2>1, BlockValueIsEval
<1>3. Same(v[i], 1 * x)
  BY DEF Holds
<1> HIDE DEF i, x
<1>4. 1 * x = x
  BY <1>2
<1>5. v[i] = x
  BY <1>1, <1>2, <1>3, <1>4, SameResidues
<1> QED
  BY <1>5 DEF i, x, BlockValue, RootAt

Factor == IF pc = "ntt_a" THEN a ELSE b

(* The inductive invariant of the two forward transforms. *)
Splitting ==
  /\ a \in Polynomials /\ b \in Polynomials /\ a_hat \in Polynomials /\ b_hat \in Polynomials
  /\ pc \in {"ntt_a", "ntt_b", "multiply", "inverse", "product"}
  /\ pc \in {"ntt_a", "ntt_b"} =>
       coefficients \in Polynomials /\ InForward(coefficients, Factor, len, start, zeta_index)
  /\ pc # "ntt_a" => Transformed(a_hat, a)
  /\ pc \notin {"ntt_a", "ntt_b"} => Transformed(b_hat, b)

(* The factors have residues for coefficients. *)
LEMMA InputsArePolynomials ==
  ASSUME NEW pair \in Inputs
  PROVE  pair[1] \in Polynomials /\ pair[2] \in Polynomials
BY ConstantsAssumption DEF Polynomials, Index, Residues

(* Splitting holds initially. *)
LEMMA SplittingStarts == Init => Splitting
<1> SUFFICES ASSUME Init PROVE Splitting
  OBVIOUS
<1>1. PICK pair \in Inputs : a = pair[1] /\ b = pair[2]
  BY DEF Init
<1>2. a \in Polynomials /\ b \in Polynomials
  BY <1>1, InputsArePolynomials
<1>3. InForward(a, a, Half, 0, 1)
  BY <1>2, ForwardStarts
<1> QED
  BY <1>2, <1>3 DEF Init, Splitting, Factor

(* Every step keeps Splitting. *)
LEMMA SplittingKept == Splitting /\ [Next]_vars => Splitting'
<1> SUFFICES ASSUME Splitting, [Next]_vars PROVE Splitting'
  OBVIOUS
<1> DEFINE Types == /\ a \in Polynomials /\ b \in Polynomials /\ a_hat \in Polynomials /\ b_hat \in Polynomials
                    /\ pc \in {"ntt_a", "ntt_b", "multiply", "inverse", "product"}
<1>1. Types
  BY DEF Splitting
<1>2. CASE Forward
  <2>1. /\ pc \in {"ntt_a", "ntt_b"} /\ len >= 2 /\ NextBlock(len \div 2) /\ zeta_index' = zeta_index + 1
        /\ coefficients' = Butterflies(coefficients, start, len, Zeta[zeta_index])
        /\ UNCHANGED <<a, b, pc, a_hat, b_hat>>
    BY <1>2 DEF Forward, ZetaAfter
  <2>2. coefficients \in Polynomials /\ InForward(coefficients, Factor, len, start, zeta_index) /\ Factor \in Polynomials
    BY <2>1 DEF Splitting, Factor
  <2>3. NextLoop(len, start, len \div 2, len', start')
    BY <2>1 DEF NextBlock, NextLoop
  <2>4. coefficients' \in Polynomials /\ InForward(coefficients', Factor, len', start', zeta_index + 1)
    BY <2>1, <2>2, <2>3, ForwardContinues
  <2>5. Factor' = Factor
    BY <2>1 DEF Factor
  <2> QED
    BY <2>1, <2>4, <2>5 DEF Splitting
<1>3. CASE ForwardDone
  <2>1. Transformed(coefficients, Factor) /\ start = 0 /\ coefficients \in Polynomials
    <3>1. /\ coefficients \in Polynomials /\ InForward(coefficients, Factor, len, start, zeta_index)
          /\ len < 2
      BY <1>3 DEF ForwardDone, Splitting
    <3>2. ~(len >= 2)
      <4>1. len \in Int
        <5>1. PICK k \in 0 .. Bits : \E s \in 0 .. Count(k) - 1 :
                ForwardAt(coefficients, Factor, len, start, zeta_index, k, s)
          BY <3>1, Zenon DEF InForward
        <5>2. len = Size(k + 1)
          BY <5>1 DEF ForwardAt
        <5>3. Splits(k)
          BY LevelSplits
        <5> QED
          BY <5>2, <5>3 DEF Splits
      <4> QED
        BY <3>1, <4>1
    <3> QED
      BY <3>1, <3>2, ForwardEnds
  <2>2. CASE pc = "ntt_a"
    <3>1. /\ a_hat' = coefficients /\ coefficients' = b /\ pc' = "ntt_b" /\ len' = Half
          /\ zeta_index' = 1 /\ UNCHANGED <<a, b, b_hat, start>>
      BY <1>3, <2>2 DEF ForwardDone
    <3>2. Factor = a /\ Factor' = b
      BY <2>2, <3>1 DEF Factor
    <3>3. InForward(b, b, Half, 0, 1)
      BY <1>1, ForwardStarts
    <3> QED
      BY <1>1, <2>1, <3>1, <3>2, <3>3 DEF Splitting
  <2>3. CASE pc = "ntt_b"
    <3>1. b_hat' = coefficients /\ pc' = "multiply" /\ UNCHANGED <<a, b, a_hat>>
      BY <1>3, <2>3 DEF ForwardDone
    <3>2. Factor = b /\ Transformed(a_hat, a)
      BY <2>3 DEF Factor, Splitting
    <3> QED
      BY <1>1, <2>1, <3>1, <3>2 DEF Splitting
  <2> QED
    BY <1>3, <2>2, <2>3 DEF ForwardDone
<1>4. CASE MultiplyHats \/ Backward \/ ScaleResult
  <2>1. pc \in {"multiply", "inverse"} /\ pc' \in {"inverse", "product"} /\ UNCHANGED <<a, b, a_hat, b_hat>>
    BY <1>4 DEF MultiplyHats, Backward, ScaleResult
  <2> QED
    BY <1>1, <2>1 DEF Splitting
<1>5. CASE UNCHANGED vars
  <2>1. UNCHANGED <<a, b, pc, coefficients, len, start, zeta_index, a_hat, b_hat>>
    BY <1>5 DEF vars
  <2>2. Factor' = Factor
    BY <2>1 DEF Factor
  <2> QED
    BY <2>1, <2>2 DEF Splitting
<1> QED
  BY <1>2, <1>3, <1>4, <1>5 DEF Next

(* Splitting is an invariant of the specification. *)
LEMMA SplittingHolds == Spec => []Splitting
BY SplittingStarts, SplittingKept, PTL DEF Spec

(* Splitting says of every place what ChunksAreResidues says of it. *)
LEMMA SplittingShowsResidues == Splitting => ChunksAreResidues
<1> SUFFICES ASSUME Splitting, pc \in {"ntt_a", "ntt_b"}
             PROVE  LET p     == Factor
                        split == start \div (2 * len)
                    IN  IF len >= 2
                        THEN /\ HoldsResidues(p, len, 0 .. 2 * split - 1)
                             /\ HoldsResidues(p, 2 * len, split .. (N \div (2 * len)) - 1)
                        ELSE /\ HoldsResidues(p, 2, 0 .. Half - 1)
                             /\ \A i \in 0 .. Half - 1 : RootOf(2, i) = Gamma[i]
  BY DEF ChunksAreResidues, Factor
<1> DEFINE p == Factor
           split == start \div (2 * len)
<1>1. /\ coefficients \in Polynomials /\ InForward(coefficients, p, len, start, zeta_index) /\ p \in Polynomials
  BY DEF Splitting, Factor
<1> HIDE DEF p
<1>2. PICK k \in 0 .. Bits : \E s \in 0 .. Count(k) - 1 :
        ForwardAt(coefficients, p, len, start, zeta_index, k, s)
  BY <1>1, Zenon DEF InForward
<1>3. PICK s \in 0 .. Count(k) - 1 : ForwardAt(coefficients, p, len, start, zeta_index, k, s)
  BY <1>2
<1>4. len = Size(k + 1) /\ start = s * Size(k)
  BY <1>3 DEF ForwardAt
<1>5. CASE len >= 2
  <2>1. k # Bits
    <3>1. SUFFICES ASSUME k = Bits PROVE FALSE
      OBVIOUS
    <3> QED
      BY <1>4, <1>5, <3>1, DegreeFacts
  <2>2. k \in 0 .. Bits - 1 /\ k + 1 \in 0 .. Bits
    BY <2>1, WidthIsPositive
  <2> DEFINE m == Size(k)
             n == Count(k)
  <2>3. m = 2 * len /\ m \in Nat \ {0} /\ n \in Nat /\ N \div m = n /\ Count(k + 1) = 2 * n /\ s \in 0 .. n - 1
    BY <1>4, LevelSplits DEF Splits
  <2>4. split = s
    <3>1. start = s * m
      BY <1>4
    <3> HIDE DEF m, n
    <3>2. s \in Int /\ start = m * s + 0 /\ 0 \in 0 .. m - 1 /\ start \in Int
      BY <2>3, <3>1
    <3>3. start \div m = s
      BY <2>3, <3>2, QuotientIsUnique
    <3> QED
      BY <2>3, <3>3
  <2>5. HoldsResidues(p, len, 0 .. 2 * s - 1)
    <3> SUFFICES ASSUME NEW c \in 0 .. 2 * s - 1, NEW t \in 0 .. len - 1
                 PROVE  coefficients[c * len + t] = Residue(p, len, RootOf(len, c), t)
      BY DEF HoldsResidues
    <3>1. Holds(coefficients, p, k + 1, c, 1)
      BY <1>3 DEF ForwardAt
    <3>2. c \in 0 .. Count(k + 1) - 1
      <4> HIDE DEF n
      <4> QED
        BY <2>3
    <3> QED
      BY <1>1, <1>4, <2>2, <3>1, <3>2, HeldIsResidue
  <2>6. HoldsResidues(p, m, s .. n - 1)
    <3> SUFFICES ASSUME NEW c \in s .. n - 1, NEW t \in 0 .. m - 1
                 PROVE  coefficients[c * m + t] = Residue(p, m, RootOf(m, c), t)
      BY DEF HoldsResidues
    <3>1. Holds(coefficients, p, k, c, 1)
      BY <1>3 DEF ForwardAt
    <3>2. c \in 0 .. n - 1
      <4> HIDE DEF n
      <4> QED
        BY <2>3
    <3> QED
      BY <1>1, <3>1, <3>2, HeldIsResidue
  <2> QED
    BY <1>5, <2>3, <2>4, <2>5, <2>6 DEF p
<1>6. CASE ~(len >= 2)
  <2>1. Transformed(coefficients, p)
    BY <1>1, <1>6, ForwardEnds
  <2>2. HoldsResidues(p, 2, 0 .. Half - 1)
    <3> SUFFICES ASSUME NEW c \in 0 .. Half - 1, NEW t \in 0 .. 2 - 1
                 PROVE  coefficients[c * 2 + t] = Residue(p, 2, RootOf(2, c), t)
      BY DEF HoldsResidues
    <3>1. Holds(coefficients, p, Bits, c, 1)
      BY <2>1 DEF Transformed
    <3>2. Bits \in 0 .. Bits /\ c \in 0 .. Count(Bits) - 1 /\ t \in 0 .. Size(Bits) - 1 /\ Size(Bits) = 2
      BY WidthIsPositive, DegreeFacts
    <3>3. coefficients[c * Size(Bits) + t] = Residue(p, Size(Bits), RootOf(Size(Bits), c), t)
      BY <1>1, <3>1, <3>2, HeldIsResidue
    <3> QED
      BY <3>2, <3>3
  <2>3. \A i \in 0 .. Half - 1 : RootOf(2, i) = Gamma[i]
    BY GammasAreRoots
  <2> QED
    BY <1>6, <2>2, <2>3 DEF p
<1> QED
  BY <1>5, <1>6

(* At every turn of ml_kem_ntt the blocks hold the input's residues. *)
THEOREM TransformSplits == Spec => []ChunksAreResidues
BY SplittingHolds, SplittingShowsResidues, PTL

-----------------------------------------------------------------------------
(* The product of two polynomials, as the sum of one's coefficients times the
   other multiplied by powers of X, and its values at the roots of -1. *)

(* r times X^i modulo X^N + 1. *)
Shifted(r, i) ==
  [k \in Nat |-> IF k \in Index /\ i \in Index
                 THEN IF i <= k THEN r[k - i] ELSE -r[N + k - i]
                 ELSE 0]

(* Shifts of polynomials have numbers for coefficients. *)
LEMMA ShiftsAreSequences ==
  ASSUME NEW r \in Polynomials, NEW i \in Nat
  PROVE  Shifted(r, i) \in Sequence
<1> SUFFICES ASSUME NEW k \in Nat, k \in Index, i \in Index
             PROVE  (IF i <= k THEN r[k - i] ELSE -r[N + k - i]) \in Int
  BY DEF Shifted, Sequence
<1>1. N \in Nat
  BY DegreeFacts
<1>2. CASE i <= k
  <2>1. k - i \in Index
    BY <1>1, <1>2 DEF Index
  <2>2. r[k - i] \in Int
    BY <2>1, ExtendedIsSequence
  <2> QED
    BY <1>2, <2>2
<1>3. CASE ~(i <= k)
  <2>1. N + k - i \in Index
    BY <1>1, <1>3 DEF Index
  <2>2. r[N + k - i] \in Int
    BY <2>1, ExtendedIsSequence
  <2>3. -r[N + k - i] \in Int
    BY <2>2
  <2> QED
    BY <1>3, <2>3
<1> QED
  BY <1>2, <1>3

(* Shifting once more. *)
LEMMA ShiftOnce ==
  ASSUME NEW r \in Polynomials, NEW i \in Nat, i + 1 \in Index
  PROVE  /\ Shifted(r, i + 1)[0] = -Shifted(r, i)[N - 1]
         /\ \A k \in Nat : k + 1 \in Index => Shifted(r, i + 1)[k + 1] = Shifted(r, i)[k]
<1>1. N \in Nat /\ i \in Index /\ N - 1 \in Index /\ 0 \in Index /\ N - 1 \in Nat /\ 0 \in Nat
  BY DegreeFacts DEF Index
<1>2. ASSUME NEW k \in Nat, k + 1 \in Index PROVE Shifted(r, i + 1)[k + 1] = Shifted(r, i)[k]
  <2>1. k \in Index /\ k + 1 \in Nat /\ (k + 1) - (i + 1) = k - i /\ N + (k + 1) - (i + 1) = N + k - i
        /\ (i + 1 <= k + 1 <=> i <= k)
    BY <1>1, <1>2 DEF Index
  <2>2. Shifted(r, i)[k] = IF i <= k THEN r[k - i] ELSE -r[N + k - i]
    BY <1>1, <2>1 DEF Shifted
  <2>3. Shifted(r, i + 1)[k + 1] = IF i + 1 <= k + 1 THEN r[(k + 1) - (i + 1)] ELSE -r[N + (k + 1) - (i + 1)]
    BY <1>2, <2>1 DEF Shifted
  <2> QED
    BY <2>1, <2>2, <2>3
<1>3. Shifted(r, i + 1)[0] = -Shifted(r, i)[N - 1]
  <2>1. ~(i + 1 <= 0) /\ i <= N - 1 /\ N + 0 - (i + 1) = (N - 1) - i
    BY <1>1 DEF Index
  <2>2. Shifted(r, i + 1)[0] = -r[N + 0 - (i + 1)]
    BY <1>1, <2>1 DEF Shifted
  <2>3. Shifted(r, i)[N - 1] = r[(N - 1) - i]
    BY <1>1, <2>1 DEF Shifted
  <2> QED
    BY <2>1, <2>2, <2>3
<1> QED
  BY <1>2, <1>3

(* The values of a shifted polynomial's even and odd coefficients. *)
LEMMA ShiftValues ==
  ASSUME NEW r \in Polynomials, NEW i \in Nat, i + 1 \in Index, NEW x \in Int, Same(Powers(x)[Half], -1)
  PROVE  /\ Same(Eval(Shifted(r, i + 1), 2, Half, x, 1), Eval(Shifted(r, i), 2, Half, x, 0))
         /\ Same(Eval(Shifted(r, i + 1), 2, Half, x, 0), x * Eval(Shifted(r, i), 2, Half, x, 1))
<1> DEFINE U == Shifted(r, i)
           V == Shifted(r, i + 1)
<1>1. U \in Sequence /\ V \in Sequence
  BY ShiftsAreSequences
<1>2. V[0] = -U[N - 1] /\ \A k \in Nat : k + 1 \in Index => V[k + 1] = U[k]
  BY ShiftOnce
<1> HIDE DEF U, V
<1>3. N = 2 * Half /\ Half \in Nat \ {0} /\ 0 \in Nat /\ 1 \in Nat /\ 2 \in Nat
  BY DegreeFacts
<1>4. Same(Eval(V, 2, Half, x, 1), Eval(U, 2, Half, x, 0))
  <2>1. ASSUME NEW j \in 0 .. Half - 1 PROVE Same(V[1 + j * 2], U[0 + j * 2])
    <3>1. j * 2 \in Nat /\ j * 2 + 1 \in Index /\ 1 + j * 2 = j * 2 + 1 /\ 0 + j * 2 = j * 2
      BY <1>3 DEF Index
    <3>2. V[j * 2 + 1] = U[j * 2]
      BY <1>2, <3>1
    <3> QED
      BY <3>1, <3>2 DEF Same
  <2>2. Same(x, x)
    BY DEF Same
  <2> HIDE DEF Half
  <2> QED
    BY <1>1, <1>3, <2>1, <2>2, EvalIsSame
<1> DEFINE E(n) == Eval(V, 2, n, x, 0)
           F(n) == Eval(U, 2, n, x, 1)
           u(n) == U[1 + n * 2]
           v(n) == V[0 + n * 2]
           p(n) == Powers(x)[n]
           T == {n \in Nat : n + 1 <= Half => E(n + 1) = V[0] + x * F(n)}
<1>5. \A n \in Nat : OneTermMore(V, 2, n, x, 0) /\ OneTermMore(U, 2, n, x, 1)
  BY <1>1, <1>3, EvalUnfolds
<1>6. \A n \in Nat : E(n + 1) = E(n) + v(n) * p(n) /\ E(n) \in Int /\ v(n) \in Int /\ p(n) \in Int
  BY <1>5 DEF OneTermMore
<1>7. \A n \in Nat : F(n + 1) = F(n) + u(n) * p(n) /\ F(n) \in Int /\ u(n) \in Int
  BY <1>5 DEF OneTermMore
<1>8. E(0) = 0 /\ F(0) = 0
  BY <1>5 DEF OneTermMore
<1>9. p(0) = 1 /\ \A n \in Nat : p(n + 1) = p(n) * x
  BY PowersUnfold
<1>10. v(0) = V[0]
  <2>1. 0 + 0 * 2 = 0
    OBVIOUS
  <2> QED
    BY <2>1
<1>11. ASSUME NEW n \in Nat, n + 1 + 1 <= Half PROVE v(n + 1) = u(n)
  <2>1. 0 + (n + 1) * 2 = (1 + n * 2) + 1 /\ 1 + n * 2 \in Nat /\ (1 + n * 2) + 1 \in Index
    BY <1>3, <1>11 DEF Index
  <2>2. V[(1 + n * 2) + 1] = U[1 + n * 2]
    BY <1>2, <2>1
  <2> QED
    BY <2>1, <2>2
<1>12. u(Half - 1) = U[N - 1]
  <2>1. 1 + (Half - 1) * 2 = N - 1
    BY <1>3
  <2> QED
    BY <2>1
<1> HIDE DEF E, F, u, v, p, Half
<1>13. 0 \in T
  <2>1. E(0 + 1) = E(0) + v(0) * p(0) /\ v(0) \in Int
    BY <1>6
  <2>2. v(0) * 1 = v(0) /\ x * 0 = 0
    BY <2>1
  <2>3. E(0 + 1) = v(0) + x * F(0)
    BY <1>8, <1>9, <2>1, <2>2
  <2> QED
    BY <1>10, <2>3
<1>14. ASSUME NEW n \in Nat, n \in T PROVE n + 1 \in T
  <2> SUFFICES ASSUME n + 1 + 1 <= Half PROVE E((n + 1) + 1) = V[0] + x * F(n + 1)
    OBVIOUS
  <2> DEFINE v0 == V[0]
             fn == F(n)
             un == u(n)
             pn == p(n)
  <2>0. n + 1 \in Nat
    OBVIOUS
  <2>1. E((n + 1) + 1) = E(n + 1) + v(n + 1) * p(n + 1)
    BY <1>6, <2>0
  <2>2. E(n + 1) = v0 + x * fn
    BY <1>3, <1>14
  <2>3. v(n + 1) = un /\ p(n + 1) = pn * x /\ F(n + 1) = fn + un * pn
    BY <1>7, <1>9, <1>11
  <2>4. v0 \in Int /\ fn \in Int /\ un \in Int /\ pn \in Int
    BY <1>6, <1>7, <1>10
  <2> HIDE DEF v0, fn, un, pn
  <2>5. (v0 + x * fn) + un * (pn * x) = v0 + x * (fn + un * pn)
    BY <2>4
  <2>6. E((n + 1) + 1) = v0 + x * F(n + 1)
    BY <2>1, <2>2, <2>3, <2>5
  <2> QED
    BY <2>6 DEF v0
<1> DEFINE h == Half - 1
<1>15. h \in Nat /\ h + 1 = Half
  BY <1>3
<1> HIDE DEF T, h
<1>16. h \in T
  BY <1>13, <1>14, <1>15, SetInduction
<1>17. E(Half) = V[0] + x * F(h)
  <2>1. E(h + 1) = V[0] + x * F(h)
    BY <1>3, <1>15, <1>16 DEF T
  <2> QED
    BY <1>15, <2>1
<1> DEFINE last == U[N - 1]
           fh == F(h)
           ph == p(h)
           xp == p(Half)
<1>18. F(Half) = fh + last * ph /\ fh \in Int /\ ph \in Int /\ last \in Int /\ xp = ph * x /\ xp \in Int
  <2>1. F(h + 1) = F(h) + u(h) * p(h) /\ F(h) \in Int /\ u(h) \in Int /\ p(h) \in Int /\ p(h + 1) = p(h) * x
    BY <1>6, <1>7, <1>9, <1>15
  <2>2. u(h) = last
    BY <1>12 DEF h
  <2>3. p(Half) \in Int
    BY <1>3, <1>6
  <2> HIDE DEF last
  <2> QED
    BY <1>15, <2>1, <2>2, <2>3
<1>19. V[0] = -last /\ Same(xp, -1)
  BY <1>2 DEF p
<1>20. Same(E(Half), x * F(Half))
  <2>1. E(Half) = -last + x * fh
    BY <1>17, <1>19
  <2>2. F(Half) = fh + last * ph /\ fh \in Int /\ ph \in Int /\ last \in Int /\ xp = ph * x /\ xp \in Int
    BY <1>18
  <2> HIDE DEF last, fh, ph, xp
  <2>3. x * (fh + last * ph) = x * fh + last * xp
    BY <2>2
  <2> DEFINE xf == x * fh
             lx == last * xp
  <2>4. -1 \in Int /\ Same(last, last) /\ xf \in Int /\ lx \in Int /\ last * (-1) = -last /\ -last \in Int
    BY <2>2 DEF Same
  <2>5. Same(lx, -last)
    <3>1. Same(last * xp, last * (-1))
      BY <1>19, <2>2, <2>4, SameSums DEF xp
    <3> QED
      BY <2>4, <3>1
  <2> HIDE DEF xf, lx
  <2>6. Same(xf, xf)
    BY DEF Same
  <2>7. Same(xf + lx, xf + (-last))
    BY <2>4, <2>5, <2>6, SameSums
  <2>8. xf + (-last) = -last + xf
    BY <2>2, <2>4
  <2> QED
    BY <2>1, <2>2, <2>3, <2>7, <2>8 DEF Same, xf, lx
<1> QED
  BY <1>4, <1>20 DEF E, F, U, V

(* The values of r's even and odd coefficients, and of its shifts. *)
Even(r, x) == Eval(Extended(r), 2, Half, x, 0)
Odd(r, x)  == Eval(Extended(r), 2, Half, x, 1)

EvenAt(r, i, x) == Eval(Shifted(r, i), 2, Half, x, 0)
OddAt(r, i, x)  == Eval(Shifted(r, i), 2, Half, x, 1)

ShiftsAt(r, x, j) ==
  /\ Same(EvenAt(r, 2 * j, x), Powers(x)[j] * Even(r, x))
  /\ Same(OddAt(r, 2 * j, x), Powers(x)[j] * Odd(r, x))
  /\ Same(EvenAt(r, 2 * j + 1, x), x * (Powers(x)[j] * Odd(r, x)))
  /\ Same(OddAt(r, 2 * j + 1, x), Powers(x)[j] * Even(r, x))

(* All of these are numbers. *)
LEMMA ValuesAreNumbers ==
  ASSUME NEW r \in Polynomials, NEW x \in Int, NEW i \in Nat
  PROVE  Even(r, x) \in Int /\ Odd(r, x) \in Int /\ EvenAt(r, i, x) \in Int /\ OddAt(r, i, x) \in Int
<1>1. Extended(r) \in Sequence /\ Shifted(r, i) \in Sequence
  BY ExtendedIsSequence, ShiftsAreSequences
<1>2. Half \in Nat /\ 0 \in Nat /\ 1 \in Nat /\ 2 \in Nat
  BY DegreeFacts
<1>3. /\ OneTermMore(Extended(r), 2, Half, x, 0) /\ OneTermMore(Extended(r), 2, Half, x, 1)
      /\ OneTermMore(Shifted(r, i), 2, Half, x, 0) /\ OneTermMore(Shifted(r, i), 2, Half, x, 1)
  BY <1>1, <1>2, EvalUnfolds
<1> QED
  BY <1>3 DEF OneTermMore, Even, Odd, EvenAt, OddAt

(* The shift by nothing. *)
LEMMA ShiftedNothing ==
  ASSUME NEW r \in Polynomials
  PROVE  Shifted(r, 0) = Extended(r)
<1>1. 0 \in Index /\ \A k \in Index : 0 <= k /\ k - 0 = k
  BY DegreeFacts DEF Index
<1> QED
  BY <1>1 DEF Shifted, Extended

(* One more shift swaps the two values and multiplies one by x. *)
LEMMA NextShift ==
  ASSUME NEW r \in Polynomials, NEW i \in Nat, i + 1 \in Index, NEW x \in Int, Same(Powers(x)[Half], -1)
  PROVE  Same(OddAt(r, i + 1, x), EvenAt(r, i, x)) /\ Same(EvenAt(r, i + 1, x), x * OddAt(r, i, x))
BY ShiftValues DEF EvenAt, OddAt

(* The values of every shift, from those of the polynomial itself. *)
LEMMA AllShiftValues ==
  ASSUME NEW r \in Polynomials, NEW x \in Int, Same(Powers(x)[Half], -1), NEW n \in 0 .. Half - 1
  PROVE  ShiftsAt(r, x, n)
<1> DEFINE T == {j \in Nat : j <= Half - 1 => ShiftsAt(r, x, j)}
           A == Even(r, x)
           B == Odd(r, x)
<1>1. A \in Int /\ B \in Int
  BY ValuesAreNumbers
<1>2. N = 2 * Half /\ Half \in Nat \ {0}
  BY DegreeFacts
<1>3. Powers(x)[0] = 1 /\ \A j \in Nat : Powers(x)[j] \in Int /\ Powers(x)[j + 1] = Powers(x)[j] * x
  BY PowersUnfold
(* The odd shift follows from the even one before it. *)
<1>4. ASSUME NEW j \in Nat, j <= Half - 1,
             Same(EvenAt(r, 2 * j, x), Powers(x)[j] * A), Same(OddAt(r, 2 * j, x), Powers(x)[j] * B)
      PROVE  ShiftsAt(r, x, j)
  <2> DEFINE i == 2 * j
             pa == Powers(x)[j] * A
             pb == Powers(x)[j] * B
             e == EvenAt(r, i, x)
             o == OddAt(r, i, x)
  <2>1. i \in Nat /\ i + 1 \in Index
    BY <1>2, <1>4 DEF Index
  <2>2. Same(OddAt(r, i + 1, x), e) /\ Same(EvenAt(r, i + 1, x), x * o)
    <3> HIDE DEF i
    <3> QED
      BY <2>1, NextShift
  <2>3. e \in Int /\ o \in Int
    <3> HIDE DEF i
    <3> QED
      BY <2>1, ValuesAreNumbers
  <2>4. pa \in Int /\ pb \in Int
    <3> DEFINE p == Powers(x)[j]
    <3>1. p \in Int
      BY <1>3
    <3> HIDE DEF p, A, B
    <3>2. p * A \in Int /\ p * B \in Int
      BY <1>1, <3>1
    <3> QED
      BY <3>2 DEF p
  <2>5. Same(e, pa) /\ Same(o, pb)
    BY <1>4
  <2> HIDE DEF pa, pb, e, o
  <2>6. Same(x * o, x * pb)
    <3>1. Same(x, x)
      BY DEF Same
    <3> QED
      BY <2>3, <2>4, <2>5, <3>1, SameSums
  <2>7. Same(EvenAt(r, i + 1, x), x * pb) /\ Same(OddAt(r, i + 1, x), pa)
    BY <2>2, <2>5, <2>6 DEF Same
  <2> QED
    BY <1>4, <2>7 DEF ShiftsAt, pa, pb
<1>5. 0 \in T
  <2> SUFFICES ASSUME 0 <= Half - 1 PROVE ShiftsAt(r, x, 0)
    OBVIOUS
  <2>1. EvenAt(r, 2 * 0, x) = A /\ OddAt(r, 2 * 0, x) = B
    <3>1. 2 * 0 = 0
      OBVIOUS
    <3> QED
      BY <3>1, ShiftedNothing DEF EvenAt, OddAt, Even, Odd
  <2> HIDE DEF A, B
  <2>2. 1 * A = A /\ 1 * B = B
    BY <1>1
  <2>3. Powers(x)[0] * A = A /\ Powers(x)[0] * B = B
    BY <1>3, <2>2
  <2>4. Same(EvenAt(r, 2 * 0, x), Powers(x)[0] * A) /\ Same(OddAt(r, 2 * 0, x), Powers(x)[0] * B)
    BY <2>1, <2>3 DEF Same
  <2> QED
    BY <1>4, <2>4
<1>6. ASSUME NEW j \in Nat, j \in T PROVE j + 1 \in T
  <2> SUFFICES ASSUME j + 1 <= Half - 1 PROVE ShiftsAt(r, x, j + 1)
    OBVIOUS
  <2> DEFINE i == 2 * j + 1
             p == Powers(x)[j]
             q == Powers(x)[j + 1]
             e == EvenAt(r, i, x)
             o == OddAt(r, i, x)
  <2>1. i \in Nat /\ i + 1 \in Index /\ 2 * (j + 1) = i + 1
    BY <1>2 DEF Index
  <2>2. ShiftsAt(r, x, j)
    BY <1>2, <1>6
  <2>3. Same(e, x * (p * B)) /\ Same(o, p * A)
    BY <2>2 DEF ShiftsAt
  <2>4. Same(OddAt(r, i + 1, x), e) /\ Same(EvenAt(r, i + 1, x), x * o)
    <3> HIDE DEF i
    <3> QED
      BY <2>1, NextShift
  <2>5. e \in Int /\ o \in Int /\ p \in Int /\ q = p * x
    <3>1. e \in Int /\ o \in Int
      <4> HIDE DEF i
      <4> QED
        BY <2>1, ValuesAreNumbers
    <3> QED
      BY <1>3, <3>1
  <2> HIDE DEF e, o, p, q, A, B
  <2>6. x * (p * A) = q * A /\ x * (p * B) = q * B /\ p * A \in Int
    BY <1>1, <2>5
  <2> DEFINE pa == p * A
  <2>7. Same(x * o, x * pa)
    <3>1. Same(x, x) /\ pa \in Int /\ Same(o, pa)
      BY <2>3, <2>6 DEF Same
    <3> HIDE DEF pa
    <3> QED
      BY <2>5, <3>1, SameSums
  <2>8. Same(EvenAt(r, i + 1, x), q * A) /\ Same(OddAt(r, i + 1, x), q * B)
    BY <2>3, <2>4, <2>6, <2>7 DEF Same
  <2>9. Same(EvenAt(r, 2 * (j + 1), x), Powers(x)[j + 1] * A) /\ Same(OddAt(r, 2 * (j + 1), x), Powers(x)[j + 1] * B)
    BY <2>1, <2>8 DEF q
  <2>10. j + 1 \in Nat
    OBVIOUS
  <2> QED
    BY <1>4, <2>9, <2>10
<1> HIDE DEF T
<1>7. n \in T /\ n \in Nat /\ n <= Half - 1
  <2>1. n \in Nat /\ n <= Half - 1
    BY <1>2
  <2> QED
    BY <1>5, <1>6, <2>1, SetInduction
<1> QED
  BY <1>7 DEF T

(* The product of p and r modulo X^N + 1, and its first n contributions: each
   coefficient of p times r shifted by its number. *)
Contributions(p, r, k) == [i \in Nat |-> Extended(p)[i] * Shifted(r, i)[k]]
Partial(p, r, n) == [k \in Nat |-> Sums(Contributions(p, r, k))[n]]

OneMoreShift(p, r, n) ==
  /\ Partial(p, r, n) \in Sequence
  /\ \A k \in Nat : /\ Partial(p, r, 0)[k] = 0
                    /\ Partial(p, r, n + 1)[k] = Partial(p, r, n)[k] + Extended(p)[n] * Shifted(r, n)[k]

(* The contributions are numbers. *)
LEMMA ContributionsAreNumbers ==
  ASSUME NEW p \in Polynomials, NEW r \in Polynomials, NEW k \in Nat
  PROVE  Contributions(p, r, k) \in [Nat -> Int]
<1>1. ASSUME NEW i \in Nat PROVE Extended(p)[i] * Shifted(r, i)[k] \in Int
  <2>1. Extended(p)[i] \in Int
    BY ExtendedIsSequence DEF Sequence
  <2>2. Shifted(r, i)[k] \in Int
    BY ShiftsAreSequences DEF Sequence
  <2> QED
    BY <2>1, <2>2
<1> QED
  BY <1>1 DEF Contributions

(* One more contribution to every coefficient. *)
LEMMA PartialUnfolds ==
  ASSUME NEW p \in Polynomials, NEW r \in Polynomials, NEW n \in Nat
  PROVE  OneMoreShift(p, r, n)
<1>1. ASSUME NEW k \in Nat
      PROVE  /\ Sums(Contributions(p, r, k))[0] = 0 /\ Sums(Contributions(p, r, k))[n] \in Int
             /\ Sums(Contributions(p, r, k))[n + 1]
                  = Sums(Contributions(p, r, k))[n] + Extended(p)[n] * Shifted(r, n)[k]
  <2> DEFINE h == Contributions(p, r, k)
  <2>1. h[n] = Extended(p)[n] * Shifted(r, n)[k]
    BY DEF Contributions
  <2>2. h \in [Nat -> Int]
    BY ContributionsAreNumbers
  <2> HIDE DEF h
  <2>3. Sums(h)[0] = 0 /\ Sums(h)[n] \in Int /\ Sums(h)[n + 1] = Sums(h)[n] + h[n]
    BY <2>2, SumsUnfold
  <2> QED
    BY <2>1, <2>3 DEF h
<1>2. Partial(p, r, n) \in Sequence
  BY <1>1 DEF Partial, Sequence
<1> QED
  BY <1>1, <1>2 DEF OneMoreShift, Partial

EvenOf(p, r, n, x) == Eval(Partial(p, r, n), 2, Half, x, 0)
OddOf(p, r, n, x)  == Eval(Partial(p, r, n), 2, Half, x, 1)

(* The values of the contributions so far, and of one more. *)
LEMMA PartialValues ==
  ASSUME NEW p \in Polynomials, NEW r \in Polynomials, NEW n \in Nat, NEW x \in Int
  PROVE  /\ EvenOf(p, r, n, x) \in Int /\ OddOf(p, r, n, x) \in Int
         /\ EvenOf(p, r, 0, x) = 0 /\ OddOf(p, r, 0, x) = 0
         /\ EvenOf(p, r, n + 1, x) = EvenOf(p, r, n, x) + Extended(p)[n] * EvenAt(r, n, x)
         /\ OddOf(p, r, n + 1, x) = OddOf(p, r, n, x) + Extended(p)[n] * OddAt(r, n, x)
<1> DEFINE Z == Partial(p, r, 0)
           P == Partial(p, r, n)
           W == Partial(p, r, n + 1)
           V == Shifted(r, n)
           c == Extended(p)[n]
<1>1. Z \in Sequence /\ P \in Sequence /\ W \in Sequence /\ V \in Sequence /\ c \in Int
  <2>1. n + 1 \in Nat /\ 0 \in Nat
    OBVIOUS
  <2>2. OneMoreShift(p, r, 0) /\ OneMoreShift(p, r, n) /\ OneMoreShift(p, r, n + 1)
    BY <2>1, PartialUnfolds
  <2>3. Extended(p) \in Sequence /\ V \in Sequence
    BY ExtendedIsSequence, ShiftsAreSequences
  <2> QED
    BY <2>2, <2>3 DEF OneMoreShift, Sequence
<1>2. \A k \in Nat : Z[k] = 0 /\ W[k] = P[k] + c * V[k]
  <2>1. OneMoreShift(p, r, n)
    BY PartialUnfolds
  <2> QED
    BY <2>1 DEF OneMoreShift
<1> HIDE DEF Z, P, W, V, c
<1>3. Half \in Nat /\ 2 \in Nat /\ 1 \in Int
  BY DegreeFacts
<1>4. ASSUME NEW t \in Nat
      PROVE  /\ Eval(W, 2, Half, x, t) = Eval(P, 2, Half, x, t) + c * Eval(V, 2, Half, x, t)
             /\ Eval(Z, 2, Half, x, t) = 0 /\ Eval(P, 2, Half, x, t) \in Int
  <2>1. \A j \in 0 .. Half - 1 : t + j * 2 \in Nat
    BY <1>3
  <2>2. AddsMultiple(W, P, V, c, 2, t, Half)
    BY <1>2, <2>1 DEF AddsMultiple
  <2>3. AddsMultiple(Z, Z, Z, 1, 2, t, Half)
    <3> SUFFICES \A j \in 0 .. Half - 1 : Z[t + j * 2] = Z[t + j * 2] + 1 * Z[t + j * 2]
      BY DEF AddsMultiple
    <3> TAKE j \in 0 .. Half - 1
    <3>1. Z[t + j * 2] = 0
      BY <1>2, <2>1
    <3> QED
      BY <3>1
  <2> HIDE DEF Half
  <2>4. Eval(W, 2, Half, x, t) = Eval(P, 2, Half, x, t) + c * Eval(V, 2, Half, x, t)
    BY <1>1, <1>3, <2>2, EvalIsLinear
  <2>5. Eval(Z, 2, Half, x, t) = Eval(Z, 2, Half, x, t) + 1 * Eval(Z, 2, Half, x, t)
    BY <1>1, <1>3, <2>3, EvalIsLinear
  <2>6. OneTermMore(Z, 2, Half, x, t) /\ OneTermMore(P, 2, Half, x, t)
    BY <1>1, <1>3, EvalUnfolds
  <2> DEFINE z == Eval(Z, 2, Half, x, t)
  <2>7. z \in Int /\ Eval(P, 2, Half, x, t) \in Int
    BY <2>6 DEF OneTermMore
  <2>8. z = z + 1 * z
    BY <2>5
  <2> HIDE DEF z
  <2>9. z = 0
    BY <2>7, <2>8
  <2> QED
    BY <2>4, <2>7, <2>9 DEF z
<1>5. 0 \in Nat /\ 1 \in Nat
  OBVIOUS
<1> QED
  BY <1>4, <1>5 DEF EvenOf, OddOf, EvenAt, OddAt, Z, P, W, V, c

(* Two steps of a sum of products, modulo Q. *)
LEMMA PairArithmetic ==
  ASSUME NEW e \in Int, NEW f \in Int, NEW g \in Int, NEW h \in Int, NEW c \in Int, NEW d \in Int,
         NEW u \in Int, NEW v \in Int, NEW y \in Int, NEW z \in Int,
         Same(e, f), Same(u, y), Same(v, z), g = e + c * u, h = g + d * v
  PROVE  Same(h, f + c * y + d * z) /\ h \in Int
<1>1. Same(c, c) /\ Same(d, d)
  BY DEF Same
<1>2. Same(e + c * u, f + c * y) /\ e + c * u \in Int
  BY <1>1, SameMultiplyAdd
<1> DEFINE k == f + c * y
<1>3. k \in Int /\ Same(g, k)
  BY <1>2
<1> HIDE DEF k
<1>4. Same(g + d * v, k + d * z) /\ g + d * v \in Int
  BY <1>1, <1>3, SameMultiplyAdd
<1> QED
  BY <1>4 DEF k

(* The values of the first 2 * j coefficients of p times r are products modulo
   X^2 - x, of the values of those coefficients and of r. *)
PairProduct(p, r, x, j) ==
  LET e == Eval(Extended(p), 2, j, x, 0)
      o == Eval(Extended(p), 2, j, x, 1)
  IN  /\ Same(EvenOf(p, r, 2 * j, x), e * Even(r, x) + x * (o * Odd(r, x)))
      /\ Same(OddOf(p, r, 2 * j, x), e * Odd(r, x) + o * Even(r, x))

(* At a root of -1 of order Half that is so of all N coefficients. *)
LEMMA ProductsOfPairs ==
  ASSUME NEW p \in Polynomials, NEW r \in Polynomials, NEW x \in Int, Same(Powers(x)[Half], -1)
  PROVE  PairProduct(p, r, x, Half)
<1> DEFINE P == Extended(p)
           E(j) == Eval(P, 2, j, x, 0)
           O(j) == Eval(P, 2, j, x, 1)
           A == Even(r, x)
           B == Odd(r, x)
           q(j) == Powers(x)[j]
           T == {j \in Nat : j <= Half => PairProduct(p, r, x, j)}
<1>0. 0 \in Nat /\ 1 \in Nat /\ 2 \in Nat /\ Half \in Nat
  BY DegreeFacts
<1>1. A \in Int /\ B \in Int
  BY <1>0, ValuesAreNumbers
<1>2. P \in Sequence
  BY ExtendedIsSequence
<1>3. \A j \in Nat : OneTermMore(P, 2, j, x, 0) /\ OneTermMore(P, 2, j, x, 1)
  <2> HIDE DEF P
  <2> QED
    BY <1>0, <1>2, EvalUnfolds
<1>4. E(0) = 0 /\ O(0) = 0
  BY <1>3 DEF OneTermMore
<1>5. ASSUME NEW j \in Nat
      PROVE  /\ E(j + 1) = E(j) + P[2 * j] * q(j) /\ O(j + 1) = O(j) + P[2 * j + 1] * q(j)
             /\ E(j) \in Int /\ O(j) \in Int /\ P[2 * j] \in Int /\ P[2 * j + 1] \in Int /\ q(j) \in Int
  <2>1. 0 + j * 2 = 2 * j /\ 1 + j * 2 = 2 * j + 1
    OBVIOUS
  <2>2. OneTermMore(P, 2, j, x, 0) /\ OneTermMore(P, 2, j, x, 1)
    BY <1>3
  <2> HIDE DEF P
  <2> QED
    BY <2>1, <2>2 DEF OneTermMore
<1> HIDE DEF P, E, O, A, B, q
<1>6. 0 \in T
  <2> SUFFICES PairProduct(p, r, x, 0)
    OBVIOUS
  <2>1. EvenOf(p, r, 2 * 0, x) = 0 /\ OddOf(p, r, 2 * 0, x) = 0
    <3>1. 2 * 0 = 0
      OBVIOUS
    <3> QED
      BY <1>0, <3>1, PartialValues
  <2>2. 0 * A + x * (0 * B) = 0 /\ 0 * B + 0 * A = 0
    BY <1>1
  <2>3. /\ Same(EvenOf(p, r, 2 * 0, x), E(0) * A + x * (O(0) * B))
        /\ Same(OddOf(p, r, 2 * 0, x), E(0) * B + O(0) * A)
    BY <1>4, <2>1, <2>2 DEF Same
  <2> QED
    BY <2>3 DEF PairProduct, E, O, A, B, P
<1>7. ASSUME NEW j \in Nat, j \in T PROVE j + 1 \in T
  <2> SUFFICES ASSUME j + 1 <= Half PROVE PairProduct(p, r, x, j + 1)
    OBVIOUS
  <2> DEFINE i == 2 * j
             e == E(j)
             o == O(j)
             s == q(j)
             c == P[i]
             d == P[i + 1]
             fe == e * A + x * (o * B)
             fo == e * B + o * A
             e0 == EvenOf(p, r, i, x)
             e1 == EvenOf(p, r, i + 1, x)
             e2 == EvenOf(p, r, (i + 1) + 1, x)
             o0 == OddOf(p, r, i, x)
             o1 == OddOf(p, r, i + 1, x)
             o2 == OddOf(p, r, (i + 1) + 1, x)
             eu == EvenAt(r, i, x)
             ev == EvenAt(r, i + 1, x)
             ou == OddAt(r, i, x)
             ov == OddAt(r, i + 1, x)
  <2>1. i \in Nat /\ i + 1 \in Nat /\ 2 * (j + 1) = (i + 1) + 1 /\ j \in 0 .. Half - 1 /\ j <= Half
    BY <1>0
  <2>2. Same(e0, fe) /\ Same(o0, fo)
    <3>1. PairProduct(p, r, x, j)
      BY <1>7, <2>1
    <3> QED
      BY <3>1 DEF PairProduct, E, O, A, B, P
  <2>3. ShiftsAt(r, x, j)
    BY <2>1, AllShiftValues
  <2>4. Same(eu, s * A) /\ Same(ou, s * B) /\ Same(ev, x * (s * B)) /\ Same(ov, s * A)
    BY <2>3 DEF ShiftsAt, A, B, q
  <2>5. /\ e0 \in Int /\ o0 \in Int /\ e1 = e0 + c * eu /\ o1 = o0 + c * ou
    <3> HIDE DEF i
    <3> QED
      BY <2>1, PartialValues DEF P
  <2>6. e1 \in Int /\ o1 \in Int /\ e2 = e1 + d * ev /\ o2 = o1 + d * ov
    <3> DEFINE k == i + 1
    <3>1. k \in Nat
      BY <2>1
    <3> HIDE DEF k
    <3>2. /\ EvenOf(p, r, k, x) \in Int /\ OddOf(p, r, k, x) \in Int
          /\ EvenOf(p, r, k + 1, x) = EvenOf(p, r, k, x) + Extended(p)[k] * EvenAt(r, k, x)
          /\ OddOf(p, r, k + 1, x) = OddOf(p, r, k, x) + Extended(p)[k] * OddAt(r, k, x)
      BY <3>1, PartialValues
    <3> QED
      BY <3>2 DEF P, k
  <2>7. eu \in Int /\ ou \in Int /\ ev \in Int /\ ov \in Int
    <3> HIDE DEF i
    <3> QED
      BY <2>1, ValuesAreNumbers
  <2>8. /\ e \in Int /\ o \in Int /\ s \in Int /\ c \in Int /\ d \in Int
        /\ E(j + 1) = e + c * s /\ O(j + 1) = o + d * s
    BY <1>5
  <2>9. e2 \in Int /\ o2 \in Int
    <3> HIDE DEF i, e1, o1, d, ev, ov, e2, o2
    <3>1. d * ev \in Int /\ d * ov \in Int
      BY <2>7, <2>8
    <3> QED
      BY <2>6, <3>1
  <2> HIDE DEF i, e, o, s, c, d, e0, e1, e2, o0, o1, o2, eu, ev, ou, ov
  <2> DEFINE ye == s * A
             ze == x * (s * B)
             yo == s * B
             zo == s * A
  <2>10. fe \in Int /\ fo \in Int /\ ye \in Int /\ ze \in Int /\ yo \in Int /\ zo \in Int
    BY <1>1, <2>8
  <2>11. fe + c * ye + d * ze = (e + c * s) * A + x * ((o + d * s) * B)
    BY <1>1, <2>8
  <2>12. fo + c * yo + d * zo = (e + c * s) * B + (o + d * s) * A
    BY <1>1, <2>8
  <2> HIDE DEF fe, fo, ye, ze, yo, zo
  <2>13. Same(e2, fe + c * ye + d * ze)
    <3>1. Same(e0, fe) /\ Same(eu, ye) /\ Same(ev, ze)
      BY <2>2, <2>4 DEF ye, ze
    <3> HIDE DEF ye, ze, fe
    <3> QED
      BY <2>5, <2>6, <2>7, <2>8, <2>9, <2>10, <3>1, PairArithmetic, ZenonT(60)
  <2>14. Same(o2, fo + c * yo + d * zo)
    <3>1. Same(o0, fo) /\ Same(ou, yo) /\ Same(ov, zo)
      BY <2>2, <2>4 DEF yo, zo
    <3> HIDE DEF yo, zo, fo
    <3> QED
      BY <2>5, <2>6, <2>7, <2>8, <2>9, <2>10, <3>1, PairArithmetic, ZenonT(60)
  <2>15. /\ Same(EvenOf(p, r, 2 * (j + 1), x), E(j + 1) * A + x * (O(j + 1) * B))
         /\ Same(OddOf(p, r, 2 * (j + 1), x), E(j + 1) * B + O(j + 1) * A)
    BY <2>1, <2>8, <2>11, <2>12, <2>13, <2>14 DEF e2, o2
  <2> QED
    BY <2>15 DEF PairProduct, E, O, A, B, P
<1> HIDE DEF T
<1>8. Half \in T
  BY <1>0, <1>6, <1>7, SetInduction
<1> QED
  BY <1>0, <1>8 DEF T

(* Schoolbook's coefficients are those of the product. *)
LEMMA SchoolbookIsProduct ==
  ASSUME NEW p \in Polynomials, NEW r \in Polynomials, NEW k \in Index
  PROVE  /\ Schoolbook(p, r) \in Polynomials
         /\ Same(Extended(Schoolbook(p, r))[k], Partial(p, r, N)[k])
<1> DEFINE h(l) == [i \in Index |-> p[i] * (IF i <= l THEN r[l - i] ELSE Q - r[N + l - i])]
<1>1. ASSUME NEW l \in Index
      PROVE  ModSum(h(l), N) \in Residues /\ Same(ModSum(h(l), N), Sums(Contributions(p, r, l))[N])
  <2> DEFINE H == Contributions(p, r, l)
             g == h(l)
  <2>1. N \in Nat /\ l \in Nat
    BY DegreeFacts DEF Index
  <2>2. H \in Sequence
    BY <2>1, ContributionsAreNumbers DEF Sequence
  <2>3. ASSUME NEW i \in 0 .. N - 1 PROVE g[i] \in Int /\ Same(g[i], H[i])
    <3>1. i \in Index /\ i \in Nat
      BY <2>1 DEF Index
    <3> DEFINE c == p[i]
               y == IF i <= l THEN r[l - i] ELSE Q - r[N + l - i]
               z == IF i <= l THEN r[l - i] ELSE -r[N + l - i]
    <3>2. c \in Int /\ Extended(p)[i] = c
      BY <3>1, ExtendedIsSequence
    <3>3. y \in Int /\ z \in Int /\ Same(y, z)
      <4>1. CASE i <= l
        <5>1. l - i \in Index
          BY <2>1, <3>1, <4>1 DEF Index
        <5>2. r[l - i] \in Int
          BY <5>1, ExtendedIsSequence
        <5> QED
          BY <4>1, <5>2 DEF Same
      <4>2. CASE ~(i <= l)
        <5>1. N + l - i \in Index
          BY <2>1, <3>1, <4>2 DEF Index
        <5> DEFINE w == r[N + l - i]
        <5>2. w \in Int
          BY <5>1, ExtendedIsSequence
        <5>3. y = Q - w /\ z = -w
          BY <4>2
        <5> HIDE DEF w, y, z
        <5>4. Same(w, w)
          BY DEF Same
        <5>5. Q - w \in Int /\ -w \in Int /\ Same(Q - w, -w)
          BY <5>2, <5>4, SameNegated, ModulusIsPositive
        <5> QED
          BY <5>3, <5>5
      <4> QED
        BY <4>1, <4>2
    <3>4. g[i] = c * y
      BY <3>1
    <3>5. H[i] = c * z
      <4>1. Shifted(r, i)[l] = z
        BY <2>1, <3>1 DEF Shifted
      <4>2. H[i] = Extended(p)[i] * Shifted(r, i)[l]
        BY <3>1 DEF Contributions
      <4> QED
        BY <3>2, <4>1, <4>2
    <3> HIDE DEF c, y, z, g, H
    <3>6. Same(c, c)
      BY DEF Same
    <3>7. c * y \in Int /\ Same(c * y, c * z)
      BY <3>2, <3>3, <3>6, SameSums
    <3> QED
      BY <3>4, <3>5, <3>7
  <2> HIDE DEF g, H
  <2>4. ModSum(g, N) \in Residues /\ Same(ModSum(g, N), Sums(H)[N])
    BY <2>1, <2>2, <2>3, ModSumIsSum
  <2> QED
    BY <2>4 DEF g, H
<1>2. Schoolbook(p, r) = [l \in Index |-> ModSum(h(l), N)]
  BY Zenon DEF Schoolbook
<1> HIDE DEF h
<1>3. Schoolbook(p, r) \in Polynomials
  BY <1>1, <1>2 DEF Polynomials
<1>4. Extended(Schoolbook(p, r))[k] = ModSum(h(k), N)
  BY <1>2, <1>3, ExtendedIsSequence
<1>5. Partial(p, r, N)[k] = Sums(Contributions(p, r, k))[N]
  <2>1. k \in Nat
    BY DegreeFacts DEF Index
  <2> QED
    BY <2>1 DEF Partial
<1> QED
  BY <1>1, <1>3, <1>4, <1>5

(* The pair number i of v is the value of p's even and odd coefficients at
   Gamma[i]. *)
PairOf(v, p, i) == Same(v[2 * i], Even(p, Gamma[i])) /\ Same(v[2 * i + 1], Odd(p, Gamma[i]))

(* A pair is a block of the last level. *)
LEMMA PairIsBlock ==
  ASSUME NEW v, NEW p \in Polynomials, NEW i \in 0 .. Half - 1
  PROVE  Holds(v, p, Bits, i, 1) <=> PairOf(v, p, i)
<1> DEFINE x == Gamma[i]
           u == BlockValue(p, Bits, i, 0)
           w == BlockValue(p, Bits, i, 1)
<1>1. /\ Size(Bits) = 2 /\ Count(Bits) = Half /\ Bits \in 0 .. Bits /\ i \in 0 .. Count(Bits) - 1
      /\ 0 \in 0 .. Size(Bits) - 1 /\ 1 \in 0 .. Size(Bits) - 1 /\ i \in Nat
  BY DegreeFacts, WidthIsPositive
<1>2. x \in Int /\ Same(RootAt(Bits, i), x)
  BY GammasAreRoots DEF Same
<1> HIDE DEF x
<1>3. u \in Int /\ Same(u, Even(p, x))
  <2>1. /\ BlockValue(p, Bits, i, 0) \in Int
        /\ Same(BlockValue(p, Bits, i, 0), Eval(Extended(p), Size(Bits), Count(Bits), x, 0))
    BY <1>1, <1>2, BlockValueIsEval
  <2> QED
    BY <1>1, <2>1 DEF Even
<1>4. w \in Int /\ Same(w, Odd(p, x))
  <2>1. /\ BlockValue(p, Bits, i, 1) \in Int
        /\ Same(BlockValue(p, Bits, i, 1), Eval(Extended(p), Size(Bits), Count(Bits), x, 1))
    BY <1>1, <1>2, BlockValueIsEval
  <2> QED
    BY <1>1, <2>1 DEF Odd
<1>5. 1 * u = u /\ 1 * w = w
  BY <1>3, <1>4
<1>6. i * Size(Bits) + 0 = 2 * i /\ i * Size(Bits) + 1 = 2 * i + 1
  BY <1>1
<1>7. Holds(v, p, Bits, i, 1) <=> Same(v[2 * i], 1 * u) /\ Same(v[2 * i + 1], 1 * w)
  <2>1. \A t : t \in 0 .. Size(Bits) - 1 <=> t = 0 \/ t = 1
    BY <1>1
  <2>2. Holds(v, p, Bits, i, 1) <=> /\ Same(v[i * Size(Bits) + 0], 1 * BlockValue(p, Bits, i, 0))
                                    /\ Same(v[i * Size(Bits) + 1], 1 * BlockValue(p, Bits, i, 1))
    BY <2>1, Zenon DEF Holds
  <2> QED
    BY <1>6, <2>2
<1> HIDE DEF u, w
<1>8. /\ Same(v[2 * i], u) <=> Same(v[2 * i], Even(p, x))
      /\ Same(v[2 * i + 1], w) <=> Same(v[2 * i + 1], Odd(p, x))
  BY <1>3, <1>4 DEF Same
<1> QED
  BY <1>5, <1>7, <1>8 DEF PairOf, x

(* The product's values at a root of -1 of order Half are the product of the
   factors' values modulo X^2 - x. *)
LEMMA ProductValues ==
  ASSUME NEW p \in Polynomials, NEW r \in Polynomials, NEW x \in Int, Same(Powers(x)[Half], -1)
  PROVE  /\ Same(Even(Schoolbook(p, r), x), Even(p, x) * Even(r, x) + x * (Odd(p, x) * Odd(r, x)))
         /\ Same(Odd(Schoolbook(p, r), x), Even(p, x) * Odd(r, x) + Odd(p, x) * Even(r, x))
<1> DEFINE S == Schoolbook(p, r)
           P == Extended(S)
           R == Partial(p, r, N)
<1>1. Half \in Nat \ {0} /\ N = 2 * Half /\ 0 \in Nat /\ 1 \in Nat /\ 2 \in Nat
  BY DegreeFacts
<1>2. S \in Polynomials
  <2>1. 0 \in Index
    BY <1>1 DEF Index
  <2> QED
    BY <2>1, SchoolbookIsProduct
<1>3. P \in Sequence
  <2> HIDE DEF S
  <2> QED
    BY <1>2, ExtendedIsSequence
<1>4. R \in Sequence
  <2>1. N \in Nat
    BY <1>1
  <2>2. OneMoreShift(p, r, N)
    BY <2>1, PartialUnfolds
  <2> QED
    BY <2>2 DEF OneMoreShift
<1>5. ASSUME NEW j \in 0 .. Half - 1
      PROVE  Same(P[0 + j * 2], R[0 + j * 2]) /\ Same(P[1 + j * 2], R[1 + j * 2])
  <2>1. 0 + j * 2 \in Index /\ 1 + j * 2 \in Index
    BY <1>1 DEF Index
  <2>2. Same(P[0 + j * 2], R[0 + j * 2])
    <3> DEFINE k == 0 + j * 2
    <3>1. k \in Index
      BY <2>1
    <3> HIDE DEF k
    <3>2. Same(Extended(Schoolbook(p, r))[k], Partial(p, r, N)[k])
      BY <3>1, SchoolbookIsProduct
    <3> QED
      BY <3>2 DEF k
  <2>3. Same(P[1 + j * 2], R[1 + j * 2])
    <3> DEFINE k == 1 + j * 2
    <3>1. k \in Index
      BY <2>1
    <3> HIDE DEF k
    <3>2. Same(Extended(Schoolbook(p, r))[k], Partial(p, r, N)[k])
      BY <3>1, SchoolbookIsProduct
    <3> QED
      BY <3>2 DEF k
  <2> QED
    BY <2>2, <2>3
<1> HIDE DEF P, R
<1>6. Same(x, x)
  BY DEF Same
<1>7. Same(Eval(P, 2, Half, x, 0), Eval(R, 2, Half, x, 0))
  BY <1>1, <1>3, <1>4, <1>5, <1>6, EvalIsSame
<1>8. Same(Eval(P, 2, Half, x, 1), Eval(R, 2, Half, x, 1))
  BY <1>1, <1>3, <1>4, <1>5, <1>6, EvalIsSame
<1>9. /\ Same(EvenOf(p, r, 2 * Half, x), Even(p, x) * Even(r, x) + x * (Odd(p, x) * Odd(r, x)))
      /\ Same(OddOf(p, r, 2 * Half, x), Even(p, x) * Odd(r, x) + Odd(p, x) * Even(r, x))
  <2>1. PairProduct(p, r, x, Half)
    BY ProductsOfPairs
  <2> QED
    BY <2>1 DEF PairProduct, Even, Odd
<1>10. /\ EvenOf(p, r, 2 * Half, x) = Eval(R, 2, Half, x, 0) /\ OddOf(p, r, 2 * Half, x) = Eval(R, 2, Half, x, 1)
       /\ Even(S, x) = Eval(P, 2, Half, x, 0) /\ Odd(S, x) = Eval(P, 2, Half, x, 1)
  BY <1>1 DEF EvenOf, OddOf, Even, Odd, R, P
<1> QED
  BY <1>7, <1>8, <1>9, <1>10 DEF Same

(* ModQ's operators on the operands of one pair. *)
LEMMA PairMultiplied ==
  ASSUME NEW d \in Residues, NEW e \in Residues, NEW f \in Residues, NEW g \in Residues, NEW x \in Residues,
         NEW dd \in Int, NEW ee \in Int, NEW ff \in Int, NEW gg \in Int,
         Same(d, dd), Same(e, ee), Same(f, ff), Same(g, gg)
  PROVE  /\ Plus(Times(d, f), Times(Times(e, g), x)) \in Residues
         /\ Same(Plus(Times(d, f), Times(Times(e, g), x)), dd * ff + x * (ee * gg))
         /\ Plus(Times(d, g), Times(e, f)) \in Residues
         /\ Same(Plus(Times(d, g), Times(e, f)), dd * gg + ee * ff)
<1> DEFINE df == Times(d, f)
           eg == Times(e, g)
           dg == Times(d, g)
           ef == Times(e, f)
           egx == Times(eg, x)
<1>1. /\ df \in Residues /\ Same(df, d * f) /\ eg \in Residues /\ Same(eg, e * g)
      /\ dg \in Residues /\ Same(dg, d * g) /\ ef \in Residues /\ Same(ef, e * f)
  BY OperationsAreSame
<1>2. egx \in Residues /\ Same(egx, eg * x)
  <2> HIDE DEF eg
  <2> QED
    BY <1>1, OperationsAreSame
<1>3. /\ Plus(df, egx) \in Residues /\ Same(Plus(df, egx), df + egx)
      /\ Plus(dg, ef) \in Residues /\ Same(Plus(dg, ef), dg + ef)
  <2> HIDE DEF df, egx, dg, ef
  <2> QED
    BY <1>1, <1>2, OperationsAreSame
<1>4. d \in Int /\ e \in Int /\ f \in Int /\ g \in Int /\ x \in Int
  BY ResiduesAreNumbers
<1>5. df \in Int /\ eg \in Int /\ dg \in Int /\ ef \in Int /\ egx \in Int
  <2> HIDE DEF df, eg, dg, ef, egx
  <2> QED
    BY <1>1, <1>2, ResiduesAreNumbers
<1>6. Same(d * f, dd * ff) /\ Same(e * g, ee * gg) /\ Same(d * g, dd * gg) /\ Same(e * f, ee * ff)
  BY <1>4, SameSums
<1> DEFINE D == dd * ff
           E == ee * gg
           G == dd * gg
           F == ee * ff
<1>7. Same(df, D) /\ Same(eg, E) /\ Same(dg, G) /\ Same(ef, F)
  BY <1>1, <1>6 DEF Same
<1>8. D \in Int /\ E \in Int /\ G \in Int /\ F \in Int
  OBVIOUS
<1> HIDE DEF df, eg, dg, ef, egx, D, E, F, G
<1>9. Same(egx, E * x) /\ E * x = x * E /\ x * E \in Int
  <2>1. Same(x, x)
    BY DEF Same
  <2>2. Same(eg * x, E * x)
    BY <1>4, <1>5, <1>7, <1>8, <2>1, SameSums
  <2>3. E * x = x * E /\ x * E \in Int
    BY <1>4, <1>8
  <2> QED
    BY <1>2, <2>2, <2>3 DEF Same
<1> DEFINE H == x * E
<1>10. H \in Int /\ Same(egx, H)
  BY <1>9
<1> HIDE DEF H
<1>11. Same(df + egx, D + H) /\ Same(dg + ef, G + F)
  BY <1>5, <1>7, <1>8, <1>10, SameSums
<1>12. Same(Plus(df, egx), D + H) /\ Same(Plus(dg, ef), G + F)
  BY <1>3, <1>11 DEF Same
<1> QED
  BY <1>3, <1>12 DEF df, eg, dg, ef, egx, D, E, F, G, H

(* ml_kem_ntt_multiply of two transforms is the transform of the product. *)
LEMMA Multiplied ==
  ASSUME NEW v \in Polynomials, NEW w \in Polynomials, NEW p \in Polynomials, NEW r \in Polynomials,
         Transformed(v, p), Transformed(w, r)
  PROVE  Multiply(v, w) \in Polynomials /\ Transformed(Multiply(v, w), Schoolbook(p, r))
<1> DEFINE M == Multiply(v, w)
           S == Schoolbook(p, r)
<1>1. N = 2 * Half /\ Half \in Nat \ {0}
  BY DegreeFacts
<1>2. ASSUME NEW i \in 0 .. Half - 1
      PROVE  M[2 * i] \in Residues /\ M[2 * i + 1] \in Residues /\ PairOf(M, S, i)
  <2> DEFINE x == Gamma[i]
             d == v[2 * i]
             e == v[2 * i + 1]
             f == w[2 * i]
             g == w[2 * i + 1]
             dd == Even(p, x)
             ee == Odd(p, x)
             ff == Even(r, x)
             gg == Odd(r, x)
  <2>1. 2 * i \in Index /\ 2 * i + 1 \in Index /\ i \in Nat
    BY <1>1 DEF Index
  <2>2. x \in Residues /\ x \in Int /\ Same(Powers(x)[Half], -1)
    BY GammasAreRoots
  <2>3. Same(d, dd) /\ Same(e, ee) /\ Same(f, ff) /\ Same(g, gg)
    <3>1. Holds(v, p, Bits, i, 1) /\ Holds(w, r, Bits, i, 1)
      BY DEF Transformed
    <3>2. PairOf(v, p, i) /\ PairOf(w, r, i)
      BY <3>1, PairIsBlock
    <3> QED
      BY <3>2 DEF PairOf
  <2>4. d \in Residues /\ e \in Residues /\ f \in Residues /\ g \in Residues
    BY <2>1 DEF Polynomials
  <2>5. dd \in Int /\ ee \in Int /\ ff \in Int /\ gg \in Int
    <3> HIDE DEF x
    <3> QED
      BY <2>1, <2>2, ValuesAreNumbers
  <2>6. M[2 * i] = Plus(Times(d, f), Times(Times(e, g), x))
    <3>1. (2 * i) \div 2 = i /\ (2 * i) % 2 = 0
      BY <2>1
    <3> HIDE DEF x
    <3> QED
      BY <2>1, <3>1 DEF Multiply, x
  <2>7. M[2 * i + 1] = Plus(Times(d, g), Times(e, f))
    <3>1. (2 * i + 1) \div 2 = i /\ (2 * i + 1) % 2 # 0
      BY <2>1
    <3> QED
      BY <2>1, <3>1 DEF Multiply
  <2>8. /\ Same(Even(S, x), dd * ff + x * (ee * gg))
        /\ Same(Odd(S, x), dd * gg + ee * ff)
    <3> HIDE DEF x
    <3> QED
      BY <2>2, ProductValues
  <2> HIDE DEF d, e, f, g, x, dd, ee, ff, gg, M, S
  <2>9. /\ M[2 * i] \in Residues /\ Same(M[2 * i], dd * ff + x * (ee * gg))
        /\ M[2 * i + 1] \in Residues /\ Same(M[2 * i + 1], dd * gg + ee * ff)
    <3>1. /\ Plus(Times(d, f), Times(Times(e, g), x)) \in Residues
          /\ Same(Plus(Times(d, f), Times(Times(e, g), x)), dd * ff + x * (ee * gg))
          /\ Plus(Times(d, g), Times(e, f)) \in Residues
          /\ Same(Plus(Times(d, g), Times(e, f)), dd * gg + ee * ff)
      BY <2>2, <2>3, <2>4, <2>5, PairMultiplied, Zenon
    <3> QED
      BY <2>6, <2>7, <3>1, Zenon
  <2>10. Same(M[2 * i], Even(S, x)) /\ Same(M[2 * i + 1], Odd(S, x))
    BY <2>8, <2>9 DEF Same
  <2> QED
    BY <2>9, <2>10 DEF PairOf, x
<1>3. M \in Polynomials
  <2>1. ASSUME NEW k \in Index PROVE M[k] \in Residues
    <3> DEFINE i == k \div 2
    <3>1. i \in 0 .. Half - 1 /\ (k = 2 * i \/ k = 2 * i + 1)
      BY <1>1 DEF Index
    <3> HIDE DEF i, M
    <3> QED
      BY <1>2, <3>1
  <2>2. M = [k \in Index |-> M[k]]
    BY DEF Multiply
  <2> HIDE DEF M
  <2> QED
    BY <2>1, <2>2 DEF Polynomials
<1>4. S \in Polynomials
  <2>1. 0 \in Index
    BY <1>1 DEF Index
  <2> QED
    BY <2>1, SchoolbookIsProduct
<1> HIDE DEF M, S
<1>5. Transformed(M, S)
  BY <1>2, <1>4, PairIsBlock DEF Transformed
<1> QED
  BY <1>3, <1>5 DEF M, S

-----------------------------------------------------------------------------
(* The inverse transform. *)

(* Where an inverse transform to p is: at block s of level k, the pairs of
   blocks before it merged, the others not yet.  Every level doubles the
   weight, from 1 on the last to Half on the first. *)
BackwardAt(v, p, l, st, zi, k, s) ==
  /\ l = Size(k + 1) /\ st = s * Size(k) /\ zi = Count(k + 1) - 1 - s
  /\ \A c \in 0 .. s - 1 : Holds(v, p, k, c, Count(Bits - k))
  /\ \A c \in 2 * s .. Count(k + 1) - 1 : Holds(v, p, k + 1, c, Count(Bits - (k + 1)))

InBackward(v, p, l, st, zi) ==
  \/ l = N /\ Holds(v, p, 0, 0, Half)
  \/ \E k \in 0 .. Bits - 1 : \E s \in 0 .. Count(k) - 1 : BackwardAt(v, p, l, st, zi, k, s)

(* Block s of level k is one place an inverse transform can be. *)
LEMMA InBackwardAt ==
  ASSUME NEW k \in 0 .. Bits - 1, NEW s \in 0 .. Count(k) - 1, NEW v, NEW p, NEW l, NEW st, NEW zi,
         BackwardAt(v, p, l, st, zi, k, s)
  PROVE  InBackward(v, p, l, st, zi)
BY Zenon DEF InBackward

(* The weights of two levels. *)
LEMMA WeightDoubles ==
  ASSUME NEW k \in 0 .. Bits - 1
  PROVE  /\ Count(Bits - (k + 1)) \in Nat /\ Count(Bits - k) = 2 * Count(Bits - (k + 1))
         /\ Count(Bits - 0) = Half /\ Count(Bits - Bits) = 1
<1> DEFINE e == Bits - (k + 1)
<1>1. e \in 0 .. Bits /\ e + 1 = Bits - k /\ Bits - 0 = Bits /\ Bits - Bits = 0
  BY WidthIsPositive
<1> HIDE DEF e
<1>2. Splits(e)
  BY <1>1, LevelSplits
<1>3. Count(e) \in Nat /\ Count(e + 1) = 2 * Count(e)
  BY <1>2 DEF Splits
<1>4. Count(Bits) = Half /\ Count(0) = 1
  BY DegreeFacts
<1> QED
  BY <1>1, <1>3, <1>4 DEF e

(* Before its first turn ml_kem_inverse_ntt is at block 0 of the last level. *)
LEMMA BackwardStarts ==
  ASSUME NEW v, NEW p, Transformed(v, p)
  PROVE  InBackward(v, p, 2, 0, Half - 1)
<1> DEFINE k == Bits - 1
<1>1. k \in 0 .. Bits - 1 /\ k + 1 = Bits /\ k \in 0 .. Bits
  BY WidthIsPositive
<1> HIDE DEF k
<1>2. 0 \in 0 .. Count(k) - 1 /\ Size(k) \in Nat
  <2>1. Splits(k)
    BY <1>1, LevelSplits
  <2> DEFINE n == Count(k)
  <2>2. n \in Nat \ {0} /\ Size(k) \in Nat
    BY <2>1 DEF Splits
  <2> HIDE DEF n
  <2>3. 0 \in 0 .. n - 1
    BY <2>2
  <2> QED
    BY <2>2, <2>3 DEF n
<1>3. /\ Size(k + 1) = 2 /\ Count(k + 1) = Half /\ Half - 1 - 0 = Half - 1 /\ 2 * 0 = 0
      /\ 0 * Size(k) = 0
  BY <1>1, <1>2, DegreeFacts
<1>4. Count(Bits - (k + 1)) = 1
  BY <1>1, WeightDoubles
<1>5. \A c \in 0 .. 0 - 1 : Holds(v, p, k, c, Count(Bits - k))
  OBVIOUS
<1>6. \A c \in 2 * 0 .. Count(k + 1) - 1 : Holds(v, p, k + 1, c, Count(Bits - (k + 1)))
  BY <1>1, <1>3, <1>4 DEF Transformed
<1>7. BackwardAt(v, p, 2, 0, Half - 1, k, 0)
  BY <1>3, <1>5, <1>6 DEF BackwardAt
<1> QED
  BY <1>1, <1>2, <1>7, InBackwardAt

(* One turn of ml_kem_inverse_ntt. *)
LEMMA BackwardContinues ==
  ASSUME NEW v \in Polynomials, NEW p \in Polynomials, NEW l, NEW st, NEW zi, l <= Half,
         InBackward(v, p, l, st, zi), NEW W, W = InverseButterflies(v, st, l, Zeta[zi]),
         NEW l2, NEW st2, NextLoop(l, st, l * 2, l2, st2)
  PROVE  W \in Polynomials /\ InBackward(W, p, l2, st2, zi - 1)
<1>1. \E k \in 0 .. Bits - 1 : \E s \in 0 .. Count(k) - 1 : BackwardAt(v, p, l, st, zi, k, s)
  <2>1. l # N
    BY DegreeFacts
  <2> QED
    BY <2>1, Zenon DEF InBackward
<1>2. PICK k \in 0 .. Bits - 1 : \E s \in 0 .. Count(k) - 1 : BackwardAt(v, p, l, st, zi, k, s)
  BY <1>1, Zenon
<1>3. PICK s \in 0 .. Count(k) - 1 : BackwardAt(v, p, l, st, zi, k, s)
  BY <1>2
<1> DEFINE n == Count(k)
           at == s * Size(k)
           g == Count(Bits - (k + 1))
<1>4. /\ k \in Nat /\ k \in 0 .. Bits /\ k + 1 \in 0 .. Bits /\ s \in Nat /\ l \in Nat /\ at \in Nat
      /\ (2 * s) * l = at /\ Size(k) = 2 * l /\ l = Size(k + 1) /\ st = at /\ zi = Count(k + 1) - 1 - s
  BY <1>3, HalvesLieInBlock, WidthIsPositive DEF BackwardAt
<1>5. n \in Nat /\ Count(k + 1) = 2 * n /\ s \in 0 .. n - 1
  BY <1>4, LevelSplits DEF Splits
<1>6. g \in Int /\ Count(Bits - k) = 2 * g
  BY WeightDoubles
<1> HIDE DEF g
<1>7. Holds(v, p, k + 1, 2 * s, g) /\ Holds(v, p, k + 1, 2 * s + 1, g)
  <2>1. \A c \in 2 * s .. Count(k + 1) - 1 : Holds(v, p, k + 1, c, g)
    BY <1>3 DEF BackwardAt, g
  <2>2. 2 * s \in 2 * s .. Count(k + 1) - 1 /\ 2 * s + 1 \in 2 * s .. Count(k + 1) - 1
    <3> HIDE DEF n
    <3> QED
      BY <1>4, <1>5
  <2> QED
    BY <2>1, <2>2
<1>8. W \in Polynomials /\ Untouched(W, v, at, l) /\ Holds(W, p, k, s, 2 * g)
  <2>1. W = InverseButterflies(v, s * Size(k), Size(k + 1), Zeta[Count(k + 1) - 1 - s])
    BY <1>4
  <2> QED
    BY <1>4, <1>6, <1>7, <2>1, HalvesAreMerged
<1>9. \A c \in 0 .. s : Holds(W, p, k, c, Count(Bits - k))
  <2> TAKE c \in 0 .. s
  <2>1. CASE c = s
    BY <1>6, <1>8, <2>1
  <2>2. CASE c < s
    <3>1. c \in 0 .. s - 1 /\ c \in Nat
      BY <1>4, <2>2
    <3>2. Holds(v, p, k, c, Count(Bits - k))
      BY <1>3, <3>1 DEF BackwardAt
    <3>3. c * Size(k) + Size(k) <= at
      <4>1. Size(k) \in Nat
        BY <1>4
      <4> QED
        BY <1>4, <2>2, <3>1, <4>1, PlacesInOrder
    <3>4. c \in 0 .. Count(k) - 1
      <4>1. c \in 0 .. n - 1
        <5> HIDE DEF n
        <5> QED
          BY <1>5, <3>1, <2>2
      <4> QED
        BY <4>1
    <3> HIDE DEF at
    <3> QED
      BY <1>4, <1>8, <3>2, <3>3, <3>4, BlockStays
  <2>3. c < s \/ c = s
    BY <1>4
  <2> QED
    BY <2>1, <2>2, <2>3
<1>10. at + 2 * l < N <=> s + 1 < n
  <2>1. s * Size(k) + 2 * Size(k + 1) < N <=> s + 1 < Count(k)
    BY LastBlock
  <2> QED
    BY <1>4, <2>1
<1>11. at + 2 * l = (s + 1) * Size(k)
  <2>1. s * Size(k) + 2 * Size(k + 1) = (s + 1) * Size(k)
    BY LastBlock
  <2> QED
    BY <1>4, <2>1
<1>12. CASE s + 1 < n
  <2>1. \A c \in 2 * (s + 1) .. Count(k + 1) - 1 : Holds(W, p, k + 1, c, g)
    <3> TAKE c \in 2 * (s + 1) .. Count(k + 1) - 1
    <3>1. c \in 2 * s .. Count(k + 1) - 1 /\ c \in 0 .. Count(k + 1) - 1 /\ c \in Nat /\ 2 * s + 1 < c
      <4> HIDE DEF n
      <4> QED
        BY <1>4, <1>5
    <3>2. Holds(v, p, k + 1, c, g)
      BY <1>3, <3>1 DEF BackwardAt, g
    <3>3. c * Size(k + 1) >= at + 2 * l
      <4> DEFINE m == Size(k + 1)
                 d == 2 * s + 1
      <4>1. m \in Nat /\ m = l /\ d \in Nat /\ d < c
        BY <1>4, <3>1
      <4>2. d * l = at + l
        BY <1>4
      <4> HIDE DEF m, d
      <4>3. d * m + m <= c * m /\ d * m \in Nat /\ c * m \in Nat
        BY <3>1, <4>1, PlacesInOrder
      <4> DEFINE cm == c * m
                 dm == d * m
      <4>4. dm = at + l /\ dm + l <= cm /\ cm \in Nat
        BY <4>1, <4>2, <4>3
      <4> HIDE DEF cm, dm, at
      <4>5. cm >= at + 2 * l
        BY <1>4, <4>4
      <4> QED
        BY <4>5 DEF cm, m
    <3> HIDE DEF at
    <3> QED
      BY <1>4, <1>8, <3>1, <3>2, <3>3, BlockStays
  <2>2. s + 1 \in 0 .. n - 1
    <3> HIDE DEF n
    <3> QED
      BY <1>4, <1>5, <1>12
  <2>3. st2 = at + 2 * l /\ l2 = l
    BY <1>4, <1>10, <1>12 DEF NextLoop
  <2>4. zi - 1 = Count(k + 1) - 1 - (s + 1) /\ (s + 1) - 1 = s
    <3> HIDE DEF n
    <3> QED
      BY <1>4, <1>5
  <2>5. BackwardAt(W, p, l2, st2, zi - 1, k, s + 1)
    <3> HIDE DEF at
    <3> QED
      BY <1>4, <1>9, <1>11, <2>1, <2>3, <2>4 DEF BackwardAt, g
  <2> QED
    BY <1>8, <2>2, <2>5, InBackwardAt
<1>13. CASE s + 1 = n
  <2>1. st2 = 0 /\ l2 = Size(k)
    <3>1. ~(at + 2 * l < N)
      BY <1>10, <1>13, <1>5
    <3>2. st2 = 0 /\ l2 = l * 2
      BY <1>4, <3>1 DEF NextLoop
    <3>3. l * 2 = 2 * l
      BY <1>4
    <3> QED
      BY <1>4, <3>2, <3>3
  <2>2. n - 1 = s
    <3> HIDE DEF n
    <3> QED
      BY <1>4, <1>5, <1>13
  <2>3. CASE k = 0
    <3>1. l2 = N /\ Count(Bits - k) = Half
      BY <2>1, <2>3, DegreeFacts, WeightDoubles
    <3>2. 0 \in 0 .. s
      BY <1>4
    <3>3. Holds(W, p, 0, 0, Half)
      BY <1>9, <2>3, <3>1, <3>2
    <3> QED
      BY <1>8, <3>1, <3>3 DEF InBackward
  <2>4. CASE k # 0
    <3> DEFINE j == k - 1
    <3>1. j \in 0 .. Bits - 1 /\ j \in 0 .. Bits /\ j + 1 = k
      BY <1>4, <2>4, WidthIsPositive
    <3> HIDE DEF j
    <3>2. Size(j) \in Nat /\ Count(j) \in Nat \ {0} /\ Count(j + 1) = 2 * Count(j)
      BY <3>1, LevelSplits DEF Splits
    <3>3. 0 \in 0 .. Count(j) - 1
      <4> DEFINE h == Count(j)
      <4>1. h \in Nat \ {0}
        BY <3>2
      <4> HIDE DEF h
      <4>2. 0 \in 0 .. h - 1
        BY <4>1
      <4> QED
        BY <4>2 DEF h
    <3>4. \A c \in 2 * 0 .. Count(j + 1) - 1 : Holds(W, p, j + 1, c, Count(Bits - (j + 1)))
      <4>1. Count(j + 1) - 1 = s /\ 2 * 0 = 0
        BY <2>2, <3>1
      <4> QED
        BY <1>9, <3>1, <4>1
    <3>5. \A c \in 0 .. 0 - 1 : Holds(W, p, j, c, Count(Bits - j))
      OBVIOUS
    <3>6. l2 = Size(j + 1) /\ st2 = 0 * Size(j)
      BY <2>1, <3>1, <3>2
    <3>7. zi - 1 = Count(j + 1) - 1 - 0
      <4>1. Count(k + 1) - 1 - s - 1 = n - 1 - 0
        <5> HIDE DEF n
        <5> QED
          BY <1>4, <1>5, <1>13
      <4> QED
        BY <1>4, <3>1, <4>1
    <3>8. BackwardAt(W, p, l2, st2, zi - 1, j, 0)
      BY <3>4, <3>5, <3>6, <3>7 DEF BackwardAt
    <3> QED
      BY <1>8, <3>1, <3>3, <3>8, InBackwardAt
  <2> QED
    BY <2>3, <2>4
<1> QED
  BY <1>4, <1>5, <1>12, <1>13

(* When the loops are over the array holds Half times the polynomial. *)
LEMMA BackwardEnds ==
  ASSUME NEW v, NEW p, NEW l, NEW st, NEW zi, InBackward(v, p, l, st, zi), l > Half
  PROVE  Holds(v, p, 0, 0, Half)
<1>1. SUFFICES ASSUME NEW k \in 0 .. Bits - 1, NEW s \in 0 .. Count(k) - 1, BackwardAt(v, p, l, st, zi, k, s)
               PROVE  FALSE
  BY Zenon DEF InBackward
<1>2. l = Size(k + 1) /\ Size(k) = 2 * Size(k + 1) /\ Size(k + 1) \in Nat /\ Size(k) \in Nat /\ k \in 0 .. Bits
  BY <1>1, HalvesLieInBlock DEF BackwardAt
<1>3. 0 * Size(k) + Size(k) <= N
  <2>1. 0 \in 0 .. Count(k) - 1
    <3> DEFINE n == Count(k)
    <3>1. n \in Nat \ {0}
      BY <1>2, LevelSplits DEF Splits
    <3> HIDE DEF n
    <3>2. 0 \in 0 .. n - 1
      BY <3>1
    <3> QED
      BY <3>2 DEF n
  <2> QED
    BY <1>2, <2>1, BlocksLieInside
<1> DEFINE h == Half
           m == Size(k + 1)
<1>4. m \in Nat /\ h \in Nat /\ N = 2 * h /\ 2 * m <= N /\ m > h
  BY <1>1, <1>2, <1>3, DegreeFacts
<1> HIDE DEF h, m
<1> QED
  BY <1>4

(* The scaling undoes the weight. *)
LEMMA ScaledIsPolynomial ==
  ASSUME NEW v \in Polynomials, NEW p \in Polynomials, Holds(v, p, 0, 0, Half)
  PROVE  [k \in Index |-> Times(v[k], Scale)] = p
<1>1. ASSUME NEW k \in Index
      PROVE  Times(v[k], Scale) = p[k]
  <2> DEFINE x == v[k]
             y == p[k]
             h == Half
             c == Scale
  <2>1. Size(0) = N /\ h \in Int
    BY DegreeFacts
  <2>2. k \in 0 .. Size(0) - 1 /\ 0 * Size(0) + k = k
    BY <2>1, DegreeFacts DEF Index
  <2>3. BlockValue(p, 0, 0, k) = y /\ y \in Residues /\ y \in Int
    BY <2>2, WholeBlock
  <2>4. Same(x, h * y)
    BY <2>2, <2>3 DEF Holds
  <2>5. x \in Residues /\ x \in Int
    <3>1. x \in Residues
      BY DEF Polynomials
    <3> QED
      BY <3>1, ResiduesAreNumbers
  <2>6. c \in Residues /\ c \in Int
    <3>1. c \in Residues
      BY ConstantsAssumption DEF Residues
    <3> QED
      BY <3>1, ResiduesAreNumbers
  <2>7. Times(x, c) \in Residues /\ Same(Times(x, c), x * c)
    <3> HIDE DEF x, c
    <3> QED
      BY <2>5, <2>6, OperationsAreSame
  <2>8. Same(c * h, 1) /\ c * h \in Int
    <3>1. 1 % Q = 1
      BY ModulusIsPositive, ConstantsAssumption, SmallRemainder
    <3>2. (Scale * Half) % Q = 1
      BY RootAssumption
    <3>3. c * h \in Int
      <4> HIDE DEF c, h
      <4> QED
        BY <2>1, <2>6
    <3> QED
      BY <3>1, <3>2, <3>3 DEF Same
  <2> HIDE DEF x, y, h, c
  <2> DEFINE hy == h * y
             ch == c * h
  <2>9. hy \in Int /\ ch \in Int /\ hy * c = ch * y /\ 1 * y = y
    BY <2>1, <2>3, <2>6
  <2>10. Same(x * c, hy * c)
    <3>1. Same(c, c) /\ Same(x, hy)
      BY <2>4 DEF Same
    <3> HIDE DEF hy
    <3> QED
      BY <2>5, <2>6, <2>9, <3>1, SameSums
  <2>11. Same(ch * y, 1 * y)
    <3>1. Same(y, y) /\ Same(ch, 1)
      BY <2>8 DEF Same
    <3> HIDE DEF ch
    <3> QED
      BY <2>3, <2>9, <3>1, SameSums
  <2>12. Same(Times(x, c), y)
    BY <2>7, <2>9, <2>10, <2>11 DEF Same
  <2>13. Times(x, c) = y
    BY <2>3, <2>7, <2>12, SameResidues
  <2> QED
    BY <2>13 DEF x, y, c
<1>2. [k \in Index |-> Times(v[k], Scale)] = [k \in Index |-> p[k]]
  BY <1>1
<1>3. p = [k \in Index |-> p[k]]
  BY DEF Polynomials
<1> QED
  BY <1>2, <1>3

-----------------------------------------------------------------------------
Product == Schoolbook(a, b)

(* The inductive invariant of the inverse transform, on top of Splitting. *)
Merging ==
  /\ pc = "inverse" => coefficients \in Polynomials /\ InBackward(coefficients, Product, len, start, zeta_index)
  /\ pc = "product" => coefficients = Product

(* Merging holds initially. *)
LEMMA MergingStarts == Init => Merging
BY DEF Init, Merging

(* Every step keeps Merging, from a state where Splitting holds as well. *)
LEMMA MergingKept == Splitting /\ Merging /\ [Next]_vars => Merging'
<1> SUFFICES ASSUME Splitting, Merging, [Next]_vars PROVE Merging'
  OBVIOUS
<1>1. /\ a \in Polynomials /\ b \in Polynomials /\ a_hat \in Polynomials /\ b_hat \in Polynomials
  BY DEF Splitting
<1>2. Product \in Polynomials
  <2>1. 0 \in Index
    BY DegreeFacts DEF Index
  <2> QED
    BY <1>1, <2>1, SchoolbookIsProduct DEF Product
<1>3. CASE Forward \/ ForwardDone
  <2>1. pc' \in {"ntt_a", "ntt_b", "multiply"}
    BY <1>3 DEF Forward, ForwardDone
  <2> QED
    BY <2>1 DEF Merging
<1>4. CASE MultiplyHats
  <2>1. /\ pc = "multiply" /\ coefficients' = Multiply(a_hat, b_hat) /\ pc' = "inverse" /\ len' = 2
        /\ start' = 0 /\ zeta_index' = Half - 1 /\ UNCHANGED <<a, b>>
    BY <1>4 DEF MultiplyHats
  <2>2. Transformed(a_hat, a) /\ Transformed(b_hat, b)
    BY <2>1 DEF Splitting
  <2>3. coefficients' \in Polynomials /\ Transformed(coefficients', Product)
    BY <1>1, <2>1, <2>2, Multiplied DEF Product
  <2>4. InBackward(coefficients', Product, 2, 0, Half - 1)
    BY <2>3, BackwardStarts
  <2>5. Product' = Product
    BY <2>1 DEF Product
  <2> QED
    BY <2>1, <2>3, <2>4, <2>5 DEF Merging
<1>5. CASE Backward
  <2>1. /\ pc = "inverse" /\ len <= Half /\ NextBlock(len * 2) /\ zeta_index' = zeta_index - 1
        /\ coefficients' = InverseButterflies(coefficients, start, len, Zeta[zeta_index])
        /\ UNCHANGED <<a, b, pc>>
    BY <1>5 DEF Backward
  <2>2. coefficients \in Polynomials /\ InBackward(coefficients, Product, len, start, zeta_index)
    BY <2>1 DEF Merging
  <2>3. NextLoop(len, start, len * 2, len', start')
    BY <2>1 DEF NextBlock, NextLoop
  <2>4. coefficients' \in Polynomials /\ InBackward(coefficients', Product, len', start', zeta_index - 1)
    BY <1>2, <2>1, <2>2, <2>3, BackwardContinues
  <2>5. Product' = Product
    BY <2>1 DEF Product
  <2> QED
    BY <2>1, <2>4, <2>5 DEF Merging
<1>6. CASE ScaleResult
  <2>1. /\ pc = "inverse" /\ len > Half /\ pc' = "product" /\ UNCHANGED <<a, b>>
        /\ coefficients' = [k \in Index |-> Times(coefficients[k], Scale)]
    BY <1>6 DEF ScaleResult
  <2>2. coefficients \in Polynomials /\ InBackward(coefficients, Product, len, start, zeta_index)
    BY <2>1 DEF Merging
  <2>3. Holds(coefficients, Product, 0, 0, Half)
    BY <2>1, <2>2, BackwardEnds
  <2>4. coefficients' = Product
    BY <1>2, <2>1, <2>2, <2>3, ScaledIsPolynomial
  <2>5. Product' = Product
    BY <2>1 DEF Product
  <2> QED
    BY <2>1, <2>4, <2>5 DEF Merging
<1>7. CASE UNCHANGED vars
  <2>1. UNCHANGED <<a, b, pc, coefficients, len, start, zeta_index, a_hat, b_hat>>
    BY <1>7 DEF vars
  <2>2. Product' = Product
    BY <2>1 DEF Product
  <2> QED
    BY <2>1, <2>2 DEF Merging
<1> QED
  BY <1>3, <1>4, <1>5, <1>6, <1>7 DEF Next

(* Merging is an invariant of the specification. *)
LEMMA MergingHolds == Spec => []Merging
BY SplittingHolds, MergingStarts, MergingKept, PTL DEF Spec

(* Merging says what the product is. *)
LEMMA MergingShowsProduct == Merging => ProductIsSchoolbook
BY DEF Merging, ProductIsSchoolbook, Product

(* Multiplying through the transform is multiplying in Z_q[X]/(X^N + 1). *)
THEOREM TransformMultiplies == Spec => []ProductIsSchoolbook
BY MergingHolds, MergingShowsProduct, PTL
=============================================================================

-------------------------------- MODULE Ntt --------------------------------
(***************************************************************************)
(* The ML-KEM number-theoretic transform (cpp/include/pqcore/ntt.hpp):     *)
(* multiplication in Z_q[X]/(X^N + 1) by transforming both factors,        *)
(* multiplying in pairs and transforming back.  One step of a transform is *)
(* one turn of its loop over `start', with the inner loop over j: the      *)
(* butterflies of one turn touch disjoint pairs and share one zeta.        *)
(***************************************************************************)
EXTENDS Field, FiniteSets

CONSTANTS
  N,        \* degree; 256 in the code
  Root,     \* kMlKemNttRoot, a primitive N-th root of unity; 17 in the code
  Bits,     \* width of the bit reversal; 7 in the code, with N = 2^(Bits + 1)
  Scale,    \* kMlKemInverseNttScale, the inverse of N / 2; 3303 in the code
  Inputs    \* the pairs of polynomials multiplied

ASSUME ConstantsAssumption ==
  /\ Bits \in Nat \ {0} /\ N = 2^(Bits + 1) /\ Q \in Nat /\ Q > 2
  /\ Root \in 1 .. Q - 1 /\ Scale \in 1 .. Q - 1
  /\ Inputs \subseteq [0 .. N - 1 -> 0 .. Q - 1] \X [0 .. N - 1 -> 0 .. Q - 1]

VARIABLES
  a, b,           \* the factors, never modified
  pc,             \* "ntt_a", "ntt_b", "multiply", "inverse" or "product"
  coefficients,   \* the array of the transform under way
  len, start,     \* its loop variables
  zeta_index,     \* the next twiddle factor
  a_hat, b_hat    \* the transforms of a and b, once computed

vars == <<a, b, pc, coefficients, len, start, zeta_index, a_hat, b_hat>>

Index == 0 .. N - 1
Half  == N \div 2

-----------------------------------------------------------------------------
(* bit_reverse_7: Bits turns of result = 2 * result + (value & 1). *)
BitReverse(value) ==
  LET reversed[k \in 0 .. Bits] ==
        IF k = 0 THEN 0 ELSE 2 * reversed[k - 1] + ((value \div 2^(k - 1)) % 2)
  IN  reversed[Bits]

(* ml_kem_mod_pow: right-to-left square and multiply.  One turn of its loop,
   and the state after so many turns; it ends in no more than `exponent'. *)
Turn(t) ==
  IF t.exponent = 0 THEN t
  ELSE [exponent |-> t.exponent \div 2,
        factor   |-> (t.factor * t.factor) % Q,
        result   |-> IF t.exponent % 2 = 1 THEN (t.result * t.factor) % Q ELSE t.result]

ModPow(base, exponent) ==
  LET after[i \in 0 .. exponent] ==
        IF i = 0 THEN [exponent |-> exponent, factor |-> base % Q, result |-> 1]
        ELSE Turn(after[i - 1])
  IN  after[exponent].result

(* ml_kem_ntt_zeta and ml_kem_ntt_gamma; an index outside the domain throws. *)
Zeta  == [i \in 0 .. Half - 1 |-> ModPow(Root, BitReverse(i))]

GammaNoOdd == [i \in 0 .. Half - 1 |-> ModPow(Root, 2 * BitReverse(i))]

Gamma == [i \in 0 .. Half - 1 |-> ModPow(Root, 2 * BitReverse(i) + 1)]

(* What the constants are to each other: Root is a root of -1 of order Half and
   Scale undoes the doubling of the levels. *)
ASSUME RootAssumption == ModPow(Root, Half) = Q - 1 /\ (Scale * Half) % Q = 1

(* The inner loop over j of ml_kem_ntt at block `start'. *)
Butterflies(c, s, l, zeta) ==
  [k \in Index |->
     CASE k \in s .. s + l - 1 -> Plus(c[k], Times(zeta, c[k + l]))
       [] k \in s + l .. s + 2 * l - 1 -> Minus(c[k - l], Times(zeta, c[k]))
       [] OTHER -> c[k]]

(* The inner loop over j of ml_kem_inverse_ntt at block `start'. *)
InverseButterflies(c, s, l, zeta) ==
  [k \in Index |->
     CASE k \in s .. s + l - 1 -> Plus(c[k], c[k + l])
       [] k \in s + l .. s + 2 * l - 1 -> Times(zeta, Minus(c[k], c[k - l]))
       [] OTHER -> c[k]]

(* ml_kem_ntt_multiply: block i is a product modulo X^2 - Gamma[i]. *)
Multiply(lhs, rhs) ==
  [k \in Index |->
     LET i == k \div 2 IN
     IF k % 2 = 0
     THEN Plus(Times(lhs[2 * i], rhs[2 * i]),
               Times(Times(lhs[2 * i + 1], rhs[2 * i + 1]), Gamma[i]))
     ELSE Plus(Times(lhs[2 * i], rhs[2 * i + 1]), Times(lhs[2 * i + 1], rhs[2 * i]))]

-----------------------------------------------------------------------------
Init ==
  /\ \E pair \in Inputs : a = pair[1] /\ b = pair[2]
  /\ pc = "ntt_a" /\ coefficients = a
  /\ len = Half /\ start = 0 /\ zeta_index = 1
  /\ a_hat = a /\ b_hat = b

(* The loop headers: the next block of this level, or the next level. *)
NextBlock(next_len) ==
  IF start + 2 * len < N
  THEN start' = start + 2 * len /\ len' = len
  ELSE start' = 0 /\ len' = next_len

(* Where the index starts over: once for a transform, not once for a level. *)
ZetaPerLevel == IF start + 2 * len < N THEN zeta_index + 1 ELSE 1

ZetaAfter == zeta_index + 1

Forward ==
  /\ pc \in {"ntt_a", "ntt_b"} /\ len >= 2
  /\ coefficients' = Butterflies(coefficients, start, len, Zeta[zeta_index])
  /\ zeta_index' = ZetaAfter
  /\ NextBlock(len \div 2)
  /\ UNCHANGED <<a, b, pc, a_hat, b_hat>>

(* Both transforms of a product: the second starts from fresh loop variables. *)
ForwardDone ==
  /\ pc \in {"ntt_a", "ntt_b"} /\ len < 2
  /\ IF pc = "ntt_a"
     THEN /\ a_hat' = coefficients /\ coefficients' = b /\ pc' = "ntt_b"
          /\ len' = Half /\ zeta_index' = 1 /\ UNCHANGED b_hat
     ELSE /\ b_hat' = coefficients /\ pc' = "multiply"
          /\ UNCHANGED <<coefficients, len, zeta_index, a_hat>>
  /\ UNCHANGED <<a, b, start>>

MultiplyHats ==
  /\ pc = "multiply"
  /\ coefficients' = Multiply(a_hat, b_hat)
  /\ pc' = "inverse" /\ len' = 2 /\ start' = 0 /\ zeta_index' = Half - 1
  /\ UNCHANGED <<a, b, a_hat, b_hat>>

Backward ==
  /\ pc = "inverse" /\ len <= Half
  /\ coefficients' = InverseButterflies(coefficients, start, len, Zeta[zeta_index])
  /\ zeta_index' = zeta_index - 1
  /\ NextBlock(len * 2)
  /\ UNCHANGED <<a, b, pc, a_hat, b_hat>>

ScaleResult ==
  /\ pc = "inverse" /\ len > Half
  /\ coefficients' = [k \in Index |-> Times(coefficients[k], Scale)]
  /\ pc' = "product"
  /\ UNCHANGED <<a, b, len, start, zeta_index, a_hat, b_hat>>

Next == Forward \/ ForwardDone \/ MultiplyHats \/ Backward \/ ScaleResult

Spec == Init /\ [][Next]_vars

-----------------------------------------------------------------------------
(* f[0] + ... + f[n - 1] modulo Q. *)
ModSum(f, n) ==
  LET sum[i \in 0 .. n] == IF i = 0 THEN 0 ELSE (sum[i - 1] + f[i - 1]) % Q
  IN  sum[n]

(* Residue of polynomial p modulo X^m - root, coefficient t. *)
Residue(p, m, root, t) ==
  ModSum([j \in 0 .. (N \div m) - 1 |-> p[t + j * m] * ModPow(root, j)], N \div m)

(* Block number c of size m stands for Z_q[X]/(X^m - RootOf(m, c)): the two
   halves of a block split by zeta get the roots zeta and -zeta. *)
RootOf(m, c) ==
  IF m = N THEN Q - 1
  ELSE LET zeta == Zeta[(N \div (2 * m)) + (c \div 2)]
       IN  IF c % 2 = 0 THEN zeta ELSE Q - zeta

HoldsResidues(p, m, blocks) ==
  \A c \in blocks : \A t \in 0 .. m - 1 :
    coefficients[c * m + t] = Residue(p, m, RootOf(m, c), t)

(* The loop invariant of ml_kem_ntt: at every turn, the blocks already split
   hold the input's residues modulo X^len - root, and the rest its residues
   modulo X^(2 len) - root, where the roots are those of the one running
   zeta_index: in the end, residues modulo X^2 - Gamma[i], which is what
   ml_kem_ntt_multiply takes them for. *)
ChunksAreResidues ==
  pc \in {"ntt_a", "ntt_b"} =>
    LET p     == IF pc = "ntt_a" THEN a ELSE b
        split == start \div (2 * len)
    IN  IF len >= 2
        THEN /\ HoldsResidues(p, len, 0 .. 2 * split - 1)
             /\ HoldsResidues(p, 2 * len, split .. (N \div (2 * len)) - 1)
        ELSE /\ HoldsResidues(p, 2, 0 .. Half - 1)
             /\ \A i \in 0 .. Half - 1 : RootOf(2, i) = Gamma[i]

(* polynomial.hpp, schoolbook_mul_negacyclic: the definition of the product. *)
Schoolbook(p, r) ==
  [k \in Index |->
     ModSum([i \in Index |-> p[i] * (IF i <= k THEN r[k - i] ELSE Q - r[N + k - i])], N)]

(* Multiplying through the transform is multiplying in Z_q[X]/(X^N + 1). *)
ProductIsSchoolbook == pc = "product" => coefficients = Schoolbook(a, b)

=============================================================================

-------------------------- MODULE ApiBoundaryProofs --------------------------
(***************************************************************************)
(* The boundary of the library, whatever seeds callers use and however     *)
(* often they call: parameter sets are kept apart, and what a hook reads   *)
(* of a string is what was stored.  A part ends where the sizes up to it   *)
(* add up, so the offsets in the code cut between parts; no two sets have  *)
(* the same size in any column of the tables; and the sizes that pke.hpp   *)
(* writes out a second time are those of the table.  The invariant adds    *)
(* that every string made is laid out as its set and role say.             *)
(***************************************************************************)
EXTENDS ApiBoundary, NaturalFacts, SequenceTheorems, TLAPS

(* Ends adds sizes up. *)
LEMMA EndsUnfolds ==
  ASSUME NEW s, Len(s) \in Nat, \A i \in 1 .. Len(s) : s[i].size \in Nat
  PROVE  /\ Ends(s) \in [0 .. Len(s) -> Nat] /\ Ends(s)[0] = 0
         /\ \A i \in 1 .. Len(s) : Ends(s)[i] = Ends(s)[i - 1] + s[i].size
<1> DEFINE n == Len(s)
           step == [i \in 1 .. n |-> [v \in Nat |-> v + s[i].size]]
           Sum(f) == f = [i \in 0 .. Len(s) |-> IF i = 0 THEN 0 ELSE f[i - 1] + s[i].size]
           sum == CHOOSE f : Sum(f)
<1>1. n \in Nat /\ step \in [1 .. n -> [Nat -> Nat]]
  OBVIOUS
<1>2. PICK f \in [0 .. n -> Nat] : f[0] = 0 /\ \A i \in 1 .. n : f[i] = step[i][f[i - 1]]
  <2> HIDE DEF step, n
  <2>1. \E f \in [0 .. n -> Nat] : Recursive(f, n, 0, step)
    BY <1>1, RecursionExists
  <2> QED
    BY <2>1 DEF Recursive
<1>3. \A i \in 1 .. n : f[i] = f[i - 1] + s[i].size
  <2> TAKE i \in 1 .. n
  <2>1. f[i - 1] \in Nat
    <3> HIDE DEF n, step
    <3>1. i - 1 \in 0 .. n
      BY <1>1
    <3> QED
      BY <1>2, <3>1
  <2>2. step[i][f[i - 1]] = f[i - 1] + s[i].size
    BY <2>1
  <2> QED
    BY <1>2, <2>2
<1>4. Sum(f)
  <2>1. \A i \in 0 .. n : f[i] = IF i = 0 THEN 0 ELSE f[i - 1] + s[i].size
    BY <1>1, <1>2, <1>3
  <2> QED
    BY <1>2, <2>1
<1>5. Sum(sum)
  <2> HIDE DEF Sum
  <2> QED
    BY <1>4, Zenon
<1>6. Ends(s) = sum
  BY DEF Ends
<1> HIDE DEF sum
<1>7. /\ sum = [i \in 0 .. n |-> IF i = 0 THEN 0 ELSE sum[i - 1] + s[i].size]
      /\ DOMAIN sum = 0 .. n
  BY <1>5
<1> HIDE DEF Sum, step
<1>8. sum[0] = 0
  BY <1>1, <1>7
<1>9. \A i \in 1 .. n : sum[i] = sum[i - 1] + s[i].size
  <2> TAKE i \in 1 .. n
  <2>1. i \in 0 .. n /\ i # 0
    BY <1>1
  <2> QED
    BY <1>7, <2>1
<1> DEFINE T == {k \in Nat : k <= n => sum[k] \in Nat}
<1>10. 0 \in T
  BY <1>8
<1>11. ASSUME NEW k \in Nat, k \in T PROVE k + 1 \in T
  <2>1. CASE k + 1 <= n
    <3>1. k + 1 \in 1 .. n /\ (k + 1) - 1 = k /\ sum[k] \in Nat /\ s[k + 1].size \in Nat
      BY <1>1, <1>11, <2>1
    <3>2. sum[k + 1] = sum[k] + s[k + 1].size
      BY <1>9, <3>1
    <3> QED
      BY <3>1, <3>2
  <2> QED
    BY <2>1, <1>11
<1> HIDE DEF T
<1>12. Nat \subseteq T
  BY <1>10, <1>11, SetInduction
<1>13. \A k \in 0 .. n : sum[k] \in Nat
  BY <1>1, <1>12 DEF T
<1> QED
  BY <1>6, <1>7, <1>8, <1>9, <1>13

(* Each part ends after the one before. *)
LEMMA EndsIncrease ==
  ASSUME NEW s, Len(s) \in Nat, \A i \in 1 .. Len(s) : s[i].size \in Nat \ {0}
  PROVE  \A i, j \in 0 .. Len(s) : i < j => Ends(s)[i] < Ends(s)[j]
<1> DEFINE n == Len(s)
           e == Ends(s)
<1>1. /\ n \in Nat /\ e \in [0 .. n -> Nat]
      /\ \A i \in 1 .. n : e[i] = e[i - 1] + s[i].size
  BY EndsUnfolds
<1> HIDE DEF e
<1> SUFFICES ASSUME NEW i \in 0 .. n PROVE \A j \in 0 .. n : i < j => e[i] < e[j]
  BY DEF e
<1> DEFINE T == {k \in Nat : i < k /\ k <= n => e[i] < e[k]}
<1>2. 0 \in T
  OBVIOUS
<1>3. ASSUME NEW k \in Nat, k \in T PROVE k + 1 \in T
  <2> SUFFICES ASSUME i < k + 1, k + 1 <= n PROVE e[i] < e[k + 1]
    OBVIOUS
  <2>1. k + 1 \in 1 .. n /\ (k + 1) - 1 = k /\ k \in 0 .. n
    BY <1>1
  <2>2. e[k + 1] = e[k] + s[k + 1].size /\ s[k + 1].size \in Nat \ {0}
    BY <1>1, <2>1
  <2>3. e[i] \in Nat /\ e[k] \in Nat
    BY <1>1, <2>1
  <2>4. i = k \/ e[i] < e[k]
    BY <1>3, <2>1
  <2> QED
    BY <2>2, <2>3, <2>4
<1> HIDE DEF T
<1>4. Nat \subseteq T
  BY <1>2, <1>3, SetInduction
<1> QED
  BY <1>1, <1>4 DEF T

(* A cut of length bytes from offset on, around the parts from first to final. *)
CutAround(s, first, final, offset, length) ==
  /\ Len(s) \in Nat /\ \A i \in 1 .. Len(s) : s[i].size \in Nat \ {0}
  /\ first \in 1 .. Len(s) /\ final \in first .. Len(s)
  /\ offset = Ends(s)[first - 1] /\ length = Ends(s)[final] - offset

(* Cutting a string where its parts end gives the parts in between. *)
LEMMA SliceBetweenEnds ==
  ASSUME NEW s, NEW first, NEW final, NEW offset, NEW length,
         CutAround(s, first, final, offset, length)
  PROVE  Slice(s, offset, length) = SubSeq(s, first, final)
<1> DEFINE n == Len(s)
           e == Ends(s)
<1>0. /\ n \in Nat /\ \A i \in 1 .. n : s[i].size \in Nat \ {0}
      /\ first \in 1 .. n /\ final \in first .. n
      /\ offset = e[first - 1] /\ length = e[final] - offset
  BY DEF CutAround
<1>1. n \in Nat /\ e \in [0 .. n -> Nat]
  BY <1>0, EndsUnfolds
<1>2. \A i, j \in 0 .. n : i < j => e[i] < e[j]
  BY <1>0, EndsIncrease
<1>3. Size(s) = e[n] /\ \A at : Cuts(s, at) = {i \in 0 .. n : e[i] = at}
  BY DEF Size, Cuts
<1> HIDE DEF e
<1>4. first - 1 \in 0 .. n /\ final \in 0 .. n /\ n \in 0 .. n
  BY <1>0
<1>5. e[final] <= e[n] /\ offset + length = e[final] /\ offset = e[first - 1]
  <2>1. final = n \/ final < n
    BY <1>0
  <2>2. e[final] \in Nat /\ e[n] \in Nat /\ e[first - 1] \in Nat
    BY <1>1, <1>4
  <2>3. offset = e[first - 1] /\ length = e[final] - e[first - 1]
    BY <1>0
  <2> QED
    BY <1>2, <1>4, <2>1, <2>2, <2>3
<1>6. \A k \in 0 .. n : Cuts(s, e[k]) = {k}
  <2> TAKE k \in 0 .. n
  <2>1. ASSUME NEW i \in 0 .. n, e[i] = e[k] PROVE i = k
    <3>1. e[i] \in Nat /\ e[k] \in Nat
      BY <1>1
    <3>2. ~(i < k) /\ ~(k < i)
      BY <1>2, <2>1, <3>1
    <3> QED
      BY <1>1, <3>2
  <2> QED
    BY <1>3, <2>1
<1>7. Cuts(s, offset) = {first - 1} /\ Cuts(s, offset + length) = {final}
  BY <1>4, <1>5, <1>6
<1>8. ~(offset + length > Size(s))
  <2>1. e[final] \in Nat /\ e[n] \in Nat
    BY <1>1, <1>4
  <2> QED
    BY <1>3, <1>5, <2>1
<1> DEFINE from == CHOOSE i \in Cuts(s, offset) : TRUE
           to == CHOOSE i \in Cuts(s, offset + length) : TRUE
<1>9. Slice(s, offset, length) = SubSeq(s, from + 1, to)
  BY <1>7, <1>8 DEF Slice
<1>10. from = first - 1 /\ to = final
  BY <1>7
<1> HIDE DEF from, to
<1>11. from + 1 = first
  BY <1>0, <1>10
<1> QED
  BY <1>9, <1>10, <1>11

(* A slice cut around the parts that hold what is wanted is all of them. *)
LEMMA SliceIsAllOf ==
  ASSUME NEW s, NEW first, NEW final, NEW offset, NEW length, NEW things,
         CutAround(s, first, final, offset, length), DOMAIN s = 1 .. Len(s),
         \A i \in 1 .. Len(s) : s[i].what \in things <=> i \in first .. final
  PROVE  IsAllOf(Slice(s, offset, length), s, things)
<1>1. Slice(s, offset, length) = SubSeq(s, first, final)
  BY SliceBetweenEnds, Zenon
<1>2. {i \in DOMAIN s : s[i].what \in things} = first .. final
  BY DEF CutAround
<1>3. first \in DOMAIN s /\ final \in DOMAIN s
  BY DEF CutAround
<1> QED
  BY <1>1, <1>2, <1>3 DEF IsAllOf

-----------------------------------------------------------------------------
(* Bigger exponents, bigger powers. *)
LEMMA PowersIncrease == \A i, j \in 0 .. 30 : 2^i \in Nat /\ (i < j => 2^i < 2^j)
<1> DEFINE T == {k \in Nat : k <= 30 =>
                    2^k \in Nat \ {0} /\ \A i \in 0 .. k : i < k => 2^i < 2^k}
<1>1. 0 \in T
  BY PowersDouble
<1>2. ASSUME NEW k \in Nat, k \in T PROVE k + 1 \in T
  <2> SUFFICES ASSUME k + 1 <= 30
               PROVE  2^(k + 1) \in Nat \ {0} /\ \A i \in 0 .. k + 1 : i < k + 1 => 2^i < 2^(k + 1)
    OBVIOUS
  <2>1. 2^(k + 1) = 2 * 2^k
    BY PowersDouble, Zenon
  <2>2. 2^k \in Nat \ {0} /\ \A i \in 0 .. k : i < k => 2^i < 2^k
    BY <1>2
  <2>3. 2^k < 2^(k + 1) /\ 2^(k + 1) \in Nat \ {0}
    BY <2>1, <2>2
  <2>4. ASSUME NEW i \in 0 .. k + 1, i < k + 1 PROVE 2^i < 2^(k + 1)
    <3>1. CASE i = k
      BY <2>3, <3>1
    <3>2. CASE i < k
      <4>1. 2^i < 2^k
        BY <2>2, <3>2
      <4> QED
        BY <2>1, <2>2, <4>1, PowersDouble
    <3> QED
      BY <2>4, <3>1, <3>2
  <2> QED
    BY <2>3, <2>4
<1> HIDE DEF T
<1>3. Nat \subseteq T
  BY <1>1, <1>2, SetInduction
<1>4. \A k \in 0 .. 30 : 2^k \in Nat /\ \A i \in 0 .. k : i < k => 2^i < 2^k
  BY <1>3 DEF T
<1>5. ASSUME NEW i \in 0 .. 30, NEW j \in 0 .. 30 PROVE 2^i \in Nat /\ (i < j => 2^i < 2^j)
  <2>1. i < j => i \in 0 .. j
    OBVIOUS
  <2> QED
    BY <1>4, <2>1, Zenon
<1> QED
  BY <1>5, Zenon

(* ml_dsa_bit_length of a number between two powers. *)
LEMMA BitLengthOf ==
  ASSUME NEW bits \in 2 .. 30, NEW value \in Nat, 2^(bits - 1) <= value, value < 2^bits
  PROVE  BitLength(value) = bits
<1> DEFINE Fits(b) == value < 2^b /\ (b = 1 \/ value >= 2^(b - 1))
<1>1. bits \in 1 .. 30 /\ Fits(bits)
  BY PowersIncrease
<1>2. ASSUME NEW b \in 1 .. 30, Fits(b) PROVE b = bits
  <2>1. b - 1 \in 0 .. 30 /\ bits - 1 \in 0 .. 30 /\ b \in 0 .. 30 /\ bits \in 0 .. 30
    OBVIOUS
  <2>2. 2^b \in Nat /\ 2^bits \in Nat /\ 2^(b - 1) \in Nat /\ 2^(bits - 1) \in Nat
    BY <2>1, PowersIncrease
  <2>3. ~(b < bits)
    <3>1. SUFFICES ASSUME b < bits PROVE FALSE
      OBVIOUS
    <3>2. b = bits - 1 \/ 2^b < 2^(bits - 1)
      <4>1. b = bits - 1 \/ b < bits - 1
        BY <3>1
      <4> QED
        BY <2>1, <4>1, PowersIncrease, Zenon
    <3> QED
      BY <1>2, <2>2, <3>2
  <2>4. ~(bits < b)
    <3>1. SUFFICES ASSUME bits < b PROVE FALSE
      OBVIOUS
    <3>2. bits = b - 1 \/ 2^bits < 2^(b - 1)
      <4>1. bits = b - 1 \/ bits < b - 1
        BY <3>1
      <4> QED
        BY <2>1, <4>1, PowersIncrease, Zenon
    <3>3. b # 1 /\ value >= 2^(b - 1)
      BY <1>2, <3>1
    <3> QED
      BY <2>2, <3>2, <3>3
  <2> QED
    BY <2>3, <2>4
<1>3. BitLength(value) = CHOOSE b \in 1 .. 30 : Fits(b)
  BY DEF BitLength
<1> HIDE DEF Fits
<1> QED
  BY <1>1, <1>2, <1>3

(* The two gamma1 of ML-DSA. *)
LEMMA Gamma1Lengths == BitLength(2^17 - 1) = 17 /\ BitLength(2^19 - 1) = 19
<1>1. 2^17 = 2 * 2^16 /\ 2^19 = 2 * 2^18
  BY PowersDouble
<1>2. 2^16 \in Nat /\ 2^18 \in Nat /\ 2^16 >= 1 /\ 2^18 >= 1
  <2>1. 2^0 < 2^16 /\ 2^0 < 2^18 /\ 2^16 \in Nat /\ 2^18 \in Nat
    BY PowersIncrease
  <2> QED
    BY <2>1, PowersDouble
<1>3. BitLength(2^17 - 1) = 17
  <2>1. 2^17 - 1 \in Nat /\ 2^(17 - 1) <= 2^17 - 1 /\ 2^17 - 1 < 2^17
    BY <1>1, <1>2
  <2> QED
    BY <2>1, BitLengthOf
<1>4. BitLength(2^19 - 1) = 19
  <2>1. 2^19 - 1 \in Nat /\ 2^(19 - 1) <= 2^19 - 1 /\ 2^19 - 1 < 2^19
    BY <1>1, <1>2
  <2> QED
    BY <2>1, BitLengthOf
<1> QED
  BY <1>3, <1>4

(* The sizes that ML-DSA's signatures are put together from. *)
LEMMA SignatureSizes ==
  /\ ChallengeBytes(MlDsa.dsa44) = 32 /\ ResponseBytes(MlDsa.dsa44) = 2304 /\ HintBytes(MlDsa.dsa44) = 84
  /\ ChallengeBytes(MlDsa.dsa65) = 48 /\ ResponseBytes(MlDsa.dsa65) = 3200 /\ HintBytes(MlDsa.dsa65) = 61
  /\ ChallengeBytes(MlDsa.dsa87) = 64 /\ ResponseBytes(MlDsa.dsa87) = 4480 /\ HintBytes(MlDsa.dsa87) = 83
<1>1. /\ MlDsa.dsa44.gamma1 = 2^17 /\ MlDsa.dsa65.gamma1 = 2^19 /\ MlDsa.dsa87.gamma1 = 2^19
      /\ MlDsa.dsa44.l = 4 /\ MlDsa.dsa65.l = 5 /\ MlDsa.dsa87.l = 7
      /\ MlDsa.dsa44.k = 4 /\ MlDsa.dsa65.k = 6 /\ MlDsa.dsa87.k = 8
      /\ MlDsa.dsa44.omega = 80 /\ MlDsa.dsa65.omega = 55 /\ MlDsa.dsa87.omega = 75
      /\ MlDsa.dsa44.strength = 128 /\ MlDsa.dsa65.strength = 192 /\ MlDsa.dsa87.strength = 256
  BY DEF MlDsa, DsaRow
<1>2. /\ ChallengeBytes(MlDsa.dsa44) = 32 /\ ChallengeBytes(MlDsa.dsa65) = 48
      /\ ChallengeBytes(MlDsa.dsa87) = 64
  BY <1>1 DEF ChallengeBytes
<1>3. HintBytes(MlDsa.dsa44) = 84 /\ HintBytes(MlDsa.dsa65) = 61 /\ HintBytes(MlDsa.dsa87) = 83
  BY <1>1 DEF HintBytes
<1>4. ResponseBytes(MlDsa.dsa44) = 2304 /\ ResponseBytes(MlDsa.dsa65) = 3200 /\ ResponseBytes(MlDsa.dsa87) = 4480
  BY <1>1, Gamma1Lengths DEF ResponseBytes
<1> QED
  BY <1>2, <1>3, <1>4

-----------------------------------------------------------------------------
(* Tuples joined. *)
LEMMA JoinedTuples ==
  /\ \A a, b : <<a>> \o <<b>> = <<a, b>>
  /\ \A a, b, c : <<a>> \o <<b, c>> = <<a, b, c>>
  /\ \A a, b, c, d : <<a, b>> \o <<c, d>> = <<a, b, c, d>>
  /\ \A a, b, c, d, e : <<a, b, c>> \o <<d, e>> = <<a, b, c, d, e>>
<1>1. ASSUME NEW a, NEW b PROVE <<a>> \o <<b>> = <<a, b>>
  <2> DEFINE S == {a, b}
             s == <<a>>
             t == <<b>>
             w == s \o t
  <2>1. /\ s \in Seq(S) /\ Len(s) = 1 /\ s[1] = a
        /\ t \in Seq(S) /\ Len(t) = 1 /\ t[1] = b
    OBVIOUS
  <2> HIDE DEF S, s, t
  <2>2. /\ w \in Seq(S) /\ Len(w) = Len(s) + Len(t)
        /\ \A i \in 1 .. Len(s) + Len(t) : w[i] = IF i <= Len(s) THEN s[i] ELSE t[i - Len(s)]
    BY <2>1, ConcatProperties
  <2> HIDE DEF w
  <2>3. w \in Seq(S) /\ Len(w) = 2 /\ w[1] = a /\ w[2] = b
    BY <2>1, <2>2
  <2>4. w \in [1 .. 2 -> S]
    BY <2>3, LenProperties
  <2>5. w = <<a, b>>
    BY <2>3, <2>4
  <2> QED
    BY <2>5 DEF s, t, w
<1>2. ASSUME NEW a, NEW b, NEW c PROVE <<a>> \o <<b, c>> = <<a, b, c>>
  <2> DEFINE S == {a, b, c}
             s == <<a>>
             t == <<b, c>>
             w == s \o t
  <2>1. /\ s \in Seq(S) /\ Len(s) = 1 /\ s[1] = a
        /\ t \in Seq(S) /\ Len(t) = 2 /\ t[1] = b /\ t[2] = c
    OBVIOUS
  <2> HIDE DEF S, s, t
  <2>2. /\ w \in Seq(S) /\ Len(w) = Len(s) + Len(t)
        /\ \A i \in 1 .. Len(s) + Len(t) : w[i] = IF i <= Len(s) THEN s[i] ELSE t[i - Len(s)]
    BY <2>1, ConcatProperties
  <2> HIDE DEF w
  <2>3. w \in Seq(S) /\ Len(w) = 3 /\ w[1] = a /\ w[2] = b /\ w[3] = c
    BY <2>1, <2>2
  <2>4. w \in [1 .. 3 -> S]
    BY <2>3, LenProperties
  <2>5. w = <<a, b, c>>
    BY <2>3, <2>4
  <2> QED
    BY <2>5 DEF s, t, w
<1>3. ASSUME NEW a, NEW b, NEW c, NEW d PROVE <<a, b>> \o <<c, d>> = <<a, b, c, d>>
  <2> DEFINE S == {a, b, c, d}
             s == <<a, b>>
             t == <<c, d>>
             w == s \o t
  <2>1. /\ s \in Seq(S) /\ Len(s) = 2 /\ s[1] = a /\ s[2] = b
        /\ t \in Seq(S) /\ Len(t) = 2 /\ t[1] = c /\ t[2] = d
    OBVIOUS
  <2> HIDE DEF S, s, t
  <2>2. /\ w \in Seq(S) /\ Len(w) = Len(s) + Len(t)
        /\ \A i \in 1 .. Len(s) + Len(t) : w[i] = IF i <= Len(s) THEN s[i] ELSE t[i - Len(s)]
    BY <2>1, ConcatProperties
  <2> HIDE DEF w
  <2>3. w \in Seq(S) /\ Len(w) = 4 /\ w[1] = a /\ w[2] = b /\ w[3] = c /\ w[4] = d
    BY <2>1, <2>2
  <2>4. w \in [1 .. 4 -> S]
    BY <2>3, LenProperties
  <2>5. w = <<a, b, c, d>>
    BY <2>3, <2>4
  <2> QED
    BY <2>5 DEF s, t, w
<1>4. ASSUME NEW a, NEW b, NEW c, NEW d, NEW e PROVE <<a, b, c>> \o <<d, e>> = <<a, b, c, d, e>>
  <2> DEFINE S == {a, b, c, d, e}
             s == <<a, b, c>>
             t == <<d, e>>
             w == s \o t
  <2>1. /\ s \in Seq(S) /\ Len(s) = 3 /\ s[1] = a /\ s[2] = b /\ s[3] = c
        /\ t \in Seq(S) /\ Len(t) = 2 /\ t[1] = d /\ t[2] = e
    OBVIOUS
  <2> HIDE DEF S, s, t
  <2>2. /\ w \in Seq(S) /\ Len(w) = Len(s) + Len(t)
        /\ \A i \in 1 .. Len(s) + Len(t) : w[i] = IF i <= Len(s) THEN s[i] ELSE t[i - Len(s)]
    BY <2>1, ConcatProperties
  <2> HIDE DEF w
  <2>3. w \in Seq(S) /\ Len(w) = 5 /\ w[1] = a /\ w[2] = b /\ w[3] = c /\ w[4] = d /\ w[5] = e
    BY <2>1, <2>2
  <2>4. w \in [1 .. 5 -> S]
    BY <2>3, LenProperties
  <2>5. w = <<a, b, c, d, e>>
    BY <2>3, <2>4
  <2> QED
    BY <2>5 DEF s, t, w
<1> QED
  BY <1>1, <1>2, <1>3, <1>4

(* A slice of one part. *)
LEMMA SingleParts ==
  ASSUME NEW S, NEW s \in Seq(S), NEW i \in 1 .. Len(s)
  PROVE  SubSeq(s, i, i) = <<s[i]>>
<1>1. s[i] \in S /\ i \in Int
  BY ElementOfSeq
<1> DEFINE c == SubSeq(s, i, i)
<1>2. c \in Seq(S) /\ Len(c) = 1 /\ c[1] = s[i]
  <2>1. \A k \in i .. i : s[k] \in S
    BY <1>1
  <2>2. /\ SubSeq(s, i, i) \in Seq(S) /\ Len(SubSeq(s, i, i)) = IF i <= i THEN i - i + 1 ELSE 0
        /\ \A k \in 1 .. i - i + 1 : SubSeq(s, i, i)[k] = s[i + k - 1]
    BY <1>1, <2>1, SubSeqProperties
  <2>3. i <= i /\ i - i + 1 = 1 /\ i + 1 - 1 = i /\ 1 \in 1 .. 1
    BY <1>1
  <2> HIDE DEF c
  <2>4. /\ c \in Seq(S) /\ Len(c) = IF i <= i THEN i - i + 1 ELSE 0
        /\ \A k \in 1 .. i - i + 1 : c[k] = s[i + k - 1]
    BY <2>2 DEF c
  <2> QED
    BY <2>3, <2>4
<1> HIDE DEF c
<1>3. c \in [1 .. 1 -> S]
  BY <1>2, LenProperties
<1>4. c = <<s[i]>>
  BY <1>2, <1>3
<1> QED
  BY <1>4 DEF c

(* Ends of strings of few parts. *)
LEMMA EndsOfFew ==
  ASSUME NEW s, Len(s) \in Nat, \A i \in 1 .. Len(s) : s[i].size \in Nat
  PROVE  /\ Ends(s)[0] = 0 /\ Size(s) = Ends(s)[Len(s)]
         /\ Len(s) >= 1 => Ends(s)[1] = Ends(s)[0] + s[1].size
         /\ Len(s) >= 2 => Ends(s)[2] = Ends(s)[1] + s[2].size
         /\ Len(s) >= 3 => Ends(s)[3] = Ends(s)[2] + s[3].size
         /\ Len(s) >= 4 => Ends(s)[4] = Ends(s)[3] + s[4].size
         /\ Len(s) >= 5 => Ends(s)[5] = Ends(s)[4] + s[5].size
<1> DEFINE end == Ends(s)
<1>1. end[0] = 0 /\ \A i \in 1 .. Len(s) : end[i] = end[i - 1] + s[i].size
  BY EndsUnfolds
<1>2. Size(s) = end[Len(s)]
  BY DEF Size
<1> HIDE DEF end
<1>3. \A k \in 1 .. 5 : Len(s) >= k => k \in 1 .. Len(s)
  OBVIOUS
<1>4. \A k \in 1 .. 5 : Len(s) >= k => end[k] = end[k - 1] + s[k].size
  BY <1>1, <1>3, Zenon
<1>5. /\ Len(s) >= 1 => end[1] = end[0] + s[1].size
      /\ Len(s) >= 2 => end[2] = end[1] + s[2].size
      /\ Len(s) >= 3 => end[3] = end[2] + s[3].size
      /\ Len(s) >= 4 => end[4] = end[3] + s[4].size
      /\ Len(s) >= 5 => end[5] = end[4] + s[5].size
  BY <1>4
<1> QED
  BY <1>1, <1>2, <1>5 DEF end

-----------------------------------------------------------------------------
(* The strings the hooks make, whoever they belong to. *)
CiphertextOf(o) == <<Part("u", o, 640), Part("v", o, 128)>>

KemMade(o) ==
  {Bytes("public_key", "kem512", EncapsulationKey(o)),
   Bytes("pke_key", "kem512", DecryptionKey(o)),
   Bytes("secret_key", "kem512", DecapsulationKey(o)),
   Bytes("ciphertext", "kem512", CiphertextOf(o))}

DsaMade(set, o) ==
  {Bytes("public_key", set, DsaPublicKey(set, o)),
   Bytes("secret_key", set, DsaSecretKey(set, o)),
   Bytes("signature", set, SignatureOf(set, o))}

(* What `made` holds, in every state. *)
WellMade(s) == \E o : s \in KemMade(o) \/ \E set \in DsaSets : s \in DsaMade(set, o)

(* Parts side by side, given by what they hold and their sizes. *)
Laid(s, things, sizes) ==
  /\ Len(things) \in Nat /\ Len(s) = Len(things) /\ DOMAIN s = 1 .. Len(things)
  /\ \A i \in 1 .. Len(things) :
       s[i].what = things[i] /\ s[i].size = sizes[i] /\ s[i].size \in Nat \ {0}

(* The sizes that pke.hpp writes out agree with the table. *)
LEMMA WrittenTwice ==
  /\ kMlKem512PublicKeyBytes = MlKem.kem512.public_key
  /\ kMlKem512DecapsulationKeyBytes = MlKem.kem512.secret_key
  /\ kMlKem512CiphertextBytes = MlKem.kem512.ciphertext
  /\ kMlKem512SecretKeyBytes = MlKem.kem512.k * EncodedBytes(12)
BY DEF kMlKem512PublicKeyBytes, kMlKem512DecapsulationKeyBytes, kMlKem512CiphertextBytes,
       kMlKem512SecretKeyBytes, SeedBytes, MlKem, KemRow, EncodedBytes

(* The layouts of ML-KEM-512's strings. *)
LEMMA KemLayouts ==
  ASSUME NEW o
  PROVE  /\ Laid(EncapsulationKey(o), <<"t", "rho">>, <<768, 32>>)
         /\ Laid(DecryptionKey(o), <<"s">>, <<768>>)
         /\ Laid(DecapsulationKey(o), <<"s", "t", "rho", "h", "z">>, <<768, 768, 32, 32, 32>>)
         /\ Laid(CiphertextOf(o), <<"u", "v">>, <<640, 128>>)
<1>1. kMlKem512K * EncodedBytes(12) = 768 /\ SeedBytes = 32
  BY DEF kMlKem512K, EncodedBytes, SeedBytes
<1>2. EncapsulationKey(o) = <<Part("t", o, 768), Part("rho", o, 32)>>
  BY <1>1 DEF EncapsulationKey
<1>3. DecapsulationKey(o) = <<Part("s", o, 768), Part("t", o, 768), Part("rho", o, 32),
                              Part("h", o, 32), Part("z", o, 32)>>
  <2> DEFINE s == Part("s", o, 768)
             t == Part("t", o, 768)
             rho == Part("rho", o, 32)
             h == Part("h", o, 32)
             z == Part("z", o, 32)
  <2>1. DecapsulationKey(o) = (<<s>> \o <<t, rho>>) \o <<h, z>>
    BY <1>1, <1>2 DEF DecapsulationKey, DecryptionKey
  <2> HIDE DEF s, t, rho, h, z
  <2>2. <<s>> \o <<t, rho>> = <<s, t, rho>>
    BY JoinedTuples
  <2>3. <<s, t, rho>> \o <<h, z>> = <<s, t, rho, h, z>>
    BY JoinedTuples
  <2>4. DecapsulationKey(o) = <<s, t, rho, h, z>>
    BY <2>1, <2>2, <2>3, Zenon
  <2> QED
    BY <2>4, Zenon DEF s, t, rho, h, z
<1>4. Laid(EncapsulationKey(o), <<"t", "rho">>, <<768, 32>>)
  BY <1>2 DEF Laid, Part
<1>5. Laid(DecapsulationKey(o), <<"s", "t", "rho", "h", "z">>, <<768, 768, 32, 32, 32>>)
  BY <1>3 DEF Laid, Part
<1>6. Laid(CiphertextOf(o), <<"u", "v">>, <<640, 128>>)
  BY DEF Laid, Part, CiphertextOf
<1>7. Laid(DecryptionKey(o), <<"s">>, <<768>>)
  BY <1>1 DEF Laid, Part, DecryptionKey
<1> QED
  BY <1>4, <1>5, <1>6, <1>7

(* What the expansion is cut into. *)
LEMMA ExpandedSlices ==
  ASSUME NEW o
  PROVE  /\ Slice(Expanded(o), 0, SeedBytes) = <<Part("rho", o, 32)>>
         /\ Slice(Expanded(o), 96, SeedBytes) = <<Part("key", o, 32)>>
<1> DEFINE e == Expanded(o)
           S == {Part("rho", o, 32), Part("unused", o, 64), Part("key", o, 32)}
<1>1. /\ Len(e) = 3 /\ e[1] = Part("rho", o, 32) /\ e[2] = Part("unused", o, 64)
      /\ e[3] = Part("key", o, 32) /\ e \in Seq(S)
  BY DEF Expanded
<1>2. e[1].size = 32 /\ e[2].size = 64 /\ e[3].size = 32
  BY <1>1 DEF Part
<1> HIDE DEF e, S
<1>3. \A i \in 1 .. Len(e) : e[i].size \in Nat \ {0}
  BY <1>1, <1>2
<1>4. Ends(e)[0] = 0 /\ Ends(e)[1] = 32 /\ Ends(e)[2] = 96 /\ Ends(e)[3] = 128
  <2>1. /\ Ends(e)[0] = 0 /\ Ends(e)[1] = Ends(e)[0] + e[1].size
        /\ Ends(e)[2] = Ends(e)[1] + e[2].size /\ Ends(e)[3] = Ends(e)[2] + e[3].size
    <3>1. /\ Len(e) \in Nat /\ \A i \in 1 .. Len(e) : e[i].size \in Nat
          /\ Len(e) >= 1 /\ Len(e) >= 2 /\ Len(e) >= 3
      BY <1>1, <1>3
    <3> QED
      BY <3>1, EndsOfFew, Zenon
  <2> QED
    BY <1>2, <2>1
<1>5. Slice(e, 0, 32) = SubSeq(e, 1, 1)
  <2>1. CutAround(e, 1, 1, 0, 32)
    BY <1>1, <1>3, <1>4 DEF CutAround
  <2> QED
    BY <2>1, SliceBetweenEnds, Zenon
<1>6. Slice(e, 96, 32) = SubSeq(e, 3, 3)
  <2>1. CutAround(e, 3, 3, 96, 32)
    BY <1>1, <1>3, <1>4 DEF CutAround
  <2> QED
    BY <2>1, SliceBetweenEnds, Zenon
<1>7. SubSeq(e, 1, 1) = <<e[1]>> /\ SubSeq(e, 3, 3) = <<e[3]>>
  BY <1>1, SingleParts
<1> QED
  BY <1>1, <1>5, <1>6, <1>7 DEF e, SeedBytes

(* The tables of ML-KEM and ML-DSA, as numbers. *)
LEMMA KemTable ==
  /\ KemSets = {"kem512", "kem768", "kem1024"}
  /\ MlKem.kem512.k * EncodedBytes(12) = 768 /\ MlKem.kem768.k * EncodedBytes(12) = 1152
  /\ MlKem.kem1024.k * EncodedBytes(12) = 1536
  /\ MlKem.kem512.public_key = 800 /\ MlKem.kem512.secret_key = 1632 /\ MlKem.kem512.ciphertext = 768
  /\ MlKem.kem768.public_key = 1184 /\ MlKem.kem768.secret_key = 2400 /\ MlKem.kem768.ciphertext = 1088
  /\ MlKem.kem1024.public_key = 1568 /\ MlKem.kem1024.secret_key = 3168 /\ MlKem.kem1024.ciphertext = 1568
BY DEF KemSets, MlKem, KemRow, EncodedBytes

(* The sizes the tables give ML-DSA. *)
LEMMA DsaTable ==
  /\ DsaSets = {"dsa44", "dsa65", "dsa87"}
  /\ MlDsa.dsa44.public_key = 1312 /\ MlDsa.dsa44.secret_key = 2560 /\ MlDsa.dsa44.signature = 2420
  /\ MlDsa.dsa65.public_key = 1952 /\ MlDsa.dsa65.secret_key = 4032 /\ MlDsa.dsa65.signature = 3309
  /\ MlDsa.dsa87.public_key = 2592 /\ MlDsa.dsa87.secret_key = 4896 /\ MlDsa.dsa87.signature = 4627
BY DEF DsaSets, MlDsa, DsaRow

(* Every set's row adds up: what is left for a key's body, and the parts of a signature. *)
LEMMA DsaRows ==
  ASSUME NEW set \in DsaSets
  PROVE  /\ MlDsa[set].public_key - 32 \in Nat \ {0} /\ MlDsa[set].secret_key - 128 \in Nat \ {0}
         /\ MlDsa[set].public_key \in Nat /\ MlDsa[set].secret_key \in Nat
         /\ ChallengeBytes(MlDsa[set]) \in Nat \ {0} /\ ResponseBytes(MlDsa[set]) \in Nat \ {0}
         /\ HintBytes(MlDsa[set]) \in Nat \ {0}
         /\ ChallengeBytes(MlDsa[set]) + ResponseBytes(MlDsa[set]) + HintBytes(MlDsa[set])
               = MlDsa[set].signature
<1>1. CASE set = "dsa44"
  BY <1>1, DsaTable, SignatureSizes
<1>2. CASE set = "dsa65"
  BY <1>2, DsaTable, SignatureSizes
<1>3. CASE set = "dsa87"
  BY <1>3, DsaTable, SignatureSizes
<1> QED
  BY <1>1, <1>2, <1>3, DsaTable

(* The layouts of ML-DSA's strings. *)
LEMMA DsaLayouts ==
  ASSUME NEW set \in DsaSets, NEW o
  PROVE  /\ Laid(DsaPublicKey(set, o), <<"rho", "body">>, <<32, MlDsa[set].public_key - 32>>)
         /\ Laid(DsaSecretKey(set, o), <<"rho", "key", "tr", "body">>,
                 <<32, 32, 64, MlDsa[set].secret_key - 128>>)
         /\ Laid(SignatureOf(set, o), <<"challenge", "response", "hint">>,
                 <<ChallengeBytes(MlDsa[set]), ResponseBytes(MlDsa[set]), HintBytes(MlDsa[set])>>)
<1> DEFINE rho == Part("rho", o, 32)
           key == Part("key", o, 32)
           tr == Part("tr", o, 64)
           pkbody == Part("body", o, MlDsa[set].public_key - 32)
           skbody == Part("body", o, MlDsa[set].secret_key - 128)
<1>1. DsaPublicKey(set, o) = <<rho>> \o <<pkbody>>
  BY ExpandedSlices DEF DsaPublicKey, SeedBytes
<1>2. DsaSecretKey(set, o) = (<<rho>> \o <<key>>) \o <<tr, skbody>>
  <2>1. MlDsa[set].secret_key - (2 * SeedBytes + PublicKeyHashBytes) = MlDsa[set].secret_key - 128
    BY DEF SeedBytes, PublicKeyHashBytes
  <2> QED
    BY <2>1, ExpandedSlices DEF DsaSecretKey, PublicKeyHashBytes
<1>3. /\ rho.what = "rho" /\ rho.size = 32 /\ key.what = "key" /\ key.size = 32
      /\ tr.what = "tr" /\ tr.size = 64
      /\ pkbody.what = "body" /\ pkbody.size = MlDsa[set].public_key - 32
      /\ skbody.what = "body" /\ skbody.size = MlDsa[set].secret_key - 128
  BY DEF Part
<1> HIDE DEF rho, key, tr, pkbody, skbody
<1>4. DsaPublicKey(set, o) = <<rho, pkbody>>
  BY <1>1, JoinedTuples
<1>5. DsaSecretKey(set, o) = <<rho, key, tr, skbody>>
  <2>1. <<rho>> \o <<key>> = <<rho, key>>
    BY JoinedTuples
  <2>2. <<rho, key>> \o <<tr, skbody>> = <<rho, key, tr, skbody>>
    BY JoinedTuples
  <2> QED
    BY <1>2, <2>1, <2>2, Zenon
<1>6. Laid(DsaPublicKey(set, o), <<"rho", "body">>, <<32, MlDsa[set].public_key - 32>>)
  BY <1>3, <1>4, DsaRows DEF Laid
<1>7. Laid(DsaSecretKey(set, o), <<"rho", "key", "tr", "body">>,
           <<32, 32, 64, MlDsa[set].secret_key - 128>>)
  BY <1>3, <1>5, DsaRows DEF Laid
<1>8. Laid(SignatureOf(set, o), <<"challenge", "response", "hint">>,
           <<ChallengeBytes(MlDsa[set]), ResponseBytes(MlDsa[set]), HintBytes(MlDsa[set])>>)
  BY DsaRows DEF Laid, SignatureOf, Part
<1> QED
  BY <1>6, <1>7, <1>8

(* Where the parts of strings laid out in two, three, four or five parts end. *)
LEMMA LaidEnds ==
  ASSUME NEW s, NEW things, NEW sizes, Laid(s, things, sizes)
  PROVE  /\ Len(s) = Len(things) /\ DOMAIN s = 1 .. Len(s)
         /\ \A i \in 1 .. Len(s) :
              s[i].size \in Nat \ {0} /\ s[i].size = sizes[i] /\ s[i].what = things[i]
         /\ Ends(s)[0] = 0 /\ Size(s) = Ends(s)[Len(s)]
         /\ Len(s) >= 1 => Ends(s)[1] = sizes[1]
         /\ Len(s) >= 2 => Ends(s)[2] = sizes[1] + sizes[2]
         /\ Len(s) >= 3 => Ends(s)[3] = sizes[1] + sizes[2] + sizes[3]
         /\ Len(s) >= 4 => Ends(s)[4] = sizes[1] + sizes[2] + sizes[3] + sizes[4]
         /\ Len(s) >= 5 => Ends(s)[5] = sizes[1] + sizes[2] + sizes[3] + sizes[4] + sizes[5]
<1>1. /\ Len(s) = Len(things) /\ DOMAIN s = 1 .. Len(s) /\ Len(s) \in Nat
      /\ \A i \in 1 .. Len(s) :
           s[i].size \in Nat \ {0} /\ s[i].size = sizes[i] /\ s[i].what = things[i]
  BY DEF Laid
<1>2. /\ Ends(s)[0] = 0 /\ Size(s) = Ends(s)[Len(s)]
      /\ Len(s) >= 1 => Ends(s)[1] = Ends(s)[0] + s[1].size
      /\ Len(s) >= 2 => Ends(s)[2] = Ends(s)[1] + s[2].size
      /\ Len(s) >= 3 => Ends(s)[3] = Ends(s)[2] + s[3].size
      /\ Len(s) >= 4 => Ends(s)[4] = Ends(s)[3] + s[4].size
      /\ Len(s) >= 5 => Ends(s)[5] = Ends(s)[4] + s[5].size
  <2>1. \A i \in 1 .. Len(s) : s[i].size \in Nat
    BY <1>1
  <2> QED
    BY <1>1, <2>1, EndsOfFew, Zenon
<1>3. Len(s) >= 1 => Ends(s)[1] = sizes[1]
  BY <1>1, <1>2
<1>4. Len(s) >= 2 => Ends(s)[2] = sizes[1] + sizes[2]
  BY <1>1, <1>2, <1>3
<1>5. Len(s) >= 3 => Ends(s)[3] = sizes[1] + sizes[2] + sizes[3]
  BY <1>1, <1>2, <1>4
<1>6. Len(s) >= 4 => Ends(s)[4] = sizes[1] + sizes[2] + sizes[3] + sizes[4]
  BY <1>1, <1>2, <1>5
<1>7. Len(s) >= 5 => Ends(s)[5] = sizes[1] + sizes[2] + sizes[3] + sizes[4] + sizes[5]
  BY <1>1, <1>2, <1>6
<1> QED
  BY <1>1, <1>2, <1>3, <1>4, <1>5, <1>6, <1>7

-----------------------------------------------------------------------------
(* A string has the size the tables give its role and set. *)
RightSize(s) ==
  \/ /\ s.set \in KemSets /\ s.role \in {"public_key", "secret_key", "ciphertext"}
     /\ Size(s.parts) = MlKem[s.set][s.role]
  \/ /\ s.set \in KemSets /\ s.role = "pke_key"
     /\ Size(s.parts) = MlKem[s.set].k * EncodedBytes(12)
  \/ /\ s.set \in DsaSets /\ s.role \in {"public_key", "secret_key", "signature"}
     /\ Size(s.parts) = MlDsa[s.set][s.role]

(* The strings have the sizes that the tables, and so the checks, give. *)
LEMMA KemSizes ==
  ASSUME NEW o
  PROVE  /\ Size(EncapsulationKey(o)) = 800 /\ Size(DecapsulationKey(o)) = 1632
         /\ Size(CiphertextOf(o)) = 768 /\ Size(DecryptionKey(o)) = 768
<1>1. Size(EncapsulationKey(o)) = 800
  <2> DEFINE s == EncapsulationKey(o)
  <2>1. Laid(s, <<"t", "rho">>, <<768, 32>>)
    BY KemLayouts
  <2> HIDE DEF s
  <2>2. Size(s) = Ends(s)[Len(s)] /\ Len(s) = 2 /\ (Len(s) >= 2 => Ends(s)[2] = 768 + 32)
    BY <2>1, LaidEnds
  <2> QED
    BY <2>2 DEF s
<1>2. Size(DecapsulationKey(o)) = 1632
  <2> DEFINE s == DecapsulationKey(o)
  <2>1. Laid(s, <<"s", "t", "rho", "h", "z">>, <<768, 768, 32, 32, 32>>)
    BY KemLayouts
  <2> HIDE DEF s
  <2>2. Size(s) = Ends(s)[Len(s)] /\ Len(s) = 5 /\ (Len(s) >= 5 => Ends(s)[5] = 768 + 768 + 32 + 32 + 32)
    BY <2>1, LaidEnds
  <2> QED
    BY <2>2 DEF s
<1>3. Size(CiphertextOf(o)) = 768
  <2> DEFINE s == CiphertextOf(o)
  <2>1. Laid(s, <<"u", "v">>, <<640, 128>>)
    BY KemLayouts
  <2> HIDE DEF s
  <2>2. Size(s) = Ends(s)[Len(s)] /\ Len(s) = 2 /\ (Len(s) >= 2 => Ends(s)[2] = 640 + 128)
    BY <2>1, LaidEnds
  <2> QED
    BY <2>2 DEF s
<1>4. Size(DecryptionKey(o)) = 768
  <2> DEFINE s == DecryptionKey(o)
             sizes == <<768>>
  <2>1. Laid(s, <<"s">>, sizes)
    BY KemLayouts
  <2>2. sizes[1] = 768
    OBVIOUS
  <2> HIDE DEF s, sizes
  <2>3. Size(s) = Ends(s)[Len(s)] /\ Len(s) = 1 /\ (Len(s) >= 1 => Ends(s)[1] = sizes[1])
    BY <2>1, LaidEnds
  <2> QED
    BY <2>2, <2>3 DEF s
<1> QED
  BY <1>1, <1>2, <1>3, <1>4

(* The strings of ML-DSA are as long as the tables say. *)
LEMMA DsaSizes ==
  ASSUME NEW set \in DsaSets, NEW o
  PROVE  /\ Size(DsaPublicKey(set, o)) = MlDsa[set].public_key
         /\ Size(DsaSecretKey(set, o)) = MlDsa[set].secret_key
         /\ Size(SignatureOf(set, o)) = MlDsa[set].signature
<1> DEFINE pk == MlDsa[set].public_key
           sk == MlDsa[set].secret_key
           c == ChallengeBytes(MlDsa[set])
           r == ResponseBytes(MlDsa[set])
           h == HintBytes(MlDsa[set])
<1>1. /\ pk - 32 \in Nat \ {0} /\ sk - 128 \in Nat \ {0} /\ pk \in Nat /\ sk \in Nat
      /\ c \in Nat \ {0} /\ r \in Nat \ {0} /\ h \in Nat \ {0} /\ c + r + h = MlDsa[set].signature
  BY DsaRows
<1>2. Size(DsaPublicKey(set, o)) = pk
  <2> DEFINE s == DsaPublicKey(set, o)
             body == pk - 32
             things == <<"rho", "body">>
             sizes == <<32, body>>
  <2>1. Laid(s, things, sizes)
    BY DsaLayouts
  <2> HIDE DEF s, body
  <2>2. body \in Nat \ {0} /\ body = pk - 32
    BY <1>1 DEF body
  <2>3. /\ Len(things) = 2 /\ sizes[1] = 32 /\ sizes[2] = body
    OBVIOUS
  <2> HIDE DEF things, sizes
  <2>4. /\ Size(s) = Ends(s)[Len(s)] /\ Len(s) = Len(things)
        /\ Len(s) >= 2 => Ends(s)[2] = sizes[1] + sizes[2]
    BY <2>1, LaidEnds
  <2> QED
    BY <1>1, <2>2, <2>3, <2>4 DEF s
<1>3. Size(DsaSecretKey(set, o)) = sk
  <2> DEFINE s == DsaSecretKey(set, o)
             body == sk - 128
             things == <<"rho", "key", "tr", "body">>
             sizes == <<32, 32, 64, body>>
  <2>1. Laid(s, things, sizes)
    BY DsaLayouts
  <2> HIDE DEF s, body
  <2>2. body \in Nat \ {0} /\ body = sk - 128
    BY <1>1 DEF body
  <2>3. /\ Len(things) = 4 /\ sizes[1] = 32 /\ sizes[2] = 32 /\ sizes[3] = 64 /\ sizes[4] = body
    OBVIOUS
  <2> HIDE DEF things, sizes
  <2>4. /\ Size(s) = Ends(s)[Len(s)] /\ Len(s) = Len(things)
        /\ Len(s) >= 4 => Ends(s)[4] = sizes[1] + sizes[2] + sizes[3] + sizes[4]
    BY <2>1, LaidEnds
  <2> QED
    BY <1>1, <2>2, <2>3, <2>4 DEF s
<1>4. Size(SignatureOf(set, o)) = MlDsa[set].signature
  <2> DEFINE s == SignatureOf(set, o)
             things == <<"challenge", "response", "hint">>
             sizes == <<c, r, h>>
  <2>1. Laid(s, things, sizes)
    BY DsaLayouts
  <2> HIDE DEF s, c, r, h
  <2>2. /\ Len(things) = 3 /\ sizes[1] = c /\ sizes[2] = r /\ sizes[3] = h
    OBVIOUS
  <2> HIDE DEF things, sizes
  <2>3. /\ Size(s) = Ends(s)[Len(s)] /\ Len(s) = Len(things)
        /\ Len(s) >= 3 => Ends(s)[3] = sizes[1] + sizes[2] + sizes[3]
    BY <2>1, LaidEnds
  <2> QED
    BY <1>1, <2>2, <2>3 DEF s
<1> QED
  BY <1>2, <1>3, <1>4

(* What hooks make has the right size, and so do the harness's placeholders. *)
LEMMA MadeHasRightSize == ASSUME NEW s, WellMade(s) PROVE RightSize(s)
<1>1. PICK o : s \in KemMade(o) \/ \E set \in DsaSets : s \in DsaMade(set, o)
  BY DEF WellMade
<1>2. CASE s \in KemMade(o)
  <2>1. CASE s = Bytes("public_key", "kem512", EncapsulationKey(o))
    BY <2>1, KemSizes, KemTable DEF RightSize, Bytes
  <2>2. CASE s = Bytes("secret_key", "kem512", DecapsulationKey(o))
    BY <2>2, KemSizes, KemTable DEF RightSize, Bytes
  <2>3. CASE s = Bytes("ciphertext", "kem512", CiphertextOf(o))
    BY <2>3, KemSizes, KemTable DEF RightSize, Bytes
  <2>4. CASE s = Bytes("pke_key", "kem512", DecryptionKey(o))
    BY <2>4, KemSizes, KemTable DEF RightSize, Bytes
  <2> QED
    BY <1>2, <2>1, <2>2, <2>3, <2>4 DEF KemMade
<1>3. ASSUME NEW set \in DsaSets, s \in DsaMade(set, o) PROVE RightSize(s)
  <2>1. CASE s = Bytes("public_key", set, DsaPublicKey(set, o))
    BY <2>1, DsaSizes DEF RightSize, Bytes
  <2>2. CASE s = Bytes("secret_key", set, DsaSecretKey(set, o))
    BY <2>2, DsaSizes DEF RightSize, Bytes
  <2>3. CASE s = Bytes("signature", set, SignatureOf(set, o))
    BY <2>3, DsaSizes DEF RightSize, Bytes
  <2> QED
    BY <1>3, <2>1, <2>2, <2>3 DEF DsaMade
<1> QED
  BY <1>1, <1>2, <1>3

(* The harness fills its placeholders up to the sizes in the tables. *)
LEMMA PlaceholdersHaveRightSize ==
  ASSUME NEW s \in Placeholders
  PROVE  RightSize(s) /\ \E size : s.parts = <<Part("zeros", "none", size)>>
<1>1. ASSUME NEW role, NEW set, NEW size \in Nat
      PROVE  /\ Zeros(role, set, size).role = role /\ Zeros(role, set, size).set = set
             /\ Zeros(role, set, size).parts = <<Part("zeros", "none", size)>>
             /\ Size(Zeros(role, set, size).parts) = size
  <2> DEFINE parts == <<Part("zeros", "none", size)>>
  <2>1. Zeros(role, set, size) = [role |-> role, set |-> set, parts |-> parts]
    BY DEF Zeros, Bytes
  <2>2. Len(parts) = 1 /\ parts[1].size = size
    BY DEF Part
  <2> HIDE DEF parts
  <2>3. Len(parts) \in Nat /\ Len(parts) >= 1 /\ \A i \in 1 .. Len(parts) : parts[i].size \in Nat
    BY <2>2
  <2>4. Ends(parts)[0] = 0 /\ Size(parts) = Ends(parts)[Len(parts)] /\ Ends(parts)[1] = Ends(parts)[0] + parts[1].size
    BY <2>3, EndsOfFew, Zenon
  <2>5. Size(parts) = size
    BY <2>2, <2>4
  <2>6. Zeros(role, set, size).parts = parts
    BY <2>1
  <2> QED
    BY <2>1, <2>5, <2>6 DEF parts
<1>2. CASE \E set \in KemSets : s \in {Zeros("public_key", set, MlKem[set].public_key),
          Zeros("secret_key", set, MlKem[set].secret_key), Zeros("ciphertext", set, MlKem[set].ciphertext),
          Zeros("pke_key", set, MlKem[set].k * EncodedBytes(12))}
  <2>1. PICK set \in KemSets : s \in {Zeros("public_key", set, MlKem[set].public_key),
          Zeros("secret_key", set, MlKem[set].secret_key), Zeros("ciphertext", set, MlKem[set].ciphertext),
          Zeros("pke_key", set, MlKem[set].k * EncodedBytes(12))}
    BY <1>2
  <2>2. /\ MlKem[set].public_key \in Nat /\ MlKem[set].secret_key \in Nat /\ MlKem[set].ciphertext \in Nat
        /\ MlKem[set].k * EncodedBytes(12) \in Nat
    BY KemTable
  <2>3. CASE s = Zeros("public_key", set, MlKem[set].public_key)
    BY <1>1, <2>2, <2>3 DEF RightSize
  <2>4. CASE s = Zeros("secret_key", set, MlKem[set].secret_key)
    BY <1>1, <2>2, <2>4 DEF RightSize
  <2>5. CASE s = Zeros("ciphertext", set, MlKem[set].ciphertext)
    BY <1>1, <2>2, <2>5 DEF RightSize
  <2>6. CASE s = Zeros("pke_key", set, MlKem[set].k * EncodedBytes(12))
    BY <1>1, <2>2, <2>6 DEF RightSize
  <2> QED
    BY <2>1, <2>3, <2>4, <2>5, <2>6
<1>3. CASE \E set \in DsaSets : s \in {Zeros("public_key", set, MlDsa[set].public_key),
          Zeros("secret_key", set, MlDsa[set].secret_key), Zeros("signature", set, MlDsa[set].signature)}
  <2>1. PICK set \in DsaSets : s \in {Zeros("public_key", set, MlDsa[set].public_key),
          Zeros("secret_key", set, MlDsa[set].secret_key), Zeros("signature", set, MlDsa[set].signature)}
    BY <1>3
  <2>2. MlDsa[set].public_key \in Nat /\ MlDsa[set].secret_key \in Nat /\ MlDsa[set].signature \in Nat
    BY DsaTable
  <2>3. CASE s = Zeros("public_key", set, MlDsa[set].public_key)
    BY <1>1, <2>2, <2>3 DEF RightSize
  <2>4. CASE s = Zeros("secret_key", set, MlDsa[set].secret_key)
    BY <1>1, <2>2, <2>4 DEF RightSize
  <2>5. CASE s = Zeros("signature", set, MlDsa[set].signature)
    BY <1>1, <2>2, <2>5 DEF RightSize
  <2> QED
    BY <2>1, <2>3, <2>4, <2>5
<1> QED
  BY <1>2, <1>3 DEF Placeholders

(* Sizes tell sets apart, whichever role a string has. *)
LEMMA SizesTellSets ==
  ASSUME NEW s, RightSize(s)
  PROVE  /\ s.role = "public_key" =>
              /\ \A set \in KemSets : Size(s.parts) = MlKem[set].public_key <=> s.set = set
              /\ \A set \in DsaSets : Size(s.parts) = MlDsa[set].public_key <=> s.set = set
         /\ s.role = "secret_key" =>
              /\ \A set \in KemSets : Size(s.parts) = MlKem[set].secret_key <=> s.set = set
              /\ \A set \in DsaSets : Size(s.parts) = MlDsa[set].secret_key <=> s.set = set
         /\ s.role = "ciphertext" =>
              \A set \in KemSets : Size(s.parts) = MlKem[set].ciphertext <=> s.set = set
         /\ s.role = "pke_key" =>
              \A set \in KemSets : Size(s.parts) = MlKem[set].k * EncodedBytes(12) <=> s.set = set
         /\ s.role = "signature" =>
              \A set \in DsaSets : Size(s.parts) = MlDsa[set].signature <=> s.set = set
<1>1. CASE s.role = "public_key"
  <2>1. \/ s.set \in KemSets /\ Size(s.parts) = MlKem[s.set].public_key
        \/ s.set \in DsaSets /\ Size(s.parts) = MlDsa[s.set].public_key
    BY <1>1 DEF RightSize
  <2> QED
    BY <1>1, <2>1, KemTable, DsaTable
<1>2. CASE s.role = "secret_key"
  <2>1. \/ s.set \in KemSets /\ Size(s.parts) = MlKem[s.set].secret_key
        \/ s.set \in DsaSets /\ Size(s.parts) = MlDsa[s.set].secret_key
    BY <1>2 DEF RightSize
  <2> QED
    BY <1>2, <2>1, KemTable, DsaTable
<1>3. CASE s.role = "ciphertext"
  <2>1. s.set \in KemSets /\ Size(s.parts) = MlKem[s.set].ciphertext
    BY <1>3 DEF RightSize
  <2> QED
    BY <1>3, <2>1, KemTable
<1>4. CASE s.role = "signature"
  <2>1. s.set \in DsaSets /\ Size(s.parts) = MlDsa[s.set].signature
    BY <1>4 DEF RightSize
  <2> QED
    BY <1>4, <2>1, DsaTable
<1>5. CASE s.role = "pke_key"
  <2>1. s.set \in KemSets /\ Size(s.parts) = MlKem[s.set].k * EncodedBytes(12)
    BY <1>5 DEF RightSize
  <2> QED
    BY <1>5, <2>1, KemTable
<1> QED
  BY <1>1, <1>2, <1>3, <1>4, <1>5

-----------------------------------------------------------------------------
(* What PartsComeBack asks of one read. *)
ReadBack(r) ==
  (\A i \in DOMAIN r.from : r.from[i].what # "zeros") => IsAllOf(r.got, r.from, r.want)

(* Nothing is asked of what is read of a placeholder. *)
LEMMA ZerosReadBack ==
  ASSUME NEW r, NEW size, r.from = <<Part("zeros", "none", size)>>
  PROVE  ReadBack(r)
<1>1. 1 \in DOMAIN r.from /\ r.from[1].what = "zeros"
  BY DEF Part
<1> QED
  BY <1>1 DEF ReadBack

(* A read of the parts of a layout that lie between two ends. *)
LEMMA LaidReadBack ==
  ASSUME NEW s, NEW things, NEW sizes, Laid(s, things, sizes),
         NEW first, NEW final, NEW offset, NEW length, CutAround(s, first, final, offset, length),
         NEW wanted, \A i \in 1 .. Len(things) : things[i] \in wanted <=> i \in first .. final
  PROVE  IsAllOf(Slice(s, offset, length), s, wanted)
<1>1. DOMAIN s = 1 .. Len(s) /\ \A i \in 1 .. Len(s) : s[i].what \in wanted <=> i \in first .. final
  BY DEF Laid
<1> QED
  BY <1>1, SliceIsAllOf

(* Encapsulation reads back an encapsulation key's parts. *)
LEMMA EncapsulationReadsBack ==
  ASSUME NEW o, NEW r \in EncapsulationReads(EncapsulationKey(o))
  PROVE  ReadBack(r)
<1> DEFINE s == EncapsulationKey(o)
           things == <<"t", "rho">>
<1>1. Laid(s, things, <<768, 32>>)
  BY KemLayouts
<1>2. r \in {Read({"t"}, s, Slice(s, 0, 768)), Read({"rho"}, s, Slice(s, 768, 32))}
  BY DEF EncapsulationReads, kMlKem512K, SeedBytes
<1>3. Len(things) = 2 /\ things[1] = "t" /\ things[2] = "rho"
  OBVIOUS
<1> HIDE DEF s, things
<1>4. /\ Len(s) = 2 /\ \A i \in 1 .. Len(s) : s[i].size \in Nat \ {0}
      /\ Ends(s)[0] = 0 /\ Ends(s)[1] = 768 /\ Ends(s)[2] = 800
  <2>1. /\ Len(s) = Len(things) /\ \A i \in 1 .. Len(s) : s[i].size \in Nat \ {0}
        /\ Ends(s)[0] = 0 /\ (Len(s) >= 1 => Ends(s)[1] = 768)
        /\ (Len(s) >= 2 => Ends(s)[2] = 768 + 32)
    BY <1>1, LaidEnds
  <2> QED
    BY <1>3, <2>1
<1>5. CutAround(s, 1, 1, 0, 768) /\ CutAround(s, 2, 2, 768, 32)
  BY <1>4 DEF CutAround
<1>6. IsAllOf(Slice(s, 0, 768), s, {"t"})
  <2>1. \A i \in 1 .. Len(things) : things[i] \in {"t"} <=> i \in 1 .. 1
    BY <1>3
  <2> QED
    BY <1>1, <1>5, <2>1, LaidReadBack
<1>7. IsAllOf(Slice(s, 768, 32), s, {"rho"})
  <2>1. \A i \in 1 .. Len(things) : things[i] \in {"rho"} <=> i \in 2 .. 2
    BY <1>3
  <2> QED
    BY <1>1, <1>5, <2>1, LaidReadBack
<1> QED
  BY <1>2, <1>6, <1>7 DEF ReadBack, Read

(* Decryption reads back the two halves of a ciphertext. *)
LEMMA CiphertextReadsBack ==
  ASSUME NEW c, NEW o, NEW size, NEW r \in CiphertextReads(c),
         c = CiphertextOf(o) \/ c = <<Part("zeros", "none", size)>>
  PROVE  ReadBack(r)
<1>1. r \in {Read({"u"}, c, Slice(c, 0, 640)), Read({"v"}, c, Slice(c, 640, 128))}
  BY DEF CiphertextReads, kMlKem512K, EncodedBytes
<1>2. CASE c = <<Part("zeros", "none", size)>>
  BY <1>1, <1>2, ZerosReadBack DEF Read
<1>3. CASE c = CiphertextOf(o)
  <2> DEFINE things == <<"u", "v">>
  <2>1. Laid(c, things, <<640, 128>>)
    BY <1>3, KemLayouts
  <2>2. Len(things) = 2 /\ things[1] = "u" /\ things[2] = "v"
    OBVIOUS
  <2> HIDE DEF things
  <2>3. /\ Len(c) = 2 /\ \A i \in 1 .. Len(c) : c[i].size \in Nat \ {0}
        /\ Ends(c)[0] = 0 /\ Ends(c)[1] = 640 /\ Ends(c)[2] = 768
    <3>1. /\ Len(c) = Len(things) /\ \A i \in 1 .. Len(c) : c[i].size \in Nat \ {0}
          /\ Ends(c)[0] = 0 /\ (Len(c) >= 1 => Ends(c)[1] = 640)
          /\ (Len(c) >= 2 => Ends(c)[2] = 640 + 128)
      BY <2>1, LaidEnds
    <3> QED
      BY <2>2, <3>1
  <2>4. CutAround(c, 1, 1, 0, 640) /\ CutAround(c, 2, 2, 640, 128)
    BY <2>3 DEF CutAround
  <2>5. IsAllOf(Slice(c, 0, 640), c, {"u"})
    <3>1. \A i \in 1 .. Len(things) : things[i] \in {"u"} <=> i \in 1 .. 1
      BY <2>2
    <3> QED
      BY <2>1, <2>4, <3>1, LaidReadBack
  <2>6. IsAllOf(Slice(c, 640, 128), c, {"v"})
    <3>1. \A i \in 1 .. Len(things) : things[i] \in {"v"} <=> i \in 2 .. 2
      BY <2>2
    <3> QED
      BY <2>1, <2>4, <3>1, LaidReadBack
  <2> QED
    BY <1>1, <2>5, <2>6 DEF ReadBack, Read
<1> QED
  BY <1>2, <1>3

(* Decryption reads back its whole key. *)
LEMMA DecryptionReadsBack ==
  ASSUME NEW key, NEW c, NEW o, NEW size, NEW r \in DecryptionReads(key, c),
         key = DecryptionKey(o) \/ key = <<Part("zeros", "none", size)>>,
         NEW o2, NEW size2,
         c = CiphertextOf(o2) \/ c = <<Part("zeros", "none", size2)>>
  PROVE  ReadBack(r)
<1>1. r = Read({"s"}, key, Slice(key, 0, 768)) \/ r \in CiphertextReads(c)
  BY DEF DecryptionReads, kMlKem512K, EncodedBytes
<1>2. CASE r \in CiphertextReads(c)
  BY <1>2, CiphertextReadsBack
<1>3. CASE r.from = key /\ key = <<Part("zeros", "none", size)>>
  BY <1>3, ZerosReadBack
<1>4. CASE r = Read({"s"}, key, Slice(key, 0, 768)) /\ key = DecryptionKey(o)
  <2> DEFINE things == <<"s">>
             sizes == <<768>>
  <2>1. Laid(key, things, sizes)
    BY <1>4, KemLayouts
  <2>2. Len(things) = 1 /\ things[1] = "s" /\ sizes[1] = 768
    OBVIOUS
  <2> HIDE DEF things, sizes
  <2>3. /\ Len(key) = 1 /\ \A i \in 1 .. Len(key) : key[i].size \in Nat \ {0}
        /\ Ends(key)[0] = 0 /\ Ends(key)[1] = 768
    <3>1. /\ Len(key) = Len(things) /\ \A i \in 1 .. Len(key) : key[i].size \in Nat \ {0}
          /\ Ends(key)[0] = 0 /\ (Len(key) >= 1 => Ends(key)[1] = sizes[1])
      BY <2>1, LaidEnds
    <3> QED
      BY <2>2, <3>1
  <2>4. CutAround(key, 1, 1, 0, 768)
    BY <2>3 DEF CutAround
  <2>5. \A i \in 1 .. Len(things) : things[i] \in {"s"} <=> i \in 1 .. 1
    BY <2>2
  <2>6. IsAllOf(Slice(key, 0, 768), key, {"s"})
    BY <2>1, <2>4, <2>5, LaidReadBack
  <2> QED
    BY <1>4, <2>6 DEF ReadBack, Read
<1> QED
  BY <1>1, <1>2, <1>3, <1>4 DEF Read

(* Decapsulation reads back a decapsulation key's parts, of the encapsulation
   key inside it as well, and a ciphertext's. *)
LEMMA DecapsulationReadsBack ==
  ASSUME NEW dk, NEW c, NEW o, NEW size, NEW r \in DecapsulationReads(dk, c),
         dk = DecapsulationKey(o) \/ dk = <<Part("zeros", "none", size)>>,
         NEW o2, NEW size2,
         c = CiphertextOf(o2) \/ c = <<Part("zeros", "none", size2)>>
  PROVE  ReadBack(r)
<1>1. \/ r \in {Read({"s"}, dk, Slice(dk, 0, 768)), Read({"t", "rho"}, dk, Slice(dk, 768, 800)),
                Read({"h"}, dk, Slice(dk, 1568, 32)), Read({"z"}, dk, Slice(dk, 1600, 32))}
      \/ r \in CiphertextReads(c)
  BY DEF DecapsulationReads, kMlKem512SecretKeyBytes, kMlKem512PublicKeyBytes, SeedBytes
<1>2. CASE r.from = dk /\ dk = <<Part("zeros", "none", size)>>
  BY <1>2, ZerosReadBack
<1>3. CASE r.from = dk /\ dk = DecapsulationKey(o)
           /\ r \in {Read({"s"}, dk, Slice(dk, 0, 768)), Read({"t", "rho"}, dk, Slice(dk, 768, 800)),
                     Read({"h"}, dk, Slice(dk, 1568, 32)), Read({"z"}, dk, Slice(dk, 1600, 32))}
  <2> DEFINE things == <<"s", "t", "rho", "h", "z">>
             sizes == <<768, 768, 32, 32, 32>>
  <2>1. Laid(dk, things, sizes)
    BY <1>3, KemLayouts
  <2>2. /\ Len(things) = 5 /\ things[1] = "s" /\ things[2] = "t" /\ things[3] = "rho"
        /\ things[4] = "h" /\ things[5] = "z"
        /\ sizes[1] = 768 /\ sizes[2] = 768 /\ sizes[3] = 32 /\ sizes[4] = 32 /\ sizes[5] = 32
    OBVIOUS
  <2> HIDE DEF things, sizes
  <2>3. /\ Len(dk) = 5 /\ \A i \in 1 .. Len(dk) : dk[i].size \in Nat \ {0}
        /\ Ends(dk)[0] = 0 /\ Ends(dk)[1] = 768 /\ Ends(dk)[2] = 1536 /\ Ends(dk)[3] = 1568
        /\ Ends(dk)[4] = 1600 /\ Ends(dk)[5] = 1632
    <3>1. /\ Len(dk) = Len(things) /\ \A i \in 1 .. Len(dk) : dk[i].size \in Nat \ {0}
          /\ Ends(dk)[0] = 0 /\ (Len(dk) >= 1 => Ends(dk)[1] = sizes[1])
          /\ Len(dk) >= 2 => Ends(dk)[2] = sizes[1] + sizes[2]
          /\ Len(dk) >= 3 => Ends(dk)[3] = sizes[1] + sizes[2] + sizes[3]
          /\ Len(dk) >= 4 => Ends(dk)[4] = sizes[1] + sizes[2] + sizes[3] + sizes[4]
          /\ Len(dk) >= 5 => Ends(dk)[5] = sizes[1] + sizes[2] + sizes[3] + sizes[4] + sizes[5]
      BY <2>1, LaidEnds
    <3> QED
      BY <2>2, <3>1
  <2>4. /\ CutAround(dk, 1, 1, 0, 768) /\ CutAround(dk, 2, 3, 768, 800)
        /\ CutAround(dk, 4, 4, 1568, 32) /\ CutAround(dk, 5, 5, 1600, 32)
    BY <2>3 DEF CutAround
  <2>5. IsAllOf(Slice(dk, 0, 768), dk, {"s"})
    <3>1. \A i \in 1 .. Len(things) : things[i] \in {"s"} <=> i \in 1 .. 1
      BY <2>2
    <3> QED
      BY <2>1, <2>4, <3>1, LaidReadBack
  <2>6. IsAllOf(Slice(dk, 768, 800), dk, {"t", "rho"})
    <3>1. \A i \in 1 .. Len(things) : things[i] \in {"t", "rho"} <=> i \in 2 .. 3
      BY <2>2
    <3> QED
      BY <2>1, <2>4, <3>1, LaidReadBack
  <2>7. IsAllOf(Slice(dk, 1568, 32), dk, {"h"})
    <3>1. \A i \in 1 .. Len(things) : things[i] \in {"h"} <=> i \in 4 .. 4
      BY <2>2
    <3> QED
      BY <2>1, <2>4, <3>1, LaidReadBack
  <2>8. IsAllOf(Slice(dk, 1600, 32), dk, {"z"})
    <3>1. \A i \in 1 .. Len(things) : things[i] \in {"z"} <=> i \in 5 .. 5
      BY <2>2
    <3> QED
      BY <2>1, <2>4, <3>1, LaidReadBack
  <2> QED
    BY <1>3, <2>5, <2>6, <2>7, <2>8 DEF ReadBack, Read
<1>4. CASE r \in CiphertextReads(c)
  BY <1>4, CiphertextReadsBack
<1> QED
  BY <1>1, <1>2, <1>3, <1>4 DEF Read

(* Signing reads back a secret key's parts. *)
LEMMA SigningReadsBack ==
  ASSUME NEW set \in DsaSets, NEW o, NEW r \in SigningReads(DsaSecretKey(set, o))
  PROVE  ReadBack(r)
<1> DEFINE s == DsaSecretKey(set, o)
           things == <<"rho", "key", "tr", "body">>
           sizes == <<32, 32, 64, MlDsa[set].secret_key - 128>>
<1>1. Laid(s, things, sizes)
  BY DsaLayouts
<1>2. r \in {Read({"key"}, s, Slice(s, 32, 32)), Read({"tr"}, s, Slice(s, 64, 64))}
  BY DEF SigningReads, SeedBytes, PublicKeyHashBytes
<1>3. /\ Len(things) = 4 /\ sizes[1] = 32 /\ sizes[2] = 32 /\ sizes[3] = 64
      /\ things[1] = "rho" /\ things[2] = "key" /\ things[3] = "tr" /\ things[4] = "body"
  OBVIOUS
<1> HIDE DEF s, things, sizes
<1>4. /\ Len(s) = 4 /\ \A i \in 1 .. Len(s) : s[i].size \in Nat \ {0}
      /\ Ends(s)[1] = 32 /\ Ends(s)[2] = 64 /\ Ends(s)[3] = 128
  <2>1. /\ Len(s) = Len(things) /\ \A i \in 1 .. Len(s) : s[i].size \in Nat \ {0}
        /\ Len(s) >= 1 => Ends(s)[1] = sizes[1]
        /\ Len(s) >= 2 => Ends(s)[2] = sizes[1] + sizes[2]
        /\ Len(s) >= 3 => Ends(s)[3] = sizes[1] + sizes[2] + sizes[3]
    BY <1>1, LaidEnds
  <2> QED
    BY <1>3, <2>1
<1>5. CutAround(s, 2, 2, 32, 32) /\ CutAround(s, 3, 3, 64, 64)
  BY <1>4 DEF CutAround
<1>6. IsAllOf(Slice(s, 32, 32), s, {"key"})
  <2>1. \A i \in 1 .. Len(things) : things[i] \in {"key"} <=> i \in 2 .. 2
    BY <1>3
  <2> QED
    BY <1>1, <1>5, <2>1, LaidReadBack
<1>7. IsAllOf(Slice(s, 64, 64), s, {"tr"})
  <2>1. \A i \in 1 .. Len(things) : things[i] \in {"tr"} <=> i \in 3 .. 3
    BY <1>3
  <2> QED
    BY <1>1, <1>5, <2>1, LaidReadBack
<1> QED
  BY <1>2, <1>6, <1>7 DEF ReadBack, Read

(* Either part of a string of two, cut out. *)
LEMMA PairSlices ==
  ASSUME NEW S, NEW w \in Seq(S), Len(w) = 2, NEW a \in Nat \ {0}, NEW b \in Nat \ {0},
         w[1].size = a, w[2].size = b
  PROVE  Slice(w, 0, a) = <<w[1]>> /\ Slice(w, a, b) = <<w[2]>>
<1>1. \A i \in 1 .. Len(w) : w[i].size \in Nat \ {0}
  OBVIOUS
<1>2. Ends(w)[0] = 0 /\ Ends(w)[1] = a /\ Ends(w)[2] = a + b
  <2>1. /\ Len(w) \in Nat /\ \A i \in 1 .. Len(w) : w[i].size \in Nat
        /\ Len(w) >= 1 /\ Len(w) >= 2
    BY <1>1
  <2>2. /\ Ends(w)[0] = 0 /\ Ends(w)[1] = Ends(w)[0] + w[1].size
        /\ Ends(w)[2] = Ends(w)[1] + w[2].size
    BY <2>1, EndsOfFew, Zenon
  <2> QED
    BY <2>2
<1>3. Slice(w, 0, a) = SubSeq(w, 1, 1)
  <2>1. CutAround(w, 1, 1, 0, a)
    BY <1>1, <1>2 DEF CutAround
  <2> QED
    BY <2>1, SliceBetweenEnds, ZenonT(60)
<1>4. Slice(w, a, b) = SubSeq(w, 2, 2)
  <2>1. CutAround(w, 2, 2, a, b)
    BY <1>1, <1>2 DEF CutAround
  <2> QED
    BY <2>1, SliceBetweenEnds, ZenonT(60)
<1>5. SubSeq(w, 1, 1) = <<w[1]>> /\ SubSeq(w, 2, 2) = <<w[2]>>
  <2>1. 1 \in 1 .. Len(w) /\ 2 \in 1 .. Len(w)
    OBVIOUS
  <2> QED
    BY <2>1, SingleParts, Zenon
<1> QED
  BY <1>3, <1>4, <1>5

(* Two parts cut out of a string and cut again: each is the part of the string. *)
LEMMA SliceOfSlice ==
  ASSUME NEW S, NEW s \in Seq(S), Len(s) = 3, NEW w, w = SubSeq(s, 2, 3),
         s[2].size \in Nat \ {0}, s[3].size \in Nat \ {0}
  PROVE  /\ Slice(w, 0, s[2].size) = SubSeq(s, 2, 2)
         /\ Slice(w, s[2].size, s[3].size) = SubSeq(s, 3, 3)
<1>1. \A i \in 2 .. 3 : s[i] \in S
  <2>1. s \in [1 .. 3 -> S]
    BY LenProperties
  <2> QED
    BY <2>1
<1>2. w \in Seq(S) /\ Len(w) = 2 /\ w[1] = s[2] /\ w[2] = s[3]
  <2>1. /\ SubSeq(s, 2, 3) \in Seq(S) /\ Len(SubSeq(s, 2, 3)) = IF 2 <= 3 THEN 3 - 2 + 1 ELSE 0
        /\ \A i \in 1 .. 3 - 2 + 1 : SubSeq(s, 2, 3)[i] = s[2 + i - 1]
    BY <1>1, SubSeqProperties
  <2>2. w \in Seq(S) /\ Len(w) = 2 /\ \A i \in 1 .. 2 : w[i] = s[2 + i - 1]
    BY <2>1
  <2> QED
    BY <2>2
<1>3. Slice(w, 0, s[2].size) = <<w[1]>> /\ Slice(w, s[2].size, s[3].size) = <<w[2]>>
  <2>1. w[1].size = s[2].size /\ w[2].size = s[3].size
    BY <1>2
  <2> QED
    BY <1>2, <2>1, PairSlices
<1>4. SubSeq(s, 2, 2) = <<s[2]>> /\ SubSeq(s, 3, 3) = <<s[3]>>
  BY SingleParts
<1> QED
  BY <1>2, <1>3, <1>4

(* Verification reads back a signature's parts, the witness first as a whole. *)
LEMMA VerificationReadsBack ==
  ASSUME NEW set \in DsaSets, NEW o, NEW r \in VerificationReads(set, SignatureOf(set, o))
  PROVE  ReadBack(r)
<1> DEFINE s == SignatureOf(set, o)
           things == <<"challenge", "response", "hint">>
           c == ChallengeBytes(MlDsa[set])
           z == ResponseBytes(MlDsa[set])
           h == HintBytes(MlDsa[set])
           sizes == <<c, z, h>>
           S == {Part("challenge", o, c), Part("response", o, z), Part("hint", o, h)}
           w == Slice(s, c, z + h)
<1>1. Laid(s, things, sizes)
  BY DsaLayouts
<1>2. r \in {Read({"challenge"}, s, Slice(s, 0, c)), Read({"response", "hint"}, s, w),
             Read({"response"}, s, Slice(w, 0, z)), Read({"hint"}, s, Slice(w, z, h))}
  BY DEF VerificationReads, WitnessBytes
<1>3. /\ Len(things) = 3 /\ sizes[1] = c /\ sizes[2] = z /\ sizes[3] = h
      /\ things[1] = "challenge" /\ things[2] = "response" /\ things[3] = "hint"
  OBVIOUS
<1>4. s \in Seq(S)
  BY DEF SignatureOf
<1>5. c \in Nat \ {0} /\ z \in Nat \ {0} /\ h \in Nat \ {0}
  BY DsaRows
<1> HIDE DEF s, things, sizes, c, z, h, S
<1>6. /\ Len(s) = 3 /\ DOMAIN s = 1 .. 3 /\ \A i \in 1 .. Len(s) : s[i].size \in Nat \ {0}
      /\ s[2].size = z /\ s[3].size = h
      /\ s[1].what = "challenge" /\ s[2].what = "response" /\ s[3].what = "hint"
      /\ Ends(s)[0] = 0 /\ Ends(s)[1] = c /\ Ends(s)[2] = c + z /\ Ends(s)[3] = c + z + h
  <2>1. /\ Len(s) = Len(things) /\ DOMAIN s = 1 .. Len(s)
        /\ \A i \in 1 .. Len(s) :
             s[i].size \in Nat \ {0} /\ s[i].size = sizes[i] /\ s[i].what = things[i]
        /\ Ends(s)[0] = 0
        /\ Len(s) >= 1 => Ends(s)[1] = sizes[1]
        /\ Len(s) >= 2 => Ends(s)[2] = sizes[1] + sizes[2]
        /\ Len(s) >= 3 => Ends(s)[3] = sizes[1] + sizes[2] + sizes[3]
    BY <1>1, LaidEnds
  <2> QED
    BY <1>3, <2>1
<1>7. CutAround(s, 1, 1, 0, c) /\ CutAround(s, 2, 3, c, z + h)
  BY <1>5, <1>6 DEF CutAround
<1>8. IsAllOf(Slice(s, 0, c), s, {"challenge"})
  <2>1. \A i \in 1 .. Len(things) : things[i] \in {"challenge"} <=> i \in 1 .. 1
    BY <1>3
  <2> QED
    BY <1>1, <1>7, <2>1, LaidReadBack
<1>9. IsAllOf(w, s, {"response", "hint"})
  <2>1. \A i \in 1 .. Len(things) : things[i] \in {"response", "hint"} <=> i \in 2 .. 3
    BY <1>3
  <2> QED
    BY <1>1, <1>7, <2>1, LaidReadBack
<1>10. w = SubSeq(s, 2, 3)
  BY <1>7, SliceBetweenEnds, Zenon
<1> HIDE DEF w
<1>11. Slice(w, 0, z) = SubSeq(s, 2, 2) /\ Slice(w, z, h) = SubSeq(s, 3, 3)
  <2>1. s[2].size \in Nat \ {0} /\ s[3].size \in Nat \ {0} /\ s[2].size = z /\ s[3].size = h
    BY <1>6
  <2>2. /\ Slice(w, 0, s[2].size) = SubSeq(s, 2, 2)
        /\ Slice(w, s[2].size, s[3].size) = SubSeq(s, 3, 3)
    BY <1>4, <1>6, <1>10, <2>1, SliceOfSlice
  <2> QED
    BY <2>1, <2>2
<1>12. IsAllOf(Slice(w, 0, z), s, {"response"})
  <2>1. {i \in DOMAIN s : s[i].what \in {"response"}} = 2 .. 2 /\ 2 \in DOMAIN s
    BY <1>6
  <2> QED
    BY <1>11, <2>1 DEF IsAllOf
<1>13. IsAllOf(Slice(w, z, h), s, {"hint"})
  <2>1. {i \in DOMAIN s : s[i].what \in {"hint"}} = 3 .. 3 /\ 3 \in DOMAIN s
    BY <1>6
  <2> QED
    BY <1>11, <2>1 DEF IsAllOf
<1> QED
  BY <1>2, <1>8, <1>9, <1>12, <1>13 DEF ReadBack, Read

-----------------------------------------------------------------------------
(* What a caller holds was made by a hook, or is filled with zeros. *)
LEMMA HeldStrings ==
  ASSUME \A s \in made : WellMade(s), NEW role, NEW s \in Held(role)
  PROVE  /\ s.role = role /\ RightSize(s)
         /\ WellMade(s) \/ \E size : s.parts = <<Part("zeros", "none", size)>>
<1>1. s.role = role /\ (s \in made \/ s \in Placeholders)
  BY DEF Held
<1> QED
  BY <1>1, MadeHasRightSize, PlaceholdersHaveRightSize

(* The set and the role of a string the hooks made tell its layout. *)
LEMMA KemStrings ==
  ASSUME NEW s, WellMade(s), s.set = "kem512"
  PROVE  /\ s.role = "public_key" => \E o : s.parts = EncapsulationKey(o)
         /\ s.role = "secret_key" => \E o : s.parts = DecapsulationKey(o)
         /\ s.role = "ciphertext" => \E o : s.parts = CiphertextOf(o)
         /\ s.role = "pke_key" => \E o : s.parts = DecryptionKey(o)
<1>1. PICK o : s \in KemMade(o) \/ \E set \in DsaSets : s \in DsaMade(set, o)
  BY DEF WellMade
<1>2. s \in KemMade(o)
  <2>1. ASSUME NEW set \in DsaSets, s \in DsaMade(set, o) PROVE FALSE
    <3>1. s.set = set
      BY <2>1 DEF DsaMade, Bytes
    <3> QED
      BY <3>1, DsaTable
  <2> QED
    BY <1>1, <2>1
<1> QED
  BY <1>2 DEF KemMade, Bytes

(* A well-made string of an ML-DSA set has the layout of its role. *)
LEMMA DsaStrings ==
  ASSUME NEW set \in DsaSets, NEW s, WellMade(s), s.set = set
  PROVE  /\ s.role = "secret_key" => \E o : s.parts = DsaSecretKey(set, o)
         /\ s.role = "signature" => \E o : s.parts = SignatureOf(set, o)
<1>1. PICK o : s \in KemMade(o) \/ \E t \in DsaSets : s \in DsaMade(t, o)
  BY DEF WellMade
<1>2. s \in DsaMade(set, o)
  <2>1. ASSUME s \in KemMade(o) PROVE FALSE
    <3>1. s.set = "kem512"
      BY <2>1 DEF KemMade, Bytes
    <3> QED
      BY <3>1, DsaTable
  <2>2. ASSUME NEW t \in DsaSets, s \in DsaMade(t, o) PROVE t = set
    BY <2>2 DEF DsaMade, Bytes
  <2> QED
    BY <1>1, <2>1, <2>2
<1> QED
  BY <1>2 DEF DsaMade, Bytes

-----------------------------------------------------------------------------
(* A call's answer tells right sets from wrong ones, and its reads come back. *)
Judged(call, set, given, outcome) ==
  /\ outcome \in {"not_implemented", "made", "message", "shared secret", "verdict"} =>
       \A x \in given : x.set = set
  /\ outcome \in {"invalid_argument", "false"} /\ call \notin {"sign", "verify"} =>
       given = {} \/ \E x \in given : x.set # set

(* A call that judges its strings by their sizes keeps sets apart. *)
LEMMA JudgedCalls ==
  ASSUME NEW call, NEW set, NEW given, NEW outcome, NEW reads,
         Called(call, set, given, outcome, reads), Judged(call, set, given, outcome)
  PROVE  SetsKeptApart'
<1>1. /\ last'.given = {x.set : x \in given} /\ last'.outcome = outcome
      /\ last'.set = set /\ last'.call = call
  BY DEF Called
<1> SUFFICES ASSUME last'.given # {}
             PROVE  /\ last'.outcome \in {"not_implemented", "made", "message", "shared secret", "verdict"} =>
                         last'.given = {last'.set}
                    /\ last'.outcome \in {"invalid_argument", "false"}
                         /\ last'.call \notin {"sign", "verify"} => last'.given # {last'.set}
  BY DEF SetsKeptApart
<1>2. PICK x \in given : TRUE
  BY <1>1
<1>3. ASSUME outcome \in {"not_implemented", "made", "message", "shared secret", "verdict"}
      PROVE  last'.given = {set}
  <2>1. \A y \in given : y.set = set
    BY <1>3 DEF Judged
  <2> QED
    BY <1>1, <1>2, <2>1
<1>4. ASSUME outcome \in {"invalid_argument", "false"}, call \notin {"sign", "verify"}
      PROVE  last'.given # {set}
  <2>1. PICK y \in given : y.set # set
    BY <1>2, <1>4 DEF Judged
  <2>2. y.set \in last'.given
    BY <1>1, <2>1
  <2> QED
    BY <2>1, <2>2
<1> QED
  BY <1>1, <1>3, <1>4

(* What the lemmas on calls assume of their strings and reads. *)
AllAgree(given, set) == \A x \in given : x.set = set
AllBack(reads) == \A r \in reads : ReadBack(r)
AllMade(strings) == \A s \in strings : WellMade(s)

(* A call that reads nothing and is given nothing satisfies both. *)
LEMMA NothingReadNothingGiven == AllBack({}) /\ \A set : AllAgree({}, set)
  BY DEF AllBack, AllAgree

(* A call whose reads come back. *)
LEMMA ReadsComeBack ==
  ASSUME NEW call, NEW set, NEW given, NEW outcome, NEW reads,
         Called(call, set, given, outcome, reads), AllBack(reads)
  PROVE  PartsComeBack'
<1>1. last'.reads = reads
  BY DEF Called
<1> QED
  BY <1>1 DEF PartsComeBack, ReadBack, AllBack

(* The invariant: strings made are laid out as their set and role say. *)
BoundaryInv == (\A s \in made : WellMade(s)) /\ SetsKeptApart /\ PartsComeBack

(* A call that reads nothing and gives nothing. *)
LEMMA QuietCalls ==
  ASSUME BoundaryInv, NEW call, NEW set, NEW given, NEW outcome,
         Call(call, set, given, outcome), Judged(call, set, given, outcome)
  PROVE  BoundaryInv'
<1>1. Called(call, set, given, outcome, {}) /\ made' = made
  BY DEF Call
<1>2. SetsKeptApart'
  BY <1>1, JudgedCalls
<1>3. PartsComeBack'
  BY <1>1, ReadsComeBack, NothingReadNothingGiven
<1> QED
  BY <1>1, <1>2, <1>3 DEF BoundaryInv

(* A hook that makes strings. *)
LEMMA MakingCalls ==
  ASSUME BoundaryInv, NEW call, NEW set, NEW given, NEW reads, NEW strings,
         Makes(call, set, given, reads, strings), AllAgree(given, set), AllBack(reads),
         AllMade(strings)
  PROVE  BoundaryInv'
<1>1. Called(call, set, given, "made", reads) /\ made' = made \cup strings
  BY DEF Makes
<1>2. SetsKeptApart'
  BY <1>1, JudgedCalls DEF Judged, AllAgree
<1>3. PartsComeBack'
  BY <1>1, ReadsComeBack
<1>4. \A s \in made' : WellMade(s)
  BY <1>1 DEF BoundaryInv, AllMade
<1> QED
  BY <1>2, <1>3, <1>4 DEF BoundaryInv

(* A hook that answers without making any. *)
LEMMA AnsweringCalls ==
  ASSUME BoundaryInv, NEW call, NEW set, NEW given, NEW outcome, NEW reads,
         Answers(call, set, given, outcome, reads), Judged(call, set, given, outcome),
         AllBack(reads)
  PROVE  BoundaryInv'
<1>1. Called(call, set, given, outcome, reads) /\ made' = made
  BY DEF Answers
<1>2. SetsKeptApart'
  BY <1>1, JudgedCalls
<1>3. PartsComeBack'
  BY <1>1, ReadsComeBack
<1> QED
  BY <1>1, <1>2, <1>3 DEF BoundaryInv

(* Each function of the public API, and each hook, keeps the invariant. *)
LEMMA PublicCallsKeepSetsApart == BoundaryInv /\ CallPublic => BoundaryInv'
<1> SUFFICES ASSUME BoundaryInv, CallPublic PROVE BoundaryInv'
  OBVIOUS
<1>0. \A s \in made : WellMade(s)
  BY DEF BoundaryInv
<1>1. ASSUME NEW set, KemKeygen(set) \/ DsaKeygen(set) PROVE BoundaryInv'
  BY <1>1, QuietCalls DEF KemKeygen, DsaKeygen, Judged
<1>2. ASSUME NEW set \in KemSets, NEW pk \in Held("public_key"), Encapsulate(set, pk)
      PROVE  BoundaryInv'
  <2>1. Size(pk.parts) = MlKem[set].public_key <=> pk.set = set
    BY <1>0, HeldStrings, SizesTellSets
  <2>2. Judged("encapsulate", set, {pk}, ml_kem_encapsulate(set, pk))
    BY <2>1 DEF Judged, ml_kem_encapsulate, Checked
  <2> QED
    BY <1>2, <2>2, QuietCalls DEF Encapsulate
<1>3. ASSUME NEW set \in KemSets, NEW sk \in Held("secret_key"), NEW ct \in Held("ciphertext"),
             Decapsulate(set, sk, ct)
      PROVE  BoundaryInv'
  <2>1. /\ Size(sk.parts) = MlKem[set].secret_key <=> sk.set = set
        /\ Size(ct.parts) = MlKem[set].ciphertext <=> ct.set = set
    BY <1>0, HeldStrings, SizesTellSets
  <2>2. Judged("decapsulate", set, {sk, ct}, ml_kem_decapsulate(set, sk, ct))
    BY <2>1 DEF Judged, ml_kem_decapsulate, Checked
  <2> QED
    BY <1>3, <2>2, QuietCalls DEF Decapsulate
<1>4. ASSUME NEW set \in DsaSets, NEW sk \in Held("secret_key"), NEW n, Sign(set, sk, n)
      PROVE  BoundaryInv'
  <2>1. Size(sk.parts) = MlDsa[set].secret_key <=> sk.set = set
    BY <1>0, HeldStrings, SizesTellSets
  <2>2. Judged("sign", set, {sk}, ml_dsa_sign(set, sk, n))
    BY <2>1 DEF Judged, ml_dsa_sign, Checked
  <2> QED
    BY <1>4, <2>2, QuietCalls DEF Sign
<1>5. ASSUME NEW set \in DsaSets, NEW pk \in Held("public_key"), NEW s \in Held("signature"), NEW n,
             Verify(set, pk, s, n)
      PROVE  BoundaryInv'
  <2>1. /\ Size(pk.parts) = MlDsa[set].public_key <=> pk.set = set
        /\ Size(s.parts) = MlDsa[set].signature <=> s.set = set
    BY <1>0, HeldStrings, SizesTellSets
  <2>2. Judged("verify", set, {pk, s}, ml_dsa_verify(set, pk, s, n))
    BY <2>1 DEF Judged, ml_dsa_verify, Checked
  <2> QED
    BY <1>5, <2>2, QuietCalls DEF Verify
<1> QED
  BY <1>1, <1>2, <1>3, <1>4, <1>5 DEF CallPublic

(* A stub of a release build. *)
LEMMA ThrowingCalls ==
  ASSUME BoundaryInv, NEW call, NEW set, NEW given, Throws(call, set, given)
  PROVE  BoundaryInv'
<1>1. Called(call, set, given, "logic_error", {}) /\ made' = made
  BY DEF Throws
<1>2. SetsKeptApart'
  BY <1>1, JudgedCalls DEF Judged
<1>3. PartsComeBack'
  BY <1>1, ReadsComeBack, NothingReadNothingGiven
<1> QED
  BY <1>1, <1>2, <1>3 DEF BoundaryInv

(* Encryption, called by a hook of its own or by encapsulation. *)
LEMMA EncryptingCalls ==
  ASSUME BoundaryInv, NEW call, call \notin {"sign", "verify"}, NEW pk \in Held("public_key"),
         Encrypts(call, pk)
  PROVE  BoundaryInv'
<1>0. \A s \in made : WellMade(s)
  BY DEF BoundaryInv
<1>1. Size(pk.parts) = kMlKem512PublicKeyBytes <=> pk.set = "kem512"
  BY <1>0, HeldStrings, SizesTellSets, KemTable, WrittenTwice
<1>2. CASE Throws(call, "kem512", {pk})
  BY <1>2, ThrowingCalls
<1>3. CASE ~Throws(call, "kem512", {pk}) /\ pk.set = "kem512"
  <2> DEFINE o == pk.parts[1].of
             strings == {Bytes("ciphertext", "kem512", Ciphertext(pk.parts))}
  <2>1. Makes(call, "kem512", {pk}, EncapsulationReads(pk.parts), strings)
    BY <1>1, <1>3 DEF Encrypts
  <2>2. Ciphertext(pk.parts) = CiphertextOf(o)
    BY DEF Ciphertext, CiphertextOf, EncodedBytes, kMlKem512K
  <2>3. AllMade(strings)
    BY <2>2 DEF AllMade, WellMade, KemMade
  <2>4. AllBack(EncapsulationReads(pk.parts))
    <3>1. CASE WellMade(pk)
      <4>1. PICK k : pk.parts = EncapsulationKey(k)
        BY <1>0, <1>3, <3>1, HeldStrings, KemStrings
      <4> QED
        BY <4>1, EncapsulationReadsBack DEF AllBack
    <3>2. CASE \E size : pk.parts = <<Part("zeros", "none", size)>>
      <4>1. \A r \in EncapsulationReads(pk.parts) : r.from = pk.parts
        BY DEF EncapsulationReads, Read
      <4> QED
        BY <3>2, <4>1, ZerosReadBack DEF AllBack
    <3> QED
      BY <1>0, <3>1, <3>2, HeldStrings
  <2>5. AllAgree({pk}, "kem512")
    BY <1>3 DEF AllAgree
  <2> HIDE DEF strings
  <2> QED
    BY <2>1, <2>3, <2>4, <2>5, MakingCalls
<1>4. CASE ~Throws(call, "kem512", {pk}) /\ pk.set # "kem512"
  <2>1. Answers(call, "kem512", {pk}, "invalid_argument", {})
    BY <1>1, <1>4 DEF Encrypts
  <2>2. Judged(call, "kem512", {pk}, "invalid_argument")
    BY <1>4 DEF Judged
  <2> QED
    BY <2>1, <2>2, AnsweringCalls, NothingReadNothingGiven
<1> QED
  BY <1>2, <1>3, <1>4

(* The calls of the hooks keep the sets apart and return their own parts. *)
LEMMA HookCallsKeepSetsApart == BoundaryInv /\ CallHook => BoundaryInv'
<1> SUFFICES ASSUME BoundaryInv, CallHook PROVE BoundaryInv'
  OBVIOUS
<1>0. \A s \in made : WellMade(s)
  BY DEF BoundaryInv
<1>1. ASSUME NEW call, HashHook(call) PROVE BoundaryInv'
  <2>1. CASE Throws(call, "none", {})
    BY <2>1, ThrowingCalls
  <2>2. CASE Answers(call, "none", {}, "digest", {})
    <3>1. Judged(call, "none", {}, "digest")
      BY DEF Judged
    <3> QED
      BY <2>2, <3>1, AnsweringCalls, NothingReadNothingGiven
  <2> QED
    BY <1>1, <2>1, <2>2 DEF HashHook
<1>2. ASSUME NEW seed, KemKeygenHook(seed) PROVE BoundaryInv'
  <2> DEFINE strings == {Bytes("public_key", "kem512", EncapsulationKey(seed)),
                         Bytes("secret_key", "kem512", DecapsulationKey(seed))}
  <2>1. Throws("kem keygen hook", "kem512", {}) \/ Makes("kem keygen hook", "kem512", {}, {}, strings)
    BY <1>2 DEF KemKeygenHook
  <2>2. AllMade(strings)
    BY DEF AllMade, WellMade, KemMade
  <2> HIDE DEF strings
  <2> QED
    BY <2>1, <2>2, ThrowingCalls, MakingCalls, NothingReadNothingGiven
<1>3. ASSUME NEW set \in DsaSets, NEW seed, DsaKeygenHook(set, seed) PROVE BoundaryInv'
  <2> DEFINE strings == {Bytes("public_key", set, DsaPublicKey(set, seed)),
                         Bytes("secret_key", set, DsaSecretKey(set, seed))}
  <2>1. Throws("dsa keygen hook", set, {}) \/ Makes("dsa keygen hook", set, {}, {}, strings)
    BY <1>3 DEF DsaKeygenHook
  <2>2. AllMade(strings)
    BY DEF AllMade, WellMade, DsaMade
  <2> HIDE DEF strings
  <2> QED
    BY <2>1, <2>2, ThrowingCalls, MakingCalls, NothingReadNothingGiven
<1>4. ASSUME NEW pk \in Held("public_key"), PkeEncryptHook(pk) \/ EncapsulateHook(pk)
      PROVE  BoundaryInv'
  BY <1>4, EncryptingCalls DEF PkeEncryptHook, EncapsulateHook
<1>5. ASSUME NEW sk \in Held("secret_key"), NEW ct \in Held("ciphertext"), DecapsulateHook(sk, ct)
      PROVE  BoundaryInv'
  <2>0. CASE Throws("decapsulate hook", "kem512", {sk, ct})
    BY <2>0, ThrowingCalls
  <2>1. /\ Size(sk.parts) = kMlKem512DecapsulationKeyBytes <=> sk.set = "kem512"
        /\ Size(ct.parts) = kMlKem512CiphertextBytes <=> ct.set = "kem512"
    <3>1. /\ Size(sk.parts) = MlKem.kem512.secret_key <=> sk.set = "kem512"
          /\ Size(ct.parts) = MlKem.kem512.ciphertext <=> ct.set = "kem512"
      BY <1>0, HeldStrings, SizesTellSets, KemTable
    <3> QED
      BY <3>1, WrittenTwice
  <2>2. CASE ~Throws("decapsulate hook", "kem512", {sk, ct}) /\ sk.set = "kem512" /\ ct.set = "kem512"
    <3> DEFINE reads == DecapsulationReads(sk.parts, ct.parts)
    <3>1. Answers("decapsulate hook", "kem512", {sk, ct}, "shared secret", reads)
      BY <1>5, <2>1, <2>2 DEF DecapsulateHook
    <3>2. Judged("decapsulate hook", "kem512", {sk, ct}, "shared secret")
      BY <2>2 DEF Judged
    <3>3. PICK o, size : sk.parts = DecapsulationKey(o) \/ sk.parts = <<Part("zeros", "none", size)>>
      BY <1>0, <2>2, HeldStrings, KemStrings
    <3>4. PICK o2, size2 : ct.parts = CiphertextOf(o2) \/ ct.parts = <<Part("zeros", "none", size2)>>
      BY <1>0, <2>2, HeldStrings, KemStrings
    <3>5. AllBack(reads)
      BY <3>3, <3>4, DecapsulationReadsBack DEF AllBack
    <3> HIDE DEF reads
    <3> QED
      BY <3>1, <3>2, <3>5, AnsweringCalls
  <2>3. CASE ~Throws("decapsulate hook", "kem512", {sk, ct}) /\ ~(sk.set = "kem512" /\ ct.set = "kem512")
    <3>1. Answers("decapsulate hook", "kem512", {sk, ct}, "invalid_argument", {})
      BY <1>5, <2>1, <2>3 DEF DecapsulateHook
    <3>2. Judged("decapsulate hook", "kem512", {sk, ct}, "invalid_argument")
      BY <2>3 DEF Judged
    <3> QED
      BY <3>1, <3>2, AnsweringCalls, NothingReadNothingGiven
  <2> QED
    BY <2>0, <2>2, <2>3
<1>6. ASSUME NEW set \in DsaSets, NEW sk \in Held("secret_key"), SignHook(set, sk) PROVE BoundaryInv'
  <2>0. CASE Throws("sign hook", set, {sk})
    BY <2>0, ThrowingCalls
  <2>1. Size(sk.parts) = MlDsa[set].secret_key <=> sk.set = set
    BY <1>0, HeldStrings, SizesTellSets
  <2>2. CASE ~Throws("sign hook", set, {sk}) /\ sk.set = set
    <3> DEFINE strings == {Bytes("signature", set, SignatureOf(set, sk.parts[1].of))}
    <3>1. Makes("sign hook", set, {sk}, SigningReads(sk.parts), strings)
      BY <1>6, <2>1, <2>2 DEF SignHook
    <3>2. AllMade(strings)
      BY DEF AllMade, WellMade, DsaMade
    <3>3. AllBack(SigningReads(sk.parts))
      <4>1. CASE WellMade(sk)
        <5>1. PICK o : sk.parts = DsaSecretKey(set, o)
          BY <1>0, <2>2, <4>1, HeldStrings, DsaStrings
        <5> QED
          BY <5>1, SigningReadsBack DEF AllBack
      <4>2. CASE \E size : sk.parts = <<Part("zeros", "none", size)>>
        <5>1. \A r \in SigningReads(sk.parts) : r.from = sk.parts
          BY DEF SigningReads, Read
        <5> QED
          BY <4>2, <5>1, ZerosReadBack DEF AllBack
      <4> QED
        BY <1>0, <4>1, <4>2, HeldStrings
    <3>4. AllAgree({sk}, set)
      BY <2>2 DEF AllAgree
    <3> HIDE DEF strings
    <3> QED
      BY <3>1, <3>2, <3>3, <3>4, MakingCalls
  <2>3. CASE ~Throws("sign hook", set, {sk}) /\ sk.set # set
    <3>1. Answers("sign hook", set, {sk}, "invalid_argument", {})
      BY <1>6, <2>1, <2>3 DEF SignHook
    <3>2. Judged("sign hook", set, {sk}, "invalid_argument")
      BY <2>3 DEF Judged
    <3> QED
      BY <3>1, <3>2, AnsweringCalls, NothingReadNothingGiven
  <2> QED
    BY <2>0, <2>2, <2>3
<1>7. ASSUME NEW set \in DsaSets, NEW pk \in Held("public_key"), NEW s \in Held("signature"),
             VerifyHook(set, pk, s)
      PROVE  BoundaryInv'
  <2>0. CASE Throws("verify hook", set, {pk, s})
    BY <2>0, ThrowingCalls
  <2>1. /\ Size(pk.parts) = MlDsa[set].public_key <=> pk.set = set
        /\ Size(s.parts) = MlDsa[set].signature <=> s.set = set
    BY <1>0, HeldStrings, SizesTellSets
  <2>2. CASE ~Throws("verify hook", set, {pk, s}) /\ pk.set = set /\ s.set = set
    <3> DEFINE reads == VerificationReads(set, s.parts)
    <3>1. Answers("verify hook", set, {pk, s}, "verdict", reads)
      BY <1>7, <2>1, <2>2 DEF VerifyHook
    <3>2. Judged("verify hook", set, {pk, s}, "verdict")
      BY <2>2 DEF Judged
    <3>3. AllBack(reads)
      <4>1. CASE WellMade(s)
        <5>1. PICK o : s.parts = SignatureOf(set, o)
          BY <1>0, <2>2, <4>1, HeldStrings, DsaStrings
        <5> QED
          BY <5>1, VerificationReadsBack DEF AllBack
      <4>2. CASE \E size : s.parts = <<Part("zeros", "none", size)>>
        <5>1. \A r \in reads : r.from = s.parts
          BY DEF VerificationReads, Read
        <5> QED
          BY <4>2, <5>1, ZerosReadBack DEF AllBack
      <4> QED
        BY <1>0, <4>1, <4>2, HeldStrings
    <3> HIDE DEF reads
    <3> QED
      BY <3>1, <3>2, <3>3, AnsweringCalls
  <2>3. CASE ~Throws("verify hook", set, {pk, s}) /\ ~(pk.set = set /\ s.set = set)
    <3>1. Answers("verify hook", set, {pk, s}, "false", {})
      BY <1>7, <2>1, <2>3 DEF VerifyHook
    <3>2. Judged("verify hook", set, {pk, s}, "false")
      BY <2>3 DEF Judged
    <3> QED
      BY <3>1, <3>2, AnsweringCalls, NothingReadNothingGiven
  <2> QED
    BY <2>0, <2>2, <2>3
<1>8. ASSUME NEW key \in Held("pke_key"), NEW ct \in Held("ciphertext"), PkeDecryptHook(key, ct)
      PROVE  BoundaryInv'
  <2>0. CASE Throws("pke decrypt hook", "kem512", {key, ct})
    BY <2>0, ThrowingCalls
  <2>1. /\ Size(key.parts) = kMlKem512SecretKeyBytes <=> key.set = "kem512"
        /\ Size(ct.parts) = kMlKem512CiphertextBytes <=> ct.set = "kem512"
    <3>1. /\ Size(key.parts) = MlKem.kem512.k * EncodedBytes(12) <=> key.set = "kem512"
          /\ Size(ct.parts) = MlKem.kem512.ciphertext <=> ct.set = "kem512"
      BY <1>0, HeldStrings, SizesTellSets, KemTable
    <3> QED
      BY <3>1, WrittenTwice
  <2>2. CASE ~Throws("pke decrypt hook", "kem512", {key, ct}) /\ key.set = "kem512" /\ ct.set = "kem512"
    <3> DEFINE reads == DecryptionReads(key.parts, ct.parts)
    <3>1. Answers("pke decrypt hook", "kem512", {key, ct}, "message", reads)
      BY <1>8, <2>1, <2>2 DEF PkeDecryptHook
    <3>2. Judged("pke decrypt hook", "kem512", {key, ct}, "message")
      BY <2>2 DEF Judged
    <3>3. PICK o, size : key.parts = DecryptionKey(o) \/ key.parts = <<Part("zeros", "none", size)>>
      BY <1>0, <2>2, HeldStrings, KemStrings
    <3>4. PICK o2, size2 : ct.parts = CiphertextOf(o2) \/ ct.parts = <<Part("zeros", "none", size2)>>
      BY <1>0, <2>2, HeldStrings, KemStrings
    <3>5. AllBack(reads)
      BY <3>3, <3>4, DecryptionReadsBack DEF AllBack
    <3> HIDE DEF reads
    <3> QED
      BY <3>1, <3>2, <3>5, AnsweringCalls
  <2>3. CASE ~Throws("pke decrypt hook", "kem512", {key, ct}) /\ ~(key.set = "kem512" /\ ct.set = "kem512")
    <3>1. Answers("pke decrypt hook", "kem512", {key, ct}, "invalid_argument", {})
      BY <1>8, <2>1, <2>3 DEF PkeDecryptHook
    <3>2. Judged("pke decrypt hook", "kem512", {key, ct}, "invalid_argument")
      BY <2>3 DEF Judged
    <3> QED
      BY <3>1, <3>2, AnsweringCalls, NothingReadNothingGiven
  <2> QED
    BY <2>0, <2>2, <2>3
<1>9. ASSUME NEW seed, PkeKeygenHook(seed) PROVE BoundaryInv'
  <2> DEFINE strings == {Bytes("public_key", "kem512", EncapsulationKey(seed)),
                         Bytes("pke_key", "kem512", DecryptionKey(seed))}
  <2>1. Throws("pke keygen hook", "kem512", {}) \/ Makes("pke keygen hook", "kem512", {}, {}, strings)
    BY <1>9 DEF PkeKeygenHook
  <2>2. AllMade(strings)
    BY DEF AllMade, WellMade, KemMade
  <2> HIDE DEF strings
  <2> QED
    BY <2>1, <2>2, ThrowingCalls, MakingCalls, NothingReadNothingGiven
<1> QED
  BY <1>1, <1>2, <1>3, <1>4, <1>5, <1>6, <1>7, <1>8, <1>9 DEF CallHook

(* The invariant of the boundary holds of every reachable state. *)
LEMMA BoundaryHolds == Spec => []BoundaryInv
<1>1. Init => BoundaryInv
  BY DEF Init, NoCall, BoundaryInv, SetsKeptApart, PartsComeBack
<1>2. BoundaryInv /\ [Next]_vars => BoundaryInv'
  <2> SUFFICES ASSUME BoundaryInv, [Next]_vars PROVE BoundaryInv'
    OBVIOUS
  <2>1. CASE CallPublic
    BY <2>1, PublicCallsKeepSetsApart
  <2>2. CASE CallEntropy
    <3>1. ASSUME NEW scheme, NEW set, NEW purpose, RequestEntropy(scheme, set, purpose)
          PROVE  BoundaryInv'
      BY <3>1, QuietCalls DEF RequestEntropy, Judged
    <3>2. ASSUME NEW bytes, RandomBytes(bytes) PROVE BoundaryInv'
      BY <3>2, QuietCalls DEF RandomBytes, Judged
    <3> QED
      BY <2>2, <3>1, <3>2 DEF CallEntropy
  <2>3. CASE CallHarness
    <3>1. ASSUME NEW c, RunPlaceholder(c) PROVE BoundaryInv'
      BY <3>1, QuietCalls DEF RunPlaceholder, Judged
    <3>2. ASSUME NEW c, ValidateMetadata(c) PROVE BoundaryInv'
      BY <3>2, QuietCalls DEF ValidateMetadata, Judged
    <3> QED
      BY <2>3, <3>1, <3>2 DEF CallHarness
  <2>4. CASE CallHook
    BY <2>4, HookCallsKeepSetsApart
  <2>5. CASE UNCHANGED vars
    BY <2>5 DEF vars, BoundaryInv, SetsKeptApart, PartsComeBack
  <2> QED
    BY <2>1, <2>2, <2>3, <2>4, <2>5 DEF Next
<1> QED
  BY <1>1, <1>2, PTL DEF Spec

(* A string made for one set is refused by the functions and hooks of every
   other before anything of it is read, and by those of its own never for its
   size: for any number of strings and every sequence of calls. *)
THEOREM SizesKeepSetsApart == Spec => []SetsKeptApart
<1>1. BoundaryInv => SetsKeptApart
  BY DEF BoundaryInv
<1> QED
  BY <1>1, BoundaryHolds, PTL

(* Whatever a hook reads of a key, a ciphertext or a signature is, whole and
   alone, the part that was stored for it. *)
THEOREM StoredPartsComeBack == Spec => []PartsComeBack
<1>1. BoundaryInv => PartsComeBack
  BY DEF BoundaryInv
<1> QED
  BY <1>1, BoundaryHolds, PTL
=============================================================================

--------------------------- MODULE SamplingProofs ---------------------------
(***************************************************************************)
(* The samplers of sampling.hpp and the sponge of sha3.hpp they draw from, *)
(* for every degree, modulus, rate and byte stream the assumptions allow:  *)
(* SampleInBall's challenges, the two rejection samplers as                *)
(* implementations of RejectionSampler, SamplePolyCBD's use of its bits,   *)
(* and Keccak's padding and output.                                        *)
(***************************************************************************)
EXTENDS Samplers, Hashing, NaturalFacts, FiniteSetTheorems, SequenceTheorems, TLAPS

-----------------------------------------------------------------------------
(* SampleInBall. *)

(* The coefficient a placement makes nonzero: the sign drawn lands at j, and
   an earlier sign found at j moves to the empty top index i. *)
Added(c, i, j) == IF c[j] # 0 THEN i ELSE j

(* A placement makes one more coefficient nonzero. *)
LEMMA PlaceAddsOne ==
  ASSUME NEW c \in [Index -> {-1, 0, 1}], NEW i \in Index, NEW j \in 0 .. i,
         NEW s \in {-1, 1}, i \notin Support(c)
  PROVE  /\ Place(c, i, j, s) \in [Index -> {-1, 0, 1}]
         /\ Added(c, i, j) \notin Support(c)
         /\ Support(Place(c, i, j, s)) = Support(c) \cup {Added(c, i, j)}
<1> DEFINE p == Place(c, i, j, s)
<1>1. Support(c) = {k \in Index : c[k] # 0}
  BY DEF Support
<1>2. j \in Index /\ c[i] = 0
  BY <1>1, SizesAssumption DEF Index
<1>3. /\ p \in [Index -> {-1, 0, 1}]
      /\ \A k \in Index : p[k] = IF k = j THEN s ELSE IF k = i THEN c[j] ELSE c[k]
  BY <1>2 DEF Place
<1> HIDE DEF p
<1>4. \A k \in Index : p[k] # 0 <=> k = Added(c, i, j) \/ c[k] # 0
  BY <1>2, <1>3 DEF Added
<1>5. Support(p) = Support(c) \cup {Added(c, i, j)} /\ Added(c, i, j) \notin Support(c)
  <2>1. Support(p) = {k \in Index : p[k] # 0}
    BY <1>3 DEF Support
  <2>2. Added(c, i, j) \in Index
    BY <1>2 DEF Added
  <2>3. c[Added(c, i, j)] = 0
    BY <1>2 DEF Added
  <2>4. QED
    BY <1>1, <1>4, <2>1, <2>2, <2>3
<1>6. QED
  BY <1>3, <1>5 DEF p

(* What one step needs to know of the state it starts in. *)
IInv ==
  /\ TypeOK
  /\ pc \in {"picking", "done", "exhausted"} => tau <= MaxTau /\ byte_index >= SignBytes
  /\ pc = "start" => coefficients = Zero /\ offset = 0
  /\ pc = "invalid_argument" => coefficients = Zero /\ offset = 0
  /\ pc = "done" => offset = tau /\ result = Reduced(coefficients)
  /\ Cardinality(Support(coefficients)) = offset
  /\ pc = "picking" => \A k \in Support(coefficients) : k < Top

(* The nonzero coefficients are finitely many. *)
LEMMA SupportFinite ==
  ASSUME NEW c \in [Index -> {-1, 0, 1}]
  PROVE  IsFiniteSet(Support(c))
<1>1. IsFiniteSet(Index)
  BY FS_Interval, SizesAssumption DEF Index
<1>2. Support(c) \in SUBSET Index
  BY DEF Support
<1>3. QED
  BY <1>1, <1>2, FS_Subset

(* The zero polynomial has none. *)
LEMMA SupportZero == Support(Zero) = {}
BY DEF Support, Zero

(* Masking and reduction leave a position in range. *)
LEMMA ReductionTypes ==
  ASSUME NEW c \in [Index -> {-1, 0, 1}]
  PROVE  /\ Reduced(c) \in [Index -> {0, 1, Q - 1}]
         /\ Support(Reduced(c)) = Support(c)
<1>1. (-1) % Q = Q - 1 /\ 0 % Q = 0 /\ 1 % Q = 1
  BY SizesAssumption
<1>2. \A k \in Index : Reduced(c)[k] \in {0, 1, Q - 1} /\ (Reduced(c)[k] # 0 <=> c[k] # 0)
  BY <1>1, SizesAssumption DEF Reduced
<1>3. QED
  BY <1>2 DEF Reduced, Support

(* The inductive invariant holds at first. *)
LEMMA InitInv == Init => IInv
<1> SUFFICES ASSUME Init PROVE IInv
  OBVIOUS
<1>1. Len(bytes) \in Nat /\ tau \in Nat
  BY InputsAssumption DEF Init
<1>2. Zero \in [Index -> {-1, 0, 1}] /\ Zero \in [Index -> {0, 1, Q - 1}]
  BY DEF Zero
<1>3. TypeOK
  BY <1>1, <1>2 DEF Init, TypeOK
<1>4. Cardinality(Support(coefficients)) = 0
  BY SupportZero, FS_EmptySet DEF Init
<1>5. QED
  BY <1>3, <1>4 DEF Init, IInv

(* Every step of the sampler keeps it. *)
LEMMA StepInv == IInv /\ [Next]_vars => IInv'
<1> SUFFICES ASSUME IInv, [Next]_vars PROVE IInv'
  OBVIOUS
<1> USE DEF IInv, TypeOK
<1>0. Len(bytes) \in Nat /\ tau \in Nat /\ SignBytes \in Nat /\ N \in Nat
      /\ MaxTau \in Nat /\ MaxTau <= N
  BY InputsAssumption, SizesAssumption
<1>1. CASE Start
  <2>1. Support(coefficients) = {}
    BY <1>1, SupportZero DEF Start
  <2>2. QED
    BY <1>0, <1>1, <2>1 DEF Start, Top
<1>2. CASE BadArgument
  BY <1>0, <1>2 DEF BadArgument
<1>3. CASE Exhausted
  BY <1>0, <1>3 DEF Exhausted
<1>4. CASE RejectByte
  BY <1>0, <1>4 DEF RejectByte, OutOfBytes, Top
<1>5. CASE AcceptByte
  <2> DEFINE j == bytes[byte_index + 1]
             s == Sign(SignBit(offset))
  <2>0. pc = "picking" /\ offset < tau /\ ~OutOfBytes(byte_index)
    BY <1>5 DEF AcceptByte
  <2>1. /\ byte_index + 1 \in 1 .. Len(bytes)
        /\ Top \in Index /\ offset < tau
    <3>1. tau <= MaxTau /\ byte_index \in 0 .. Len(bytes) /\ offset \in Nat
      BY <2>0
    <3>2. byte_index < Len(bytes)
      BY <1>0, <2>0, <3>1 DEF OutOfBytes
    <3>3. N - tau + offset \in 0 .. N - 1
      BY <1>0, <2>0, <3>1
    <3>4. QED
      BY <1>0, <2>0, <3>1, <3>2, <3>3 DEF Top, Index
  <2>2. bytes \in Seq(0 .. N - 1)
    BY InputsAssumption
  <2>3. j \in 0 .. N - 1
    BY <2>1, <2>2, ElementOfSeq DEF j
  <2>4. /\ j <= Top
        /\ coefficients' = Place(coefficients, Top, j, s)
        /\ offset' = offset + 1 /\ byte_index' = byte_index + 1
        /\ UNCHANGED <<tau, bytes, pc, result>> /\ pc = "picking"
    BY <1>5 DEF AcceptByte, Accepts
  <2>5. j \in 0 .. Top
    BY <2>1, <2>3, <2>4 DEF Index
  <2>6. s \in {-1, 1}
    BY DEF Sign
  <2> HIDE DEF j, s
  <2> DEFINE k == Added(coefficients, Top, j)
  <2>7. Top \notin Support(coefficients)
    BY <2>0, <2>1, SizesAssumption DEF Index
  <2>8. /\ coefficients' \in [Index -> {-1, 0, 1}]
        /\ k \notin Support(coefficients)
        /\ Support(coefficients') = Support(coefficients) \cup {k}
    BY <2>1, <2>4, <2>5, <2>6, <2>7, PlaceAddsOne
  <2> HIDE DEF k
  <2>9. Cardinality(Support(coefficients')) = offset + 1
    BY <2>8, SupportFinite, FS_AddElement
  <2>10. (Cardinality(Support(coefficients)) = offset)'
    BY <2>4, <2>9
  <2>11. (\A m \in Support(coefficients) : m < Top)'
    <3>1. Top' = Top + 1 /\ Top \in Int
      BY <1>0, <2>4 DEF Top
    <3>2. \A m \in Support(coefficients) : m < Top /\ m \in Int
      BY <2>4, SizesAssumption DEF Support, Index
    <3>3. k <= Top /\ k \in Int
      BY <2>1, <2>5, SizesAssumption DEF k, Added, Index
    <3>4. QED
      BY <2>8, <3>1, <3>2, <3>3
  <2>12. TypeOK'
    BY <1>0, <2>1, <2>4, <2>8
  <2>13. QED
    BY <1>0, <2>4, <2>10, <2>11, <2>12
<1>6. CASE Return
  BY <1>0, <1>6, ReductionTypes DEF Return
<1>7. CASE UNCHANGED vars
  BY <1>7 DEF vars, Top
<1>8. QED
  BY <1>1, <1>2, <1>3, <1>4, <1>5, <1>6, <1>7 DEF Next

(* The inductive invariant of the challenge sampler. *)
LEMMA Inductive == Spec => []IInv
BY InitInv, StepInv, PTL DEF Spec

-----------------------------------------------------------------------------
Negatives(c) == {k \in Index : c[k] = -1}

(* The negative coefficients are finitely many. *)
LEMMA NegativesFinite ==
  ASSUME NEW c
  PROVE  IsFiniteSet(Negatives(c)) /\ Cardinality(Negatives(c)) \in Nat
<1>1. IsFiniteSet(Index) /\ Negatives(c) \in SUBSET Index
  BY FS_Interval, SizesAssumption DEF Index, Negatives
<1> QED
  BY <1>1, FS_Subset, FS_CardinalityType

(* A placement adds one negative sign when it places one, and none otherwise:
   a sign that has to move is moved, not copied. *)
LEMMA PlaceCountsSign ==
  ASSUME NEW c \in [Index -> {-1, 0, 1}], NEW i \in Index, NEW j \in 0 .. i,
         NEW s \in {-1, 1}, i \notin Support(c)
  PROVE  Cardinality(Negatives(Place(c, i, j, s)))
           = Cardinality(Negatives(c)) + (IF s = -1 THEN 1 ELSE 0)
<1> DEFINE p == Place(c, i, j, s)
           kept == Negatives(c) \ {j}
           moved == IF c[j] = -1 THEN kept \cup {i} ELSE kept
<1>1. j \in Index /\ c[i] = 0
  BY SizesAssumption DEF Index, Support
<1>2. \A k \in Index : p[k] = IF k = j THEN s ELSE IF k = i THEN c[j] ELSE c[k]
  BY <1>1 DEF Place
<1>3. Negatives(p) = IF s = -1 THEN moved \cup {j} ELSE moved
  <2> HIDE DEF p
  <2>1. \A k \in Index : p[k] = -1 <=> IF k = j THEN s = -1
                                       ELSE IF k = i THEN c[j] = -1 ELSE c[k] = -1
    BY <1>2
  <2>2. \A k \in Index : k \in moved <=> k # j /\ (c[k] = -1 \/ (k = i /\ c[j] = -1))
    BY <1>1 DEF Negatives
  <2>3. moved \subseteq Index
    BY DEF Negatives
  <2> HIDE DEF moved
  <2>4. \A k \in Index : k \in Negatives(p) <=> (k = j /\ s = -1) \/ k \in moved
    <3> SUFFICES ASSUME NEW k \in Index
                 PROVE  k \in Negatives(p) <=> (k = j /\ s = -1) \/ k \in moved
      OBVIOUS
    <3>1. k \in Negatives(p) <=> p[k] = -1
      BY DEF Negatives
    <3>2. CASE k = j
      BY <2>1, <2>2, <3>1, <3>2
    <3>3. CASE k = i /\ k # j
      BY <1>1, <2>1, <2>2, <3>1, <3>3
    <3>4. CASE k # i /\ k # j
      BY <2>1, <2>2, <3>1, <3>4
    <3> QED
      BY <3>2, <3>3, <3>4
  <2>5. Negatives(p) \subseteq Index /\ j \notin moved
    BY <1>1, <2>2 DEF Negatives
  <2>6. CASE s = -1
    BY <1>1, <2>3, <2>4, <2>5, <2>6
  <2>7. CASE s = 1
    BY <1>1, <2>3, <2>4, <2>5, <2>7
  <2> QED
    BY <2>6, <2>7
<1>4. IsFiniteSet(kept)
      /\ Cardinality(kept) = Cardinality(Negatives(c)) - (IF c[j] = -1 THEN 1 ELSE 0)
  BY <1>1, NegativesFinite, FS_RemoveElement DEF Negatives
<1>5. IsFiniteSet(moved) /\ Cardinality(moved) = Cardinality(Negatives(c))
  <2>1. i \notin kept
    BY <1>1 DEF Negatives
  <2> HIDE DEF kept
  <2>2. CASE c[j] = -1
    <3>1. Cardinality(kept \cup {i}) = Cardinality(kept) + 1 /\ IsFiniteSet(kept \cup {i})
      BY <1>4, <2>1, FS_AddElement
    <3> QED
      BY <1>4, <2>2, <3>1, NegativesFinite
  <2>3. CASE c[j] # -1
    BY <1>4, <2>3, NegativesFinite
  <2> QED
    BY <2>2, <2>3
<1>6. j \notin moved
  BY <1>1
<1> HIDE DEF moved, p
<1>7. Cardinality(moved \cup {j}) = Cardinality(moved) + 1
  BY <1>5, <1>6, FS_AddElement
<1>8. Cardinality(Negatives(p)) = Cardinality(Negatives(c)) + (IF s = -1 THEN 1 ELSE 0)
  BY <1>3, <1>5, <1>7, NegativesFinite
<1> QED
  BY <1>8 DEF p

(* The sign bits set among the first n, and the bytes of value at most N - tau
   among those before index n. *)
SetBits(stream, n) == {k \in 0 .. n - 1 : BitOf(stream, k) = 1}

SurelyAccepted(n) == {k \in SignBytes + 1 .. n : bytes[k] <= N - tau}

(* A sign bit is 0 or 1. *)
LEMMA BitIsBit ==
  ASSUME NEW stream \in Streams, NEW k \in Nat, Len(stream) >= SignBytes,
         k < ByteBits * SignBytes
  PROVE  BitOf(stream, k) \in {0, 1}
<1> DEFINE d == k \div ByteBits
           m == k % ByteBits
<1>1. ByteBits \in Nat \ {0} /\ SignBytes \in Nat /\ stream \in Seq(0 .. N - 1)
  BY SizesAssumption, InputsAssumption
<1>2. d \in Int /\ m \in 0 .. ByteBits - 1 /\ k = ByteBits * d + m
  BY <1>1, DivisionFacts
<1> HIDE DEF d, m
<1>3. d >= 0
  <2>1. d <= -1 => ByteBits * d <= -ByteBits
    BY <1>1, <1>2
  <2> QED
    BY <1>1, <1>2, <2>1
<1>4. d < SignBytes
  <2>1. d >= SignBytes => ByteBits * d >= ByteBits * SignBytes
    BY <1>1, <1>2
  <2> QED
    BY <1>1, <1>2, <2>1
<1>5. d + 1 \in 1 .. Len(stream)
  BY <1>1, <1>2, <1>3, <1>4
<1>6. stream[d + 1] \in 0 .. N - 1
  BY <1>1, <1>5, ElementOfSeq
<1>7. stream[d + 1] \in Int /\ 2^m \in Int
  BY <1>1, <1>2, <1>6, SizesAssumption
<1>8. (stream[d + 1] \div 2^m) % 2 \in {0, 1}
  <2> DEFINE x == stream[d + 1]
             y == 2^m
  <2>1. x \in Int /\ y \in Int
    BY <1>7
  <2> HIDE DEF x, y
  <2>2. (x \div y) % 2 \in {0, 1}
    BY <2>1
  <2> QED
    BY <2>2 DEF x, y
<1> QED
  BY <1>8 DEF BitOf, d, m

(* One more sign bit used is one more bit counted. *)
LEMMA SetBitsGrow ==
  ASSUME NEW stream, NEW n \in Nat
  PROVE  /\ IsFiniteSet(SetBits(stream, n)) /\ Cardinality(SetBits(stream, n)) \in Nat
         /\ Cardinality(SetBits(stream, n + 1))
              = Cardinality(SetBits(stream, n)) + (IF BitOf(stream, n) = 1 THEN 1 ELSE 0)
<1>1. IsFiniteSet(0 .. n - 1) /\ SetBits(stream, n) \in SUBSET (0 .. n - 1)
  BY FS_Interval DEF SetBits
<1>2. IsFiniteSet(SetBits(stream, n)) /\ Cardinality(SetBits(stream, n)) \in Nat
  BY <1>1, FS_Subset, FS_CardinalityType
<1>3. n \notin SetBits(stream, n)
  BY DEF SetBits
<1>4. SetBits(stream, n + 1)
        = IF BitOf(stream, n) = 1 THEN SetBits(stream, n) \cup {n} ELSE SetBits(stream, n)
  BY DEF SetBits
<1> QED
  BY <1>2, <1>3, <1>4, FS_AddElement

(* One more byte read is one more byte that is always accepted, or none. *)
LEMMA SurelyAcceptedGrow ==
  ASSUME NEW n \in Nat, n >= SignBytes
  PROVE  /\ IsFiniteSet(SurelyAccepted(n)) /\ Cardinality(SurelyAccepted(n)) \in Nat
         /\ Cardinality(SurelyAccepted(n + 1))
              = Cardinality(SurelyAccepted(n)) + (IF bytes[n + 1] <= N - tau THEN 1 ELSE 0)
<1>1. SignBytes \in Nat
  BY SizesAssumption
<1>2. IsFiniteSet(SignBytes + 1 .. n) /\ SurelyAccepted(n) \in SUBSET (SignBytes + 1 .. n)
  BY <1>1, FS_Interval DEF SurelyAccepted
<1>3. IsFiniteSet(SurelyAccepted(n)) /\ Cardinality(SurelyAccepted(n)) \in Nat
  BY <1>2, FS_Subset, FS_CardinalityType
<1>4. n + 1 \notin SurelyAccepted(n)
  BY <1>1 DEF SurelyAccepted
<1>5. SurelyAccepted(n + 1)
        = IF bytes[n + 1] <= N - tau THEN SurelyAccepted(n) \cup {n + 1}
          ELSE SurelyAccepted(n)
  BY <1>1 DEF SurelyAccepted
<1> DEFINE S == SurelyAccepted(n)
           x == n + 1
<1>6. IsFiniteSet(S) /\ x \notin S
  BY <1>3, <1>4
<1> HIDE DEF S, x
<1>7. Cardinality(S \cup {x}) = Cardinality(S) + 1
  BY <1>6, FS_AddElement
<1> QED
  BY <1>3, <1>5, <1>7 DEF S, x

(* What the counting properties need of the state a step starts in. *)
CountInv ==
  /\ pc \in {"picking", "done"} =>
       Cardinality(Negatives(coefficients)) = Cardinality(SetBits(bytes, offset))
  /\ pc \in {"picking", "exhausted"} => Cardinality(SurelyAccepted(byte_index)) <= offset
  /\ pc \in {"picking", "done", "exhausted"} => Len(bytes) >= SignBytes
  /\ pc = "exhausted" => byte_index = Len(bytes) /\ offset < tau

(* The counts hold at first. *)
LEMMA InitCount == Init => CountInv
BY DEF Init, CountInv

(* Every step keeps the counts. *)
LEMMA StepCount == IInv /\ CountInv /\ [Next]_vars => CountInv'
<1> SUFFICES ASSUME IInv, CountInv, [Next]_vars PROVE CountInv'
  OBVIOUS
<1>0. /\ Len(bytes) \in Nat /\ tau \in Nat /\ SignBytes \in Nat /\ N \in Nat
      /\ MaxTau \in Nat /\ MaxTau <= N /\ MaxTau <= ByteBits * SignBytes
      /\ byte_index \in 0 .. Len(bytes) /\ offset \in Nat /\ offset <= tau
      /\ coefficients \in [Index -> {-1, 0, 1}]
  BY InputsAssumption, SizesAssumption DEF IInv, TypeOK
<1>1. CASE Start
  <2>1. /\ pc' = "picking" /\ byte_index' = SignBytes /\ Len(bytes) >= SignBytes
        /\ coefficients' = Zero /\ offset' = 0 /\ bytes' = bytes /\ tau' = tau
    BY <1>1 DEF Start, IInv
  <2>2. Negatives(Zero) = {} /\ SetBits(bytes, 0) = {}
    BY DEF Negatives, Zero, SetBits
  <2>3. SurelyAccepted(SignBytes) = {}
    BY <1>0 DEF SurelyAccepted
  <2>4. SurelyAccepted(byte_index)' = SurelyAccepted(SignBytes)
    BY <2>1 DEF SurelyAccepted
  <2> QED
    BY <2>1, <2>2, <2>3, <2>4, FS_EmptySet DEF CountInv
<1>2. CASE BadArgument
  BY <1>2 DEF BadArgument, CountInv
<1>3. CASE Exhausted
  <2>1. /\ pc = "picking" /\ offset < tau /\ byte_index >= Len(bytes) /\ pc' = "exhausted"
        /\ UNCHANGED <<tau, bytes, coefficients, offset, byte_index, result>>
    BY <1>3 DEF Exhausted, OutOfBytes
  <2>2. SurelyAccepted(byte_index)' = SurelyAccepted(byte_index)
    BY <2>1 DEF SurelyAccepted
  <2> QED
    BY <1>0, <2>1, <2>2 DEF CountInv
<1>4. CASE RejectByte
  <2>1. /\ pc = "picking" /\ offset < tau /\ byte_index < Len(bytes)
        /\ ~(bytes[byte_index + 1] <= Top) /\ byte_index' = byte_index + 1
        /\ UNCHANGED <<tau, bytes, pc, coefficients, offset, result>>
    BY <1>0, <1>4 DEF RejectByte, OutOfBytes, Accepts
  <2>2. ~(bytes[byte_index + 1] <= N - tau)
    <3>1. bytes[byte_index + 1] \in 0 .. N - 1
      BY <1>0, <2>1, InputsAssumption, ElementOfSeq DEF IInv, TypeOK
    <3> QED
      BY <1>0, <2>1, <3>1 DEF Top
  <2>3. byte_index >= SignBytes
    BY <2>1 DEF IInv
  <2>4. Cardinality(SurelyAccepted(byte_index + 1)) <= offset
    <3>1. /\ Cardinality(SurelyAccepted(byte_index)) \in Nat
          /\ Cardinality(SurelyAccepted(byte_index + 1))
               = Cardinality(SurelyAccepted(byte_index))
                 + (IF bytes[byte_index + 1] <= N - tau THEN 1 ELSE 0)
      BY <1>0, <2>3, SurelyAcceptedGrow
    <3> QED
      BY <1>0, <2>1, <2>2, <3>1 DEF CountInv
  <2>5. SurelyAccepted(byte_index)' = SurelyAccepted(byte_index + 1)
    BY <2>1 DEF SurelyAccepted
  <2> QED
    BY <2>1, <2>4, <2>5 DEF CountInv
<1>5. CASE AcceptByte
  <2> DEFINE j == bytes[byte_index + 1]
             s == Sign(SignBit(offset))
  <2>1. /\ pc = "picking" /\ offset < tau /\ byte_index < Len(bytes) /\ j <= Top
        /\ coefficients' = Place(coefficients, Top, j, s)
        /\ byte_index' = byte_index + 1 /\ offset' = offset + 1
        /\ UNCHANGED <<tau, bytes, pc, result>>
    BY <1>0, <1>5 DEF AcceptByte, OutOfBytes, Accepts
  <2>2. tau <= MaxTau /\ byte_index >= SignBytes
    BY <2>1 DEF IInv
  <2>3. Top \in Index /\ Top \notin Support(coefficients)
    BY <1>0, <2>1, <2>2 DEF Top, Index, IInv
  <2>4. j \in 0 .. N - 1
    BY <1>0, <2>1, InputsAssumption, ElementOfSeq DEF IInv, TypeOK
  <2>5. j \in 0 .. Top
    BY <2>1, <2>3, <2>4, SizesAssumption DEF Index
  <2>6. BitOf(bytes, offset) \in {0, 1}
    <3>1. /\ bytes \in Streams /\ offset \in Nat /\ Len(bytes) >= SignBytes
          /\ offset < ByteBits * SignBytes
      <4>1. ByteBits * SignBytes \in Int
        BY SizesAssumption
      <4> QED
        BY <1>0, <2>1, <2>2, <4>1 DEF IInv, TypeOK, CountInv
    <3> QED
      BY <3>1, BitIsBit
  <2>7. s \in {-1, 1} /\ (s = -1 <=> BitOf(bytes, offset) = 1)
    BY <2>6 DEF Sign, SignBit
  <2> HIDE DEF j, s
  <2>8. Cardinality(Negatives(coefficients'))
          = Cardinality(Negatives(coefficients)) + (IF s = -1 THEN 1 ELSE 0)
    BY <1>0, <2>1, <2>3, <2>5, <2>7, PlaceCountsSign
  <2>9. Cardinality(SetBits(bytes, offset + 1))
          = Cardinality(SetBits(bytes, offset)) + (IF BitOf(bytes, offset) = 1 THEN 1 ELSE 0)
    BY <1>0, SetBitsGrow
  <2>10. Cardinality(SurelyAccepted(byte_index + 1)) <= offset + 1
    <3>1. /\ Cardinality(SurelyAccepted(byte_index)) \in Nat
          /\ Cardinality(SurelyAccepted(byte_index + 1))
               = Cardinality(SurelyAccepted(byte_index))
                 + (IF bytes[byte_index + 1] <= N - tau THEN 1 ELSE 0)
      BY <1>0, <2>2, SurelyAcceptedGrow
    <3> QED
      BY <1>0, <2>1, <3>1 DEF CountInv
  <2>11. SurelyAccepted(byte_index)' = SurelyAccepted(byte_index + 1)
    BY <2>1 DEF SurelyAccepted
  <2>12. Cardinality(Negatives(coefficients')) = Cardinality(SetBits(bytes, offset + 1))
    BY <2>1, <2>7, <2>8, <2>9 DEF CountInv
  <2> QED
    BY <2>1, <2>10, <2>11, <2>12 DEF CountInv
<1>6. CASE Return
  BY <1>0, <1>6 DEF Return, CountInv
<1>7. CASE UNCHANGED vars
  BY <1>7 DEF vars, CountInv, SurelyAccepted
<1>8. QED
  BY <1>1, <1>2, <1>3, <1>4, <1>5, <1>6, <1>7 DEF Next

(* The counts of the challenge sampler. *)
LEMMA InductiveCount == Spec => [](IInv /\ CountInv)
BY InitInv, StepInv, InitCount, StepCount, PTL DEF Spec

-----------------------------------------------------------------------------
(* Every local of the sampler keeps its type, and no index ever leaves its
   array, for every degree, weight and stream. *)
THEOREM TypeCorrect == Spec => []TypeOK
<1>1. IInv => TypeOK
  BY DEF IInv
<1>2. QED
  BY Inductive, <1>1, PTL

(* The inside-out shuffle never loses a placed sign. *)
THEOREM SignsAreKept == Spec => []PlacedBelowTop
<1>1. IInv => PlacedBelowTop
  BY DEF IInv, PlacedBelowTop
<1>2. QED
  BY Inductive, <1>1, PTL

(* A challenge that is returned has weight exactly tau. *)
THEOREM ChallengeHasWeightTau == Spec => []ChallengeWeight
<1>1. IInv => ChallengeWeight
  BY ReductionTypes DEF IInv, TypeOK, ChallengeWeight
<1>2. QED
  BY Inductive, <1>1, PTL

(* The signs of a returned challenge are the sign bits drawn: as many negative
   coefficients as bits set among the first tau. *)
THEOREM SignsAreTheBits == Spec => []SignsFollowBits
<1>1. IInv /\ CountInv => SignsFollowBits
  <2> SUFFICES ASSUME IInv, CountInv, pc = "done"
               PROVE  Cardinality({k \in Index : result[k] = Q - 1})
                        = Cardinality({k \in 0 .. tau - 1 : BitOf(bytes, k) = 1})
    BY DEF SignsFollowBits
  <2>1. coefficients \in [Index -> {-1, 0, 1}] /\ result = Reduced(coefficients)
        /\ offset = tau
    BY DEF IInv, TypeOK
  <2>2. (-1) % Q = Q - 1 /\ 0 % Q = 0 /\ 1 % Q = 1 /\ Q > 2 /\ Q \in Nat
    BY SizesAssumption
  <2>3. \A k \in Index : result[k] = Q - 1 <=> coefficients[k] = -1
    BY <2>1, <2>2 DEF Reduced
  <2>4. {k \in Index : result[k] = Q - 1} = Negatives(coefficients)
    BY <2>3 DEF Negatives
  <2>5. {k \in 0 .. tau - 1 : BitOf(bytes, k) = 1} = SetBits(bytes, offset)
    BY <2>1 DEF SetBits
  <2> QED
    BY <2>4, <2>5 DEF CountInv
<1>2. QED
  BY InductiveCount, <1>1, PTL

(* The sampler gives up only on streams that are really too short. *)
THEOREM GivesUpOnlyWhenShort == Spec => []ExhaustedOnlyWhenShort
<1>1. IInv /\ CountInv => ExhaustedOnlyWhenShort
  <2> SUFFICES ASSUME IInv, CountInv, pc = "exhausted"
               PROVE  Cardinality({k \in SignBytes + 1 .. Len(bytes) : bytes[k] <= N - tau})
                        < tau
    BY DEF ExhaustedOnlyWhenShort
  <2>1. Cardinality(SurelyAccepted(byte_index)) <= offset /\ byte_index = Len(bytes)
        /\ offset < tau
    BY DEF CountInv
  <2>2. offset \in Nat /\ tau \in Nat /\ byte_index \in Nat /\ byte_index >= SignBytes
    BY InputsAssumption DEF IInv, TypeOK
  <2>3. Cardinality(SurelyAccepted(byte_index)) \in Nat
    BY <2>2, SurelyAcceptedGrow
  <2>4. SurelyAccepted(byte_index)
          = {k \in SignBytes + 1 .. Len(bytes) : bytes[k] <= N - tau}
    BY <2>1 DEF SurelyAccepted
  <2> QED
    BY <2>1, <2>2, <2>3, <2>4
<1>2. QED
  BY InductiveCount, <1>1, PTL

-----------------------------------------------------------------------------
(* How many choices lead to one challenge. *)

Arrays == [Index -> {-1, 0, 1}]

(* The arrays with k signs, all below index `top'. *)
Filling(top, k) ==
  {c \in Arrays : Cardinality(Support(c)) = k /\ \A x \in Support(c) : x < top}

(* The first k accepted indices when index `first' is filled first, and bits. *)
PicksFrom(first, k) ==
  {p \in [0 .. k - 1 -> Index] : \A x \in 0 .. k - 1 : Accepts(first + x, p[x])}

BitsOf(k) == [0 .. k - 1 -> {0, 1}]

(* The arrays after each placement. *)
Placements(f, first, k, p, b) ==
  /\ f[0] = Zero
  /\ \A x \in 1 .. k : f[x] = Place(f[x - 1], first + x - 1, p[x - 1], Sign(b[x - 1]))

Placed(first, k, p, b) ==
  (CHOOSE f \in [0 .. k -> Arrays] : Placements(f, first, k, p, b))[k]

(* The choices that lead to c. *)
Ways(first, k, c) ==
  {w \in PicksFrom(first, k) \X BitsOf(k) : Placed(first, k, w[1], w[2]) = c}

(* A placement of a sign turns an array into an array. *)
LEMMA PlaceIsArray ==
  ASSUME NEW c \in Arrays, NEW i, NEW j \in Index, NEW bit
  PROVE  Place(c, i, j, Sign(bit)) \in Arrays
BY DEF Place, Arrays, Sign

(* There is one sequence of arrays for given choices. *)
LEMMA PlacementsExist ==
  ASSUME NEW first \in Nat, NEW k \in Nat, NEW p \in [0 .. k - 1 -> Index], NEW b
  PROVE  \E f \in [0 .. k -> Arrays] : Placements(f, first, k, p, b)
<1> DEFINE turn == [x \in 1 .. k |->
                     [v \in Arrays |-> Place(v, first + x - 1, p[x - 1], Sign(b[x - 1]))]]
<1>0. Zero \in Arrays
  BY DEF Zero, Arrays
<1>1. turn \in [1 .. k -> [Arrays -> Arrays]]
  <2>1. ASSUME NEW x \in 1 .. k, NEW v \in Arrays
        PROVE  Place(v, first + x - 1, p[x - 1], Sign(b[x - 1])) \in Arrays
    <3>1. p[x - 1] \in Index
      <4>1. x - 1 \in 0 .. k - 1
        OBVIOUS
      <4> QED
        BY <4>1
    <3> QED
      BY <3>1, PlaceIsArray
  <2> QED
    BY <2>1
<1>2. \A x \in 1 .. k, v \in Arrays :
        turn[x][v] = Place(v, first + x - 1, p[x - 1], Sign(b[x - 1]))
  OBVIOUS
<1> HIDE DEF turn
<1>3. PICK f \in [0 .. k -> Arrays] : Recursive(f, k, Zero, turn)
  BY <1>0, <1>1, RecursionExists
<1>4. \A x \in 1 .. k : f[x - 1] \in Arrays
  <2> TAKE x \in 1 .. k
  <2>1. x - 1 \in 0 .. k
    OBVIOUS
  <2> QED
    BY <2>1
<1> QED
  <2>1. f[0] = Zero /\ \A x \in 1 .. k : f[x] = turn[x][f[x - 1]]
    BY <1>3, Zenon DEF Recursive
  <2>2. \A x \in 1 .. k : f[x] = Place(f[x - 1], first + x - 1, p[x - 1], Sign(b[x - 1]))
    BY <1>2, <1>4, <2>1, Zenon
  <2> QED
    BY <2>1, <2>2, Zenon DEF Placements

(* Choices that agree on the first k placements lead to one array after k. *)
LEMMA PlacementsAgree ==
  ASSUME NEW first \in Nat, NEW k \in Nat, NEW n \in Nat, k <= n,
         NEW p, NEW b, NEW q, NEW d, NEW f, NEW g,
         \A x \in 0 .. k - 1 : p[x] = q[x] /\ b[x] = d[x],
         Placements(f, first, k, p, b), Placements(g, first, n, q, d)
  PROVE  f[k] = g[k]
<1> DEFINE T == {x \in Nat : x <= k => f[x] = g[x]}
<1>1. 0 \in T
  BY DEF Placements
<1>2. ASSUME NEW x \in Nat, x \in T PROVE x + 1 \in T
  <2> SUFFICES ASSUME x + 1 <= k PROVE f[x + 1] = g[x + 1]
    OBVIOUS
  <2>1. /\ x + 1 \in 1 .. k /\ x + 1 \in 1 .. n /\ x \in 0 .. k - 1
        /\ (x + 1) - 1 = x /\ f[x] = g[x]
    BY <1>2
  <2>2. f[x + 1] = Place(f[(x + 1) - 1], first + (x + 1) - 1, p[(x + 1) - 1],
                         Sign(b[(x + 1) - 1]))
    BY <2>1 DEF Placements
  <2>3. g[x + 1] = Place(g[(x + 1) - 1], first + (x + 1) - 1, q[(x + 1) - 1],
                         Sign(d[(x + 1) - 1]))
    BY <2>1 DEF Placements
  <2> QED
    BY <2>1, <2>2, <2>3, Zenon
<1> HIDE DEF T
<1>3. Nat \subseteq T
  BY <1>1, <1>2, SetInduction
<1> QED
  BY <1>3 DEF T

(* The array after k placements is the last of that sequence. *)
LEMMA PlacedIsLast ==
  ASSUME NEW first \in Nat, NEW k \in Nat, NEW p \in [0 .. k - 1 -> Index], NEW b,
         NEW f, Placements(f, first, k, p, b)
  PROVE  Placed(first, k, p, b) = f[k]
<1> DEFINE g == CHOOSE h \in [0 .. k -> Arrays] : Placements(h, first, k, p, b)
<1>1. Placements(g, first, k, p, b)
  BY PlacementsExist
<1> HIDE DEF g
<1>2. g[k] = f[k]
  BY <1>1, PlacementsAgree
<1> QED
  BY <1>2 DEF Placed, g

(* The first n values of a function on more numbers. *)
Cut(f, n) == [x \in 0 .. n - 1 |-> f[x]]

(* One placement more. *)
LEMMA PlacedUnfolds ==
  ASSUME NEW first \in Nat, NEW k \in Nat, NEW p \in [0 .. k -> Index], NEW b
  PROVE  /\ Placed(first, 0, <<>>, <<>>) = Zero
         /\ Placed(first, k + 1, p, b)
              = Place(Placed(first, k, Cut(p, k), Cut(b, k)), first + k, p[k], Sign(b[k]))
<1>0. k + 1 \in Nat /\ (k + 1) - 1 = k /\ k + 1 \in 1 .. k + 1 /\ first + (k + 1) - 1 = first + k
  OBVIOUS
<1>1. Placed(first, 0, <<>>, <<>>) = Zero
  <2> DEFINE z == [x \in 0 .. 0 |-> Zero]
             m == 0
             none == <<>>
  <2>1. Placements(z, first, m, none, none) /\ z[m] = Zero
    BY DEF Placements
  <2>2. m \in Nat /\ none \in [0 .. m - 1 -> Index]
    OBVIOUS
  <2>3. Placed(first, m, none, none) = z[m]
    <3> HIDE DEF z, m, none
    <3> QED
      BY <2>1, <2>2, PlacedIsLast
  <2> QED
    BY <2>1, <2>3, Zenon
<1>2. p \in [0 .. (k + 1) - 1 -> Index]
  BY <1>0
<1>3. PICK f \in [0 .. k + 1 -> Arrays] : Placements(f, first, k + 1, p, b)
  BY <1>0, <1>2, PlacementsExist
<1>4. Placed(first, k + 1, p, b) = f[k + 1]
  BY <1>0, <1>2, <1>3, PlacedIsLast
<1>5. f[k + 1] = Place(f[k], first + k, p[k], Sign(b[k]))
  <2>1. f[k + 1] = Place(f[(k + 1) - 1], first + (k + 1) - 1, p[(k + 1) - 1], Sign(b[(k + 1) - 1]))
    BY <1>0, <1>3 DEF Placements
  <2> QED
    BY <1>0, <2>1, Zenon
<1>6. Placed(first, k, Cut(p, k), Cut(b, k)) = f[k]
  <2>1. Cut(p, k) \in [0 .. k - 1 -> Index]
    BY DEF Cut
  <2>2. Placements(f, first, k, Cut(p, k), Cut(b, k))
    <3>1. ASSUME NEW x \in 1 .. k
          PROVE  f[x] = Place(f[x - 1], first + x - 1, Cut(p, k)[x - 1], Sign(Cut(b, k)[x - 1]))
      <4>1. x - 1 \in 0 .. k - 1 /\ x \in 1 .. k + 1
        OBVIOUS
      <4>2. Cut(p, k)[x - 1] = p[x - 1] /\ Cut(b, k)[x - 1] = b[x - 1]
        BY <4>1 DEF Cut
      <4>3. f[x] = Place(f[x - 1], first + x - 1, p[x - 1], Sign(b[x - 1]))
        BY <1>3, <4>1 DEF Placements
      <4> QED
        BY <4>2, <4>3, Zenon
    <3> QED
      BY <1>3, <3>1 DEF Placements
  <2> QED
    BY <2>1, <2>2, PlacedIsLast
<1> QED
  BY <1>1, <1>4, <1>5, <1>6

(* Placing k signs gives an array with k signs below the index filled next. *)
LEMMA PlacedFills ==
  ASSUME NEW first \in Nat, NEW k \in Nat, first + k <= N,
         NEW p \in PicksFrom(first, k), NEW b \in BitsOf(k)
  PROVE  Placed(first, k, p, b) \in Filling(first + k, k)
<1> DEFINE T == {n \in Nat : first + n <= N =>
                   \A q \in PicksFrom(first, n), d \in BitsOf(n) :
                     Placed(first, n, q, d) \in Filling(first + n, n)}
<1>1. 0 \in T
  <2>1. \A q \in PicksFrom(first, 0), d \in BitsOf(0) : q = <<>> /\ d = <<>>
    BY DEF PicksFrom, BitsOf
  <2>2. Zero \in Filling(first + 0, 0)
    <3>1. Zero \in Arrays
      BY DEF Zero, Arrays
    <3> QED
      BY <3>1, SupportZero, FS_EmptySet DEF Filling
  <2>3. Placed(first, 0, <<>>, <<>>) = Zero
    <3>1. [x \in 0 .. 0 |-> 0] \in [0 .. 0 -> Index]
      BY SizesAssumption DEF Index
    <3>2. 0 \in Nat
      OBVIOUS
    <3> QED
      BY <3>1, <3>2, PlacedUnfolds
  <2> QED
    BY <2>1, <2>2, <2>3
<1>2. ASSUME NEW n \in Nat, n \in T PROVE n + 1 \in T
  <2> SUFFICES ASSUME first + (n + 1) <= N, NEW q \in PicksFrom(first, n + 1), NEW d \in BitsOf(n + 1)
               PROVE  Placed(first, n + 1, q, d) \in Filling(first + (n + 1), n + 1)
    OBVIOUS
  <2> DEFINE c == Placed(first, n, Cut(q, n), Cut(d, n))
             i == first + n
             j == q[n]
             s == Sign(d[n])
  <2>1. /\ (n + 1) - 1 = n /\ n \in 0 .. n /\ i \in Index /\ first + n <= N
        /\ N \in Nat
    BY SizesAssumption DEF Index
  <2>2. q \in [0 .. n -> Index] /\ (\A x \in 0 .. n : Accepts(first + x, q[x])) /\ d \in [0 .. n -> {0, 1}]
    BY <2>1 DEF PicksFrom, BitsOf
  <2>3. Cut(q, n) \in PicksFrom(first, n) /\ Cut(d, n) \in BitsOf(n)
    <3>1. \A x \in 0 .. n - 1 : x \in 0 .. n
      OBVIOUS
    <3> QED
      BY <2>2, <3>1 DEF Cut, PicksFrom, BitsOf
  <2>4. c \in Filling(i, n)
    BY <1>2, <2>1, <2>3
  <2>5. Placed(first, n + 1, q, d) = Place(c, i, j, s)
    BY <2>2, PlacedUnfolds
  <2>6. j \in 0 .. i /\ s \in {-1, 1}
    BY <2>1, <2>2 DEF Accepts, Index, Sign
  <2> HIDE DEF c, j, s
  <2>7. /\ c \in [Index -> {-1, 0, 1}] /\ Cardinality(Support(c)) = n
        /\ \A x \in Support(c) : x < i
    BY <2>4 DEF Filling, Arrays
  <2> HIDE DEF i
  <2>8. i \notin Support(c)
    BY <2>1, <2>7 DEF Index
  <2> DEFINE a == Added(c, i, j)
  <2>9. /\ Place(c, i, j, s) \in [Index -> {-1, 0, 1}] /\ a \notin Support(c)
        /\ Support(Place(c, i, j, s)) = Support(c) \cup {a}
    BY <2>1, <2>6, <2>7, <2>8, PlaceAddsOne
  <2>10. a \in 0 .. i
    BY <2>1, <2>6 DEF Added, Index
  <2> HIDE DEF a
  <2>11. Cardinality(Support(Place(c, i, j, s))) = n + 1
    BY <2>7, <2>9, SupportFinite, FS_AddElement
  <2>12. \A x \in Support(Place(c, i, j, s)) : x < first + (n + 1)
    <3>1. \A x \in Support(c) : x < i /\ x \in Int
      BY <2>7 DEF Support, Index
    <3>2. i < first + (n + 1) /\ i \in Int
      BY DEF i
    <3> QED
      BY <2>9, <2>10, <3>1, <3>2
  <2> QED
    BY <2>5, <2>9, <2>11, <2>12 DEF Filling, Arrays
<1> HIDE DEF T
<1>3. Nat \subseteq T
  BY <1>1, <1>2, SetInduction
<1> QED
  BY <1>3 DEF T

-----------------------------------------------------------------------------
(* Where h takes the value r. *)
Fibre(S, h, r) == {s \in S : h[s] = r}

(* h splits S into fibres over R of m elements each. *)
EvenFibres(S, h, R, m) ==
  /\ \A s \in S : h[s] \in R
  /\ \A r \in R : IsFiniteSet(Fibre(S, h, r)) /\ Cardinality(Fibre(S, h, r)) = m

(* Then S has m times as many elements as there are fibres. *)
LEMMA FibresMultiply ==
  ASSUME NEW S, NEW R, IsFiniteSet(R), NEW h, NEW m \in Nat, EvenFibres(S, h, R, m)
  PROVE  IsFiniteSet(S) /\ Cardinality(S) = Cardinality(R) * m
<1> DEFINE Over(A) == {s \in S : h[s] \in A}
           T == {n \in Nat : \A A \in SUBSET R : Cardinality(A) = n =>
                   IsFiniteSet(Over(A)) /\ Cardinality(Over(A)) = n * m}
<1>1. \A A \in SUBSET R : IsFiniteSet(A) /\ Cardinality(A) \in Nat
  BY FS_Subset, FS_CardinalityType
<1>2. 0 \in T
  <2>1. ASSUME NEW A \in SUBSET R, Cardinality(A) = 0
        PROVE  IsFiniteSet(Over(A)) /\ Cardinality(Over(A)) = 0 * m
    <3>1. A = {}
      BY <1>1, <2>1, FS_EmptySet
    <3>2. Over(A) = {} /\ 0 * m = 0
      BY <3>1
    <3> QED
      BY <3>2, FS_EmptySet
  <2> QED
    BY <2>1
<1>3. ASSUME NEW n \in Nat, n \in T PROVE n + 1 \in T
  <2> SUFFICES ASSUME NEW A \in SUBSET R, Cardinality(A) = n + 1
               PROVE  IsFiniteSet(Over(A)) /\ Cardinality(Over(A)) = (n + 1) * m
    OBVIOUS
  <2>1. PICK r \in A : TRUE
    <3>1. A # {}
      <4>1. Cardinality({}) = 0 /\ n + 1 # 0
        BY FS_EmptySet
      <4> QED
        BY <4>1
    <3> QED
      BY <3>1
  <2> DEFINE rest == A \ {r}
             fibre == Fibre(S, h, r)
  <2>2. rest \in SUBSET R /\ Cardinality(rest) = n
    <3>1. IsFiniteSet(A)
      BY <1>1
    <3>2. Cardinality(A \ {r}) = Cardinality(A) - 1
      BY <2>1, <3>1, FS_RemoveElement
    <3> QED
      BY <3>2
  <2>3. IsFiniteSet(Over(rest)) /\ Cardinality(Over(rest)) = n * m
    BY <1>3, <2>2
  <2>4. IsFiniteSet(fibre) /\ Cardinality(fibre) = m
    BY <2>1 DEF EvenFibres
  <2>5. Over(A) = Over(rest) \cup fibre /\ Over(rest) \cap fibre = {}
    BY <2>1 DEF Fibre
  <2> HIDE DEF Over, fibre, rest
  <2>6. /\ IsFiniteSet(Over(A))
        /\ Cardinality(Over(A)) = Cardinality(Over(rest)) + Cardinality(fibre) - Cardinality({})
    BY <2>3, <2>4, <2>5, FS_Union, ZenonT(60)
  <2>7. Cardinality({}) = 0
    BY FS_EmptySet
  <2>8. (n + 1) * m = n * m + m
    OBVIOUS
  <2> QED
    BY <2>3, <2>4, <2>6, <2>7, <2>8
<1> HIDE DEF T, Over
<1>4. Nat \subseteq T
  BY <1>2, <1>3, SetInduction
<1>5. Over(R) = S
  BY DEF Over, EvenFibres
<1> QED
  BY <1>1, <1>4, <1>5 DEF T

(* The array before the sign at j was placed while index i was filled. *)
Before(c, i, j) == [[c EXCEPT ![j] = c[i]] EXCEPT ![i] = 0]

(* A sign of an array can have been placed last: taking it back leaves an array
   with one sign fewer, and placing it again gives the array. *)
LEMMA BeforeFills ==
  ASSUME NEW i \in Index, NEW k \in Nat, NEW c \in Filling(i + 1, k + 1), NEW j \in Support(c)
  PROVE  /\ Before(c, i, j) \in Filling(i, k) /\ j \in 0 .. i /\ c[j] \in {-1, 1}
         /\ Place(Before(c, i, j), i, j, c[j]) = c
<1> DEFINE a == Before(c, i, j)
           s == c[j]
<1>1. /\ c \in [Index -> {-1, 0, 1}] /\ Cardinality(Support(c)) = k + 1
      /\ \A x \in Support(c) : x < i + 1
  BY DEF Filling, Arrays
<1>2. j \in Index /\ s \in {-1, 1} /\ j \in 0 .. i /\ N \in Nat
  BY <1>1, SizesAssumption DEF Support, Index
<1>3. /\ a \in [Index -> {-1, 0, 1}]
      /\ \A x \in Index : a[x] = IF x = i THEN 0 ELSE IF x = j THEN c[i] ELSE c[x]
  BY <1>1, <1>2 DEF Before
<1>4. Place(a, i, j, s) = c
  <2> HIDE DEF a
  <2> DEFINE p == Place(a, i, j, s)
  <2>1. /\ p \in [Index -> {-1, 0, 1}]
        /\ \A x \in Index : p[x] = IF x = j THEN s ELSE IF x = i THEN a[j] ELSE a[x]
    BY <1>2, <1>3 DEF Place
  <2> HIDE DEF p
  <2>2. \A x \in Index : p[x] = c[x]
    BY <1>2, <1>3, <2>1
  <2>3. p = c
    BY <1>1, <2>1, <2>2
  <2> QED
    BY <2>3 DEF p
<1>5. Support(c) = {x \in Index : c[x] # 0}
  BY <1>1 DEF Support
<1> HIDE DEF a
<1>6. Support(a) = {x \in Index : a[x] # 0}
  BY <1>3 DEF Support
<1> DEFINE gone == IF c[i] = 0 THEN j ELSE i
<1>7. Support(a) = Support(c) \ {gone} /\ gone \in Support(c)
  <2>1. \A x \in Index : a[x] # 0 <=> c[x] # 0 /\ x # gone
    BY <1>2, <1>3
  <2>2. gone \in Index /\ c[gone] # 0
    BY <1>2
  <2> HIDE DEF gone
  <2> QED
    BY <1>5, <1>6, <2>1, <2>2
<1> HIDE DEF gone
<1>8. Cardinality(Support(a)) = k
  <2>1. Cardinality(Support(c) \ {gone}) = Cardinality(Support(c)) - 1
    BY <1>1, <1>7, SupportFinite, FS_RemoveElement
  <2> QED
    BY <1>1, <1>7, <2>1
<1>9. \A x \in Support(a) : x < i
  <2> TAKE x \in Support(a)
  <2>1. x \in Index /\ a[x] # 0 /\ x \in Support(c)
    BY <1>6, <1>7
  <2>2. x # i /\ x < i + 1
    BY <1>1, <1>3, <2>1
  <2> QED
    BY <2>1, <2>2 DEF Index
<1>10. a \in Filling(i, k)
  BY <1>3, <1>8, <1>9 DEF Filling, Arrays
<1> QED
  BY <1>2, <1>4, <1>10 DEF a

(* And that is the only array it can have come from. *)
LEMMA BeforeIsUnique ==
  ASSUME NEW i \in Index, NEW k \in Nat, NEW a \in Filling(i, k), NEW j \in 0 .. i,
         NEW s \in {-1, 1}
  PROVE  /\ j \in Support(Place(a, i, j, s)) /\ Place(a, i, j, s)[j] = s
         /\ Before(Place(a, i, j, s), i, j) = a
<1> DEFINE c == Place(a, i, j, s)
           d == Before(c, i, j)
<1>1. a \in [Index -> {-1, 0, 1}] /\ j \in Index /\ i \in Int
  BY SizesAssumption DEF Filling, Arrays, Index
<1>2. a[i] = 0
  <2>1. i \notin Support(a)
    BY <1>1 DEF Filling
  <2> QED
    BY <1>1, <2>1 DEF Support
<1>3. /\ c \in [Index -> {-1, 0, 1}]
      /\ \A x \in Index : c[x] = IF x = j THEN s ELSE IF x = i THEN a[j] ELSE a[x]
  BY <1>1 DEF Place
<1> HIDE DEF c
<1>4. /\ d \in [Index -> {-1, 0, 1}]
      /\ \A x \in Index : d[x] = IF x = i THEN 0 ELSE IF x = j THEN c[i] ELSE c[x]
  BY <1>1, <1>3 DEF Before
<1> HIDE DEF d
<1>5. \A x \in Index : d[x] = a[x]
  BY <1>1, <1>2, <1>3, <1>4
<1>6. d = a
  <2>1. d \in [Index -> {-1, 0, 1}] /\ a \in [Index -> {-1, 0, 1}]
    BY <1>1, <1>4
  <2> QED
    BY <1>5, <2>1
<1>7. c[j] = s /\ j \in Support(c)
  BY <1>1, <1>3 DEF Support
<1> QED
  BY <1>6, <1>7 DEF c, d

-----------------------------------------------------------------------------
(* A function on 0 .. k - 1 with one value more. *)
Extend(f, k, v) == [x \in 0 .. k |-> IF x = k THEN v ELSE f[x]]

(* Taking that value away again, or putting it back, gives the function. *)
LEMMA CutOfExtend ==
  ASSUME NEW k \in Nat, NEW f, f = [x \in 0 .. k - 1 |-> f[x]], NEW v
  PROVE  Cut(Extend(f, k, v), k) = f
<1>1. \A x \in 0 .. k - 1 : x \in 0 .. k /\ x # k
  OBVIOUS
<1>2. \A x \in 0 .. k - 1 : Extend(f, k, v)[x] = f[x]
  BY <1>1 DEF Extend
<1>3. Cut(Extend(f, k, v), k) = [x \in 0 .. k - 1 |-> f[x]]
  BY <1>2 DEF Cut
<1> QED
  BY <1>3

(* So the values before the last and the last one make up the function. *)
LEMMA ExtendOfCut ==
  ASSUME NEW k \in Nat, NEW S, NEW f \in [0 .. k -> S]
  PROVE  /\ Cut(f, k) \in [0 .. k - 1 -> S] /\ Extend(Cut(f, k), k, f[k]) = f
         /\ f[k] \in S /\ \A x \in 0 .. k - 1 : Cut(f, k)[x] = f[x]
<1>0. k \in 0 .. k /\ (\A x \in 0 .. k - 1 : x \in 0 .. k /\ x # k)
      /\ (\A x \in 0 .. k : x # k => x \in 0 .. k - 1)
  OBVIOUS
<1> QED
  BY <1>0 DEF Extend, Cut

(* The sign bit of a sign. *)
BitFor(s) == IF s = 1 THEN 0 ELSE 1

(* A choice that leads to the array before, with the last placement added. *)
LEMMA LongerWay ==
  ASSUME NEW first \in Nat, NEW k \in Nat, first + k \in Index,
         NEW c \in Filling(first + k + 1, k + 1), NEW j \in Support(c),
         NEW w \in Ways(first, k, Before(c, first + k, j))
  PROVE  /\ <<Extend(w[1], k, j), Extend(w[2], k, BitFor(c[j]))>> \in Ways(first, k + 1, c)
         /\ Extend(w[1], k, j)[k] = j
         /\ Cut(Extend(w[1], k, j), k) = w[1]
         /\ Cut(Extend(w[2], k, BitFor(c[j])), k) = w[2]
<1> DEFINE i == first + k
           p == Extend(w[1], k, j)
           b == Extend(w[2], k, BitFor(c[j]))
<1>0. i \in Index /\ (k + 1) - 1 = k /\ k + 1 \in Nat /\ c \in Filling(i + 1, k + 1)
  OBVIOUS
<1>1. /\ w[1] \in [0 .. k - 1 -> Index] /\ w[2] \in [0 .. k - 1 -> {0, 1}]
      /\ \A x \in 0 .. k - 1 : Accepts(first + x, w[1][x])
      /\ Placed(first, k, w[1], w[2]) = Before(c, i, j)
  BY DEF Ways, PicksFrom, BitsOf
<1>2. /\ Before(c, i, j) \in Filling(i, k) /\ j \in 0 .. i /\ c[j] \in {-1, 1}
      /\ Place(Before(c, i, j), i, j, c[j]) = c
  <2> HIDE DEF i
  <2> QED
    BY <1>0, BeforeFills
<1>3. j \in Index /\ BitFor(c[j]) \in {0, 1} /\ Sign(BitFor(c[j])) = c[j]
  BY <1>0, <1>2, SizesAssumption DEF BitFor, Sign, Index
<1>4. /\ p \in [0 .. k -> Index] /\ Cut(p, k) = w[1] /\ p[k] = j
      /\ \A x \in 0 .. k - 1 : p[x] = w[1][x]
  <2>1. w[1] = [x \in 0 .. k - 1 |-> w[1][x]]
    BY <1>1
  <2>2. Cut(Extend(w[1], k, j), k) = w[1]
    BY <2>1, CutOfExtend, Zenon
  <2>3. \A x \in 0 .. k : Extend(w[1], k, j)[x] = IF x = k THEN j ELSE w[1][x]
    BY DEF Extend
  <2>4. Extend(w[1], k, j) \in [0 .. k -> Index]
    BY <1>1, <1>3 DEF Extend
  <2> QED
    BY <2>2, <2>3, <2>4
<1>5. b \in [0 .. k -> {0, 1}] /\ Cut(b, k) = w[2] /\ b[k] = BitFor(c[j])
  <2>1. w[2] = [x \in 0 .. k - 1 |-> w[2][x]]
    BY <1>1
  <2>2. Cut(Extend(w[2], k, BitFor(c[j])), k) = w[2]
    BY <2>1, CutOfExtend, Zenon
  <2>3. Extend(w[2], k, BitFor(c[j]))[k] = BitFor(c[j])
    BY DEF Extend
  <2>4. Extend(w[2], k, BitFor(c[j])) \in [0 .. k -> {0, 1}]
    BY <1>1, <1>3 DEF Extend
  <2> QED
    BY <2>2, <2>3, <2>4
<1> HIDE DEF p, b
<1>6. Placed(first, k + 1, p, b) = Place(Placed(first, k, Cut(p, k), Cut(b, k)), i, p[k], Sign(b[k]))
  BY <1>4, PlacedUnfolds
<1>7. Placed(first, k + 1, p, b) = c
  BY <1>1, <1>2, <1>3, <1>4, <1>5, <1>6
<1>8. \A x \in 0 .. k : Accepts(first + x, p[x])
  <2> SUFFICES ASSUME NEW x \in 0 .. k PROVE Accepts(first + x, p[x])
    OBVIOUS
  <2>1. CASE x = k
    BY <1>2, <1>4, <2>1 DEF Accepts
  <2>2. CASE x # k
    <3>1. x \in 0 .. k - 1
      BY <2>2
    <3> QED
      BY <1>1, <1>4, <3>1
  <2> QED
    BY <2>1, <2>2
<1>9. <<p, b>> \in Ways(first, k + 1, c)
  BY <1>0, <1>4, <1>5, <1>7, <1>8 DEF Ways, PicksFrom, BitsOf
<1> QED
  BY <1>4, <1>5, <1>9 DEF p, b

(* A choice that leads to c, without its last placement, leads to the array
   before it; nothing about the last placement is lost. *)
LEMMA ShorterWay ==
  ASSUME NEW first \in Nat, NEW k \in Nat, first + k \in Index, NEW c \in Arrays,
         NEW w \in Ways(first, k + 1, c)
  PROVE  /\ w[1][k] \in Support(c)
         /\ <<Cut(w[1], k), Cut(w[2], k)>> \in Ways(first, k, Before(c, first + k, w[1][k]))
         /\ w = <<Extend(Cut(w[1], k), k, w[1][k]),
                  Extend(Cut(w[2], k), k, BitFor(c[w[1][k]]))>>
<1> DEFINE i == first + k
           p == w[1]
           b == w[2]
           j == p[k]
           s == Sign(b[k])
           a == Placed(first, k, Cut(p, k), Cut(b, k))
<1>0. (k + 1) - 1 = k /\ i \in Index /\ first + k <= N
  BY SizesAssumption DEF Index
<1>1. /\ p \in [0 .. k -> Index] /\ b \in [0 .. k -> {0, 1}] /\ w = <<p, b>>
      /\ \A x \in 0 .. k : Accepts(first + x, p[x])
      /\ Placed(first, k + 1, p, b) = c
  BY <1>0 DEF Ways, PicksFrom, BitsOf
<1> HIDE DEF p, b
<1>2. /\ Cut(p, k) \in [0 .. k - 1 -> Index] /\ Extend(Cut(p, k), k, p[k]) = p
      /\ p[k] \in Index /\ \A x \in 0 .. k - 1 : Cut(p, k)[x] = p[x]
  BY <1>1, ExtendOfCut, Zenon
<1>3. /\ Cut(b, k) \in [0 .. k - 1 -> {0, 1}] /\ Extend(Cut(b, k), k, b[k]) = b /\ b[k] \in {0, 1}
  BY <1>1, ExtendOfCut, Zenon
<1>4. Cut(p, k) \in PicksFrom(first, k) /\ Cut(b, k) \in BitsOf(k)
  <2>1. \A x \in 0 .. k - 1 : x \in 0 .. k
    OBVIOUS
  <2> QED
    BY <1>1, <1>2, <1>3, <2>1 DEF PicksFrom, BitsOf
<1>5. a \in Filling(i, k)
  BY <1>0, <1>4, PlacedFills
<1>6. Place(a, i, j, s) = c
  BY <1>1, PlacedUnfolds
<1>7. j \in 0 .. i /\ s \in {-1, 1} /\ BitFor(s) = b[k]
  <2>1. j <= i
    <3>1. k \in 0 .. k
      OBVIOUS
    <3> QED
      BY <1>1, <3>1 DEF Accepts
  <2>2. s \in {-1, 1} /\ BitFor(s) = b[k]
    BY <1>3 DEF Sign, BitFor
  <2> QED
    BY <1>2, <2>1, <2>2 DEF Index
<1> HIDE DEF i, j, s
<1>8. j \in Support(c) /\ c[j] = s /\ Before(c, i, j) = a
  <2>1. /\ j \in Support(Place(a, i, j, s)) /\ Place(a, i, j, s)[j] = s
        /\ Before(Place(a, i, j, s), i, j) = a
    <3> HIDE DEF a
    <3> QED
      BY <1>0, <1>5, <1>7, BeforeIsUnique
  <2> QED
    BY <1>6, <2>1, Zenon
<1>9. <<Cut(p, k), Cut(b, k)>> \in Ways(first, k, Before(c, i, j))
  BY <1>4, <1>8 DEF Ways
<1>10. w = <<Extend(Cut(p, k), k, p[k]), Extend(Cut(b, k), k, BitFor(c[j]))>>
  BY <1>1, <1>2, <1>3, <1>7, <1>8
<1> QED
  BY <1>8, <1>9, <1>10 DEF i, j, p, b

(* The choices that lead to c by a last placement at j are as many as those
   that lead to the array before it. *)
LEMMA WaysByLastPick ==
  ASSUME NEW first \in Nat, NEW k \in Nat, first + k \in Index,
         NEW c \in Filling(first + k + 1, k + 1), NEW j \in Support(c),
         IsFiniteSet(Ways(first, k, Before(c, first + k, j)))
  PROVE  LET last == {w \in Ways(first, k + 1, c) : w[1][k] = j}
         IN  /\ IsFiniteSet(last)
             /\ Cardinality(last) = Cardinality(Ways(first, k, Before(c, first + k, j)))
<1> DEFINE a == Before(c, first + k, j)
           shorter == Ways(first, k, a)
           last == {w \in Ways(first, k + 1, c) : w[1][k] = j}
           Longer(w) == <<Extend(w[1], k, j), Extend(w[2], k, BitFor(c[j]))>>
           grow == [w \in shorter |-> Longer(w)]
<1>1. ASSUME NEW w \in shorter
      PROVE  /\ Longer(w) \in last /\ Cut(Longer(w)[1], k) = w[1] /\ Cut(Longer(w)[2], k) = w[2]
             /\ w = <<w[1], w[2]>>
  <2>1. /\ <<Extend(w[1], k, j), Extend(w[2], k, BitFor(c[j]))>> \in Ways(first, k + 1, c)
        /\ Extend(w[1], k, j)[k] = j
        /\ Cut(Extend(w[1], k, j), k) = w[1]
        /\ Cut(Extend(w[2], k, BitFor(c[j])), k) = w[2]
    BY LongerWay
  <2>2. w = <<w[1], w[2]>>
    BY DEF Ways
  <2> QED
    BY <2>1, <2>2
<1>2. ASSUME NEW w \in last
      PROVE  \E v \in shorter : Longer(v) = w
  <2>1. w \in Ways(first, k + 1, c) /\ w[1][k] = j /\ c \in Arrays
    BY DEF Filling
  <2> DEFINE v == <<Cut(w[1], k), Cut(w[2], k)>>
  <2>2. v \in Ways(first, k, Before(c, first + k, w[1][k]))
        /\ w = <<Extend(Cut(w[1], k), k, w[1][k]), Extend(Cut(w[2], k), k, BitFor(c[w[1][k]]))>>
    BY <2>1, ShorterWay
  <2>3. v[1] = Cut(w[1], k) /\ v[2] = Cut(w[2], k)
    OBVIOUS
  <2> HIDE DEF v
  <2>4. v \in shorter /\ Longer(v) = w
    BY <2>1, <2>2, <2>3
  <2> QED
    BY <2>4
<1> HIDE DEF Longer, last, shorter
<1>3. grow \in Bijection(shorter, last)
  <2>1. grow \in [shorter -> last] /\ \A w \in shorter : grow[w] = Longer(w)
    BY <1>1
  <2> HIDE DEF grow
  <2>2. \A v, w \in shorter : grow[v] = grow[w] => v = w
    BY <1>1, <2>1
  <2>3. \A w \in last : \E v \in shorter : grow[v] = w
    BY <1>2, <2>1
  <2> QED
    BY <2>1, <2>2, <2>3 DEF Bijection, Injection, Surjection, IsInjective
<1>4. ExistsBijection(shorter, last)
  BY <1>3 DEF ExistsBijection
<1>5. IsFiniteSet(shorter)
  BY DEF shorter
<1>6. IsFiniteSet(last) /\ Cardinality(last) = Cardinality(shorter)
  BY <1>4, <1>5, FS_Bijection
<1> QED
  BY <1>6 DEF last, shorter

-----------------------------------------------------------------------------
(* The factorials. *)
LEMMA FactorialUnfolds ==
  /\ Factorial[0] = 1
  /\ \A n \in Nat : Factorial[n] \in Nat /\ Factorial[n + 1] = (n + 1) * Factorial[n]
<1> DEFINE Turns(f) == f = [n \in Nat |-> IF n = 0 THEN 1 ELSE n * f[n - 1]]
           turn == [n \in Nat |-> [v \in Nat |-> (n + 1) * v]]
<1>1. turn \in [Nat -> [Nat -> Nat]] /\ 1 \in Nat
  OBVIOUS
<1>2. \A n, v \in Nat : turn[n][v] = (n + 1) * v
  OBVIOUS
<1> HIDE DEF turn
<1>3. PICK f \in [Nat -> Nat] : Endless(f, 1, turn)
  BY <1>1, EndlessRecursionExists
<1>4. f[0] = 1 /\ \A n \in Nat : f[n + 1] = (n + 1) * f[n]
  BY <1>2, <1>3 DEF Endless
<1>5. Turns(f)
  <2>1. ASSUME NEW n \in Nat PROVE f[n] = IF n = 0 THEN 1 ELSE n * f[n - 1]
    <3>1. CASE n # 0
      <4>1. n - 1 \in Nat /\ (n - 1) + 1 = n
        BY <3>1
      <4> QED
        BY <1>4, <3>1, <4>1
    <3> QED
      BY <1>4, <3>1
  <2> QED
    BY <2>1
<1>6. Turns(Factorial)
  <2>1. Factorial = CHOOSE g : Turns(g)
    BY Zenon DEF Factorial
  <2> HIDE DEF Turns
  <2> QED
    BY <1>5, <2>1, Zenon
<1>7. Factorial[0] = 1 /\ \A n \in Nat : Factorial[n + 1] = (n + 1) * Factorial[n]
  <2>1. \A n \in Nat : Factorial[n] = IF n = 0 THEN 1 ELSE n * Factorial[n - 1]
    BY <1>6, Zenon
  <2>2. ASSUME NEW n \in Nat PROVE Factorial[n + 1] = (n + 1) * Factorial[n]
    <3>1. n + 1 \in Nat /\ n + 1 # 0 /\ (n + 1) - 1 = n
      OBVIOUS
    <3>2. Factorial[n + 1] = (n + 1) * Factorial[(n + 1) - 1]
      BY <2>1, <3>1
    <3> QED
      BY <3>1, <3>2
  <2> QED
    BY <2>1, <2>2
<1>8. Factorial[0] \in Nat
  BY <1>7
<1> DEFINE T == {n \in Nat : Factorial[n] \in Nat}
<1>9. \A n \in Nat : n \in T => n + 1 \in T
  BY <1>7
<1>10. Nat \subseteq T
  <2>1. 0 \in T
    BY <1>8
  <2> HIDE DEF T
  <2> QED
    BY <1>9, <2>1, SetInduction
<1> QED
  BY <1>7, <1>10

(* Every array with k signs is led to by k! choices: any of its signs can have
   been placed last, and what that placement was is then known. *)
LEMMA WaysAreFactorial ==
  ASSUME NEW first \in Nat, NEW k \in Nat, first + k <= N, NEW c \in Filling(first + k, k)
  PROVE  IsFiniteSet(Ways(first, k, c)) /\ Cardinality(Ways(first, k, c)) = Factorial[k]
<1> DEFINE T == {n \in Nat : first + n <= N =>
                   \A a \in Filling(first + n, n) :
                     /\ IsFiniteSet(Ways(first, n, a))
                     /\ Cardinality(Ways(first, n, a)) = Factorial[n]}
<1>1. 0 \in T
  <2>1. PicksFrom(first, 0) = {<<>>} /\ BitsOf(0) = {<<>>}
    <3>1. 0 .. 0 - 1 = {}
      OBVIOUS
    <3>2. ASSUME NEW S PROVE [0 .. 0 - 1 -> S] = {<<>>}
      <4>1. \A f \in [0 .. 0 - 1 -> S] : f = <<>>
        OBVIOUS
      <4>2. <<>> \in [0 .. 0 - 1 -> S]
        OBVIOUS
      <4> QED
        BY <4>1, <4>2, Zenon
    <3>3. [0 .. 0 - 1 -> Index] = {<<>>} /\ [0 .. 0 - 1 -> {0, 1}] = {<<>>}
      BY <3>2, Zenon
    <3>4. PicksFrom(first, 0) = [0 .. 0 - 1 -> Index]
      BY <3>1 DEF PicksFrom
    <3> QED
      BY <3>3, <3>4, Zenon DEF BitsOf
  <2>2. Placed(first, 0, <<>>, <<>>) = Zero
    <3>1. [x \in 0 .. 0 |-> 0] \in [0 .. 0 -> Index] /\ 0 \in Nat
      BY SizesAssumption DEF Index
    <3> QED
      BY <3>1, PlacedUnfolds
  <2>3. ASSUME NEW a \in Filling(first + 0, 0)
        PROVE  Ways(first, 0, a) = {<<<<>>, <<>>>>}
    <3>1. a \in [Index -> {-1, 0, 1}] /\ Cardinality(Support(a)) = 0
      BY DEF Filling, Arrays
    <3>2. Support(a) = {}
      BY <3>1, SupportFinite, FS_EmptySet
    <3>3. a = Zero
      BY <3>1, <3>2 DEF Support, Zero
    <3> QED
      BY <2>1, <2>2, <3>3 DEF Ways
  <2> QED
    BY <2>3, FS_Singleton, FactorialUnfolds
<1>2. ASSUME NEW n \in Nat, n \in T PROVE n + 1 \in T
  <2> SUFFICES ASSUME first + (n + 1) <= N, NEW a \in Filling(first + (n + 1), n + 1)
               PROVE  /\ IsFiniteSet(Ways(first, n + 1, a))
                      /\ Cardinality(Ways(first, n + 1, a)) = Factorial[n + 1]
    OBVIOUS
  <2> DEFINE i == first + n
             all == Ways(first, n + 1, a)
             last == [w \in all |-> w[1][n]]
             m == Factorial[n]
  <2>1. /\ i \in Index /\ first + n <= N /\ first + (n + 1) = first + n + 1
        /\ N \in Nat /\ first + n \in Index
    BY SizesAssumption DEF Index
  <2>2. a \in Filling(first + n + 1, n + 1) /\ a \in [Index -> {-1, 0, 1}] /\ a \in Arrays
        /\ Cardinality(Support(a)) = n + 1
    BY <2>1 DEF Filling, Arrays
  <2>3. ASSUME NEW w \in all PROVE last[w] \in Support(a)
    BY <2>1, <2>2, ShorterWay
  <2>4. ASSUME NEW j \in Support(a)
        PROVE  /\ IsFiniteSet(Fibre(all, last, j))
               /\ Cardinality(Fibre(all, last, j)) = m
    <3>1. Before(a, first + n, j) \in Filling(first + n, n)
      BY <2>1, <2>2, BeforeFills
    <3>2. /\ IsFiniteSet(Ways(first, n, Before(a, first + n, j)))
          /\ Cardinality(Ways(first, n, Before(a, first + n, j))) = m
      BY <1>2, <2>1, <3>1
    <3>3. Fibre(all, last, j) = {w \in Ways(first, n + 1, a) : w[1][n] = j}
      BY DEF Fibre
    <3> HIDE DEF last, all
    <3>4. LET final == {w \in Ways(first, n + 1, a) : w[1][n] = j}
          IN  /\ IsFiniteSet(final)
              /\ Cardinality(final) = Cardinality(Ways(first, n, Before(a, first + n, j)))
      BY <2>1, <2>2, <3>2, WaysByLastPick, ZenonT(60)
    <3> QED
      BY <3>2, <3>3, <3>4, Zenon
  <2>5. IsFiniteSet(Support(a)) /\ m \in Nat
    BY <2>2, SupportFinite, FactorialUnfolds
  <2> HIDE DEF last, all, m
  <2>6. EvenFibres(all, last, Support(a), m)
    BY <2>3, <2>4, Zenon DEF EvenFibres
  <2>7. IsFiniteSet(all) /\ Cardinality(all) = Cardinality(Support(a)) * m
    BY <2>5, <2>6, FibresMultiply, Zenon
  <2>8. Factorial[n + 1] = (n + 1) * m
    BY FactorialUnfolds DEF m
  <2> QED
    BY <2>2, <2>7, <2>8 DEF all
<1> HIDE DEF T
<1>3. Nat \subseteq T
  BY <1>1, <1>2, SetInduction
<1> QED
  BY <1>3 DEF T

(* The model's array after all t placements is the last of that sequence. *)
LEMMA FilledIsPlaced ==
  ASSUME NEW t \in Nat, t <= N, NEW p \in [0 .. t - 1 -> Index], NEW b
  PROVE  Filled(t, p, b) = Placed(N - t, t, p, b)
<1> DEFINE Turns(f) == f = [k \in 0 .. t |->
                              IF k = 0 THEN Zero
                              ELSE Place(f[k - 1], N - t + k - 1, p[k - 1], Sign(b[k - 1]))]
           after == CHOOSE f : Turns(f)
<1>1. N \in Nat /\ N - t \in Nat
  BY SizesAssumption
<1>2. PICK f \in [0 .. t -> Arrays] : Placements(f, N - t, t, p, b)
  BY <1>1, PlacementsExist
<1>3. Turns(f)
  <2> DEFINE g == [k \in 0 .. t |->
                     IF k = 0 THEN Zero
                     ELSE Place(f[k - 1], N - t + k - 1, p[k - 1], Sign(b[k - 1]))]
  <2>1. ASSUME NEW k \in 0 .. t PROVE f[k] = g[k]
    <3>1. CASE k = 0
      BY <1>2, <3>1 DEF Placements
    <3>2. CASE k # 0
      <4>1. k \in 1 .. t
        BY <3>2
      <4> QED
        BY <1>2, <3>2, <4>1 DEF Placements
    <3> QED
      BY <3>1, <3>2
  <2>2. f = [k \in 0 .. t |-> f[k]] /\ g = [k \in 0 .. t |-> g[k]]
    OBVIOUS
  <2> HIDE DEF g
  <2>3. f = g
    BY <2>1, <2>2
  <2> QED
    BY <2>3 DEF g
<1>4. Turns(after)
  <2> HIDE DEF Turns
  <2> QED
    BY <1>3
<1>5. Filled(t, p, b) = after[t]
  BY DEF Filled
<1>6. Placements(after, N - t, t, p, b)
  <2> DEFINE g == [k \in 0 .. t |->
                     IF k = 0 THEN Zero
                     ELSE Place(after[k - 1], N - t + k - 1, p[k - 1], Sign(b[k - 1]))]
  <2>1. after = g
    BY <1>4
  <2> HIDE DEF after, Turns
  <2>2. after[0] = Zero
    BY <2>1
  <2>3. \A k \in 1 .. t : after[k] = Place(after[k - 1], N - t + k - 1, p[k - 1], Sign(b[k - 1]))
    <3> TAKE k \in 1 .. t
    <3>1. k \in 0 .. t /\ k # 0
      OBVIOUS
    <3>2. g[k] = Place(after[k - 1], N - t + k - 1, p[k - 1], Sign(b[k - 1]))
      BY <3>1
    <3> QED
      BY <2>1, <3>2
  <2> QED
    BY <2>2, <2>3 DEF Placements
<1> HIDE DEF after, Turns
<1> QED
  BY <1>1, <1>5, <1>6, PlacedIsLast

(* Every challenge of weight tau is reached by tau! of the equally likely
   choices of accepted indices and sign bits, whichever challenge it is. *)
THEOREM ChallengesAreEquallyLikely == Spec => []UniformChallenge
<1>1. IInv => UniformChallenge
  <2> SUFFICES ASSUME IInv, pc = "done"
               PROVE  Cardinality({pb \in DOMAIN Outcomes[tau] : Outcomes[tau][pb] = coefficients})
                        = Factorial[tau]
    BY DEF UniformChallenge
  <2> DEFINE choices == PicksFrom(N - tau, tau) \X BitsOf(tau)
             outcome == [pb \in choices |-> Filled(tau, pb[1], pb[2])]
  <2>1. /\ tau \in Taus /\ tau \in Nat /\ N \in Nat /\ tau <= N
        /\ N - tau \in Nat /\ (N - tau) + tau = N
    BY SizesAssumption, InputsAssumption DEF IInv, TypeOK
  <2>2. coefficients \in Filling((N - tau) + tau, tau)
    <3>1. coefficients \in Arrays /\ Cardinality(Support(coefficients)) = tau
      BY DEF IInv, TypeOK, Arrays
    <3>2. \A x \in Support(coefficients) : x < N
      BY <2>1, <3>1 DEF Support, Arrays, Index
    <3> QED
      BY <2>1, <3>1, <3>2 DEF Filling
  <2>3. Picks(tau) = PicksFrom(N - tau, tau)
    BY DEF Picks, PicksFrom
  <2>4. Outcomes[tau] = outcome
    <3>1. ~(tau > N)
      BY <2>1
    <3> QED
      BY <2>1, <2>3, <3>1 DEF Outcomes, BitsOf
  <2>5. ASSUME NEW w \in choices
        PROVE  Filled(tau, w[1], w[2]) = Placed(N - tau, tau, w[1], w[2])
    <3>1. w[1] \in [0 .. tau - 1 -> Index]
      BY DEF PicksFrom
    <3> QED
      BY <2>1, <3>1, FilledIsPlaced
  <2>6. {pb \in DOMAIN outcome : outcome[pb] = coefficients} = Ways(N - tau, tau, coefficients)
    BY <2>5 DEF Ways
  <2>7. Cardinality(Ways(N - tau, tau, coefficients)) = Factorial[tau]
    BY <2>1, <2>2, WaysAreFactorial
  <2> HIDE DEF outcome
  <2> QED
    BY <2>4, <2>6, <2>7
<1>2. QED
  BY Inductive, <1>1, PTL

-----------------------------------------------------------------------------
(* RejBoundedPoly: the loop's place in the stream, and that it stops when full. *)
BoundedInv ==
  /\ r_eta \in Nat /\ r_bytes \in Seq(0 .. 255) /\ r_coefficients \in Seq(Int)
  /\ r_pc \in {"start", "loop", "invalid_argument", "done", "exhausted"}
  /\ r_position \in 0 .. 2 * Len(r_bytes)
  /\ r_pc = "start" => r_position = 0 /\ r_coefficients = <<>>
  /\ r_pc \in {"start", "loop"} => Len(r_coefficients) < N

(* rej_bounded_poly starts where the abstract sampler does. *)
LEMMA BoundedInit ==
  ASSUME Bounded!ConstantsAssumption
  PROVE  Bounded!Init => BoundedInv /\ Bounded!Sampler!Init
<1> SUFFICES ASSUME Bounded!Init PROVE BoundedInv /\ Bounded!Sampler!Init
  OBVIOUS
<1>1. r_bytes \in Seq(0 .. 255) /\ r_eta \in Nat /\ r_coefficients = <<>> /\ N \in Nat \ {0}
      /\ r_pc = "start" /\ r_position = 0
  BY DEF Bounded!ConstantsAssumption, Bounded!Init
<1> QED
  BY <1>1 DEF BoundedInv, Bounded!Sampler!Init, Bounded!Status

(* The candidate one if statement looks at. *)
LEMMA BoundedCandidate ==
  ASSUME r_bytes \in Seq(0 .. 255), NEW k \in 1 .. 2 * Len(r_bytes)
  PROVE  Bounded!Candidates[k] =
           LET byte == r_bytes[(k + 1) \div 2]
               v    == IF k % 2 = 1 THEN byte % 16 ELSE byte \div 16
           IN  [ok |-> Bounded!Accepted(r_eta, v), value |-> Bounded!Coefficient(r_eta, v)]
BY DEF Bounded!Candidates

(* A kept or dropped half-byte is a step of the abstract sampler. *)
LEMMA KeepImplements ==
  ASSUME NEW v, BoundedInv, N \in Nat, r_pc = "loop", r_position < 2 * Len(r_bytes),
         Bounded!Candidates[r_position + 1]
           = [ok |-> Bounded!Accepted(r_eta, v), value |-> Bounded!Coefficient(r_eta, v)],
         Bounded!Coefficient(r_eta, v) \in Int,
         Bounded!Keep(v)
  PROVE  BoundedInv' /\ Bounded!Sampler!Take
<1> DEFINE ok == Bounded!Accepted(r_eta, v)
           kept == Bounded!Coefficient(r_eta, v)
<1>1. /\ r_coefficients \in Seq(Int) /\ Len(r_coefficients) \in Nat /\ Len(r_coefficients) < N
      /\ r_bytes \in Seq(0 .. 255) /\ Len(r_bytes) \in Nat
      /\ r_position \in 0 .. 2 * Len(r_bytes) /\ r_eta \in Nat
  BY DEF BoundedInv
<1>2. /\ r_coefficients' = IF ok THEN Append(r_coefficients, kept) ELSE r_coefficients
      /\ r_pc' = IF ok /\ Len(r_coefficients') = N THEN "done" ELSE "loop"
      /\ r_position' = r_position + 1 /\ r_eta' = r_eta /\ r_bytes' = r_bytes
  BY DEF Bounded!Keep, Bounded!Full
<1> HIDE DEF ok, kept
<1>3. /\ r_coefficients' \in Seq(Int)
      /\ Len(r_coefficients') = IF ok THEN Len(r_coefficients) + 1 ELSE Len(r_coefficients)
  BY <1>1, <1>2 DEF kept
<1>4. r_position' \in 0 .. 2 * Len(r_bytes)
  BY <1>1, <1>2
<1>5. BoundedInv'
  BY <1>1, <1>2, <1>3, <1>4 DEF BoundedInv
<1>6. Bounded!Status = "sampling" /\ r_position < Len(Bounded!Candidates)
  BY <1>1 DEF Bounded!Status, Bounded!Candidates
<1>7. Bounded!Status' = IF Len(r_coefficients') = N THEN "full" ELSE "sampling"
  BY <1>1, <1>2, <1>3 DEF Bounded!Status
<1>8. r_coefficients' = IF Bounded!Candidates[r_position + 1].ok
                        THEN Append(r_coefficients, Bounded!Candidates[r_position + 1].value)
                        ELSE r_coefficients
  BY <1>2 DEF ok, kept
<1>9. Bounded!Candidates' = Bounded!Candidates
  BY <1>2 DEF Bounded!Candidates, Bounded!Accepted, Bounded!Coefficient
<1> QED
  BY <1>2, <1>5, <1>6, <1>7, <1>8, <1>9 DEF Bounded!Sampler!Take

(* Every step of rej_bounded_poly is one of the abstract sampler. *)
LEMMA BoundedStep ==
  ASSUME Bounded!ConstantsAssumption, BoundedInv, [Bounded!Next]_Bounded!vars
  PROVE  BoundedInv' /\ [Bounded!Sampler!Next]_Bounded!Sampler!samplerVars
<1>0. /\ N \in Nat \ {0} /\ r_bytes \in Seq(0 .. 255) /\ Len(r_bytes) \in Nat
      /\ r_position \in 0 .. 2 * Len(r_bytes) /\ r_eta \in Nat
  BY DEF Bounded!ConstantsAssumption, BoundedInv
<1>1. ASSUME UNCHANGED <<r_eta, r_bytes, r_position, r_coefficients>>
      PROVE  Bounded!Candidates' = Bounded!Candidates
  BY <1>1 DEF Bounded!Candidates, Bounded!Accepted, Bounded!Coefficient
<1>2. CASE Bounded!CheckEta
  <2>1. /\ r_pc = "start" /\ r_pc' \in {"loop", "invalid_argument"}
        /\ UNCHANGED <<r_eta, r_bytes, r_position, r_coefficients>>
    BY <1>2 DEF Bounded!CheckEta
  <2>2. Bounded!Status' = Bounded!Status
    BY <2>1 DEF Bounded!Status
  <2> QED
    BY <1>1, <2>1, <2>2 DEF BoundedInv, Bounded!Sampler!samplerVars
<1>3. ASSUME NEW k \in 1 .. 2 * Len(r_bytes)
      PROVE  r_bytes[(k + 1) \div 2] \in 0 .. 255
  <2>1. (k + 1) \div 2 \in 1 .. Len(r_bytes)
    BY <1>0
  <2> QED
    BY <1>0, <2>1, ElementOfSeq
<1>4. \A v \in Nat : Bounded!Coefficient(r_eta, v) \in Int
  BY DEF Bounded!Coefficient
<1>5. CASE Bounded!Lower
  <2> DEFINE v == Bounded!LowerHalf(Bounded!CurrentByte)
  <2>1. /\ r_pc = "loop" /\ r_position % 2 = 0 /\ r_position \div 2 # Len(r_bytes)
        /\ Bounded!Keep(v)
    BY <1>5 DEF Bounded!Lower, Bounded!EndOfBytes
  <2>2. /\ r_position < 2 * Len(r_bytes) /\ r_position + 1 \in 1 .. 2 * Len(r_bytes)
        /\ ((r_position + 1) + 1) \div 2 = (r_position \div 2) + 1 /\ (r_position + 1) % 2 = 1
    BY <1>0, <2>1
  <2>3. r_bytes[(r_position \div 2) + 1] \in 0 .. 255
    BY <1>3, <2>2
  <2>4. v = r_bytes[(r_position \div 2) + 1] % 16 /\ v \in Nat
    BY <2>3 DEF Bounded!LowerHalf, Bounded!CurrentByte
  <2> HIDE DEF v
  <2>5. Bounded!Candidates[r_position + 1]
          = [ok |-> Bounded!Accepted(r_eta, v), value |-> Bounded!Coefficient(r_eta, v)]
    <3> DEFINE k == r_position + 1
    <3>1. k \in 1 .. 2 * Len(r_bytes) /\ (k + 1) \div 2 = (r_position \div 2) + 1 /\ k % 2 = 1
      BY <2>2
    <3> HIDE DEF k
    <3>2. v = IF k % 2 = 1 THEN r_bytes[(k + 1) \div 2] % 16 ELSE r_bytes[(k + 1) \div 2] \div 16
      BY <2>4, <3>1
    <3>3. Bounded!Candidates[k]
            = [ok |-> Bounded!Accepted(r_eta, v), value |-> Bounded!Coefficient(r_eta, v)]
      BY <1>0, <3>1, <3>2, BoundedCandidate
    <3> QED
      BY <3>3 DEF k
  <2>6. BoundedInv' /\ Bounded!Sampler!Take
    BY <1>0, <1>4, <2>1, <2>2, <2>4, <2>5, KeepImplements
  <2> QED
    BY <2>6 DEF Bounded!Sampler!Next
<1>6. CASE Bounded!Upper
  <2> DEFINE v == Bounded!UpperHalf(Bounded!CurrentByte)
  <2>1. r_pc = "loop" /\ r_position % 2 = 1 /\ Bounded!Keep(v)
    BY <1>6 DEF Bounded!Upper
  <2>2. /\ r_position < 2 * Len(r_bytes) /\ r_position + 1 \in 1 .. 2 * Len(r_bytes)
        /\ ((r_position + 1) + 1) \div 2 = (r_position \div 2) + 1 /\ (r_position + 1) % 2 = 0
    BY <1>0, <2>1
  <2>3. r_bytes[(r_position \div 2) + 1] \in 0 .. 255
    BY <1>3, <2>2
  <2>4. v = r_bytes[(r_position \div 2) + 1] \div 16 /\ v \in Nat
    BY <2>3 DEF Bounded!UpperHalf, Bounded!CurrentByte
  <2> HIDE DEF v
  <2>5. Bounded!Candidates[r_position + 1]
          = [ok |-> Bounded!Accepted(r_eta, v), value |-> Bounded!Coefficient(r_eta, v)]
    <3> DEFINE k == r_position + 1
    <3>1. k \in 1 .. 2 * Len(r_bytes) /\ (k + 1) \div 2 = (r_position \div 2) + 1 /\ k % 2 = 0
      BY <2>2
    <3> HIDE DEF k
    <3>2. v = IF k % 2 = 1 THEN r_bytes[(k + 1) \div 2] % 16 ELSE r_bytes[(k + 1) \div 2] \div 16
      BY <2>4, <3>1
    <3>3. Bounded!Candidates[k]
            = [ok |-> Bounded!Accepted(r_eta, v), value |-> Bounded!Coefficient(r_eta, v)]
      BY <1>0, <3>1, <3>2, BoundedCandidate
    <3> QED
      BY <3>3 DEF k
  <2>6. BoundedInv' /\ Bounded!Sampler!Take
    BY <1>0, <1>4, <2>1, <2>2, <2>4, <2>5, KeepImplements
  <2> QED
    BY <2>6 DEF Bounded!Sampler!Next
<1>7. CASE Bounded!Exhausted
  <2>1. /\ r_pc = "loop" /\ r_position % 2 = 0 /\ r_position \div 2 = Len(r_bytes)
        /\ r_pc' = "exhausted" /\ UNCHANGED <<r_eta, r_bytes, r_position, r_coefficients>>
    BY <1>7 DEF Bounded!Exhausted, Bounded!EndOfBytes
  <2>2. Bounded!Status = "sampling" /\ Bounded!Status' = "short"
    BY <2>1 DEF Bounded!Status
  <2>3. r_position = Len(Bounded!Candidates)
    BY <1>0, <2>1 DEF Bounded!Candidates
  <2>4. BoundedInv'
    BY <2>1 DEF BoundedInv
  <2> QED
    BY <1>1, <2>1, <2>2, <2>3, <2>4 DEF Bounded!Sampler!Next, Bounded!Sampler!GiveUp
<1>8. CASE UNCHANGED Bounded!vars
  <2>1. UNCHANGED <<r_eta, r_bytes, r_pc, r_position, r_coefficients>>
    BY <1>8 DEF Bounded!vars
  <2> QED
    BY <1>1, <2>1 DEF BoundedInv, Bounded!Status, Bounded!Sampler!samplerVars
<1> QED
  BY <1>2, <1>5, <1>6, <1>7, <1>8 DEF Bounded!Next

(* RejBoundedPoly's loop over bytes implements the rejection sampler over the
   stream's half bytes: each step is one step of the sampler, or none. *)
THEOREM RejBoundedPolyImplements ==
  ASSUME Bounded!ConstantsAssumption
  PROVE  Bounded!Spec => BoundedImplementsSampler
<1>1. Bounded!Init => BoundedInv /\ Bounded!Sampler!Init
  BY BoundedInit
<1>2. BoundedInv /\ [Bounded!Next]_Bounded!vars
        => BoundedInv' /\ [Bounded!Sampler!Next]_Bounded!Sampler!samplerVars
  BY BoundedStep
<1> QED
  BY <1>1, <1>2, PTL DEF Bounded!Spec, BoundedImplementsSampler, Bounded!ImplementsSampler, Bounded!Sampler!Spec

(* A set of three is counted. *)
LEMMA ThreeElements ==
  ASSUME NEW a, NEW b, NEW c, a # b, a # c, b # c
  PROVE  Cardinality({a, b, c}) = 3
<1>1. IsFiniteSet({a}) /\ Cardinality({a}) = 1
  BY FS_Singleton
<1>2. {a} \cup {b} = {a, b} /\ {a, b} \cup {c} = {a, b, c} /\ b \notin {a} /\ c \notin {a, b}
  OBVIOUS
<1>3. IsFiniteSet({a, b}) /\ Cardinality({a, b}) = 2
  <2>1. IsFiniteSet({a} \cup {b}) /\ Cardinality({a} \cup {b}) = 1 + 1
    BY <1>1, <1>2, FS_AddElement
  <2> QED
    BY <1>2, <2>1
<1>4. Cardinality({a, b} \cup {c}) = 2 + 1
  BY <1>2, <1>3, FS_AddElement
<1> QED
  BY <1>2, <1>4

(* Three half bytes give each value for eta = 2, and one for eta = 4. *)
HalfBytesGiving(e, c) ==
  {v \in 0 .. 15 : Bounded!Accepted(e, v) /\ Bounded!Coefficient(e, v) = c}

(* The half-bytes that give a value for eta = 2. *)
LEMMA ImagesOfTwo ==
  ASSUME NEW c \in -2 .. 2
  PROVE  HalfBytesGiving(2, c) = {2 - c, 7 - c, 12 - c}
BY DEF HalfBytesGiving, Bounded!Accepted, Bounded!Coefficient

(* The half-bytes that give a value for eta = 4. *)
LEMMA ImagesOfFour ==
  ASSUME NEW c \in -4 .. 4
  PROVE  HalfBytesGiving(4, c) = {4 - c}
BY DEF HalfBytesGiving, Bounded!Accepted, Bounded!Coefficient

(* For either eta every coefficient value has equally many half bytes, and no
   half byte that is accepted gives another. *)
THEOREM BoundedEvenlySpread == Bounded!Spec => []EvenlySpread
<1>1. ASSUME NEW e \in {2, 4}, NEW c \in -e .. e
      PROVE  /\ HalfBytesGiving(e, c) # {}
             /\ Cardinality(HalfBytesGiving(e, c)) = Cardinality(HalfBytesGiving(e, 0))
  <2>1. CASE e = 2
    <3>1. \A x \in -2 .. 2 : Cardinality(HalfBytesGiving(2, x)) = 3
      <4> TAKE x \in -2 .. 2
      <4>1. 2 - x # 7 - x /\ 2 - x # 12 - x /\ 7 - x # 12 - x
        OBVIOUS
      <4>2. Cardinality({2 - x, 7 - x, 12 - x}) = 3
        BY <4>1, ThreeElements, ZenonT(60)
      <4> QED
        BY <4>2, ImagesOfTwo
    <3>2. HalfBytesGiving(2, c) # {} /\ c \in -2 .. 2 /\ 0 \in -2 .. 2
      BY <2>1, ImagesOfTwo
    <3> QED
      BY <2>1, <3>1, <3>2
  <2>2. CASE e = 4
    <3>1. \A x \in -4 .. 4 : Cardinality(HalfBytesGiving(4, x)) = 1
      BY ImagesOfFour, FS_Singleton
    <3>2. HalfBytesGiving(4, c) # {} /\ c \in -4 .. 4 /\ 0 \in -4 .. 4
      BY <2>2, ImagesOfFour
    <3> QED
      BY <2>2, <3>1, <3>2
  <2> QED
    BY <2>1, <2>2
<1>2. \A S : Bounded!Cardinality(S) = Cardinality(S)
  BY DEF Bounded!Cardinality, Cardinality
<1>3. ASSUME r_eta \in {2, 4}, NEW c \in -r_eta .. r_eta
      PROVE  /\ HalfBytesGiving(r_eta, c) # {}
             /\ Bounded!Cardinality(HalfBytesGiving(r_eta, c))
                  = Bounded!Cardinality(HalfBytesGiving(r_eta, 0))
  BY <1>1, <1>2, <1>3
<1>4. ASSUME r_eta \in {2, 4}, NEW v \in 0 .. 15, Bounded!Accepted(r_eta, v)
      PROVE  Bounded!Coefficient(r_eta, v) \in -r_eta .. r_eta
  BY <1>4 DEF Bounded!Accepted, Bounded!Coefficient
<1>5. EvenlySpread
  BY <1>3, <1>4, Zenon DEF EvenlySpread, Bounded!EvenlySpread, HalfBytesGiving
<1> QED
  BY <1>5, PTL

-----------------------------------------------------------------------------
(* SampleNTT: the loop stays at group boundaries, d1 and d2 are of the group just
   read, and there is room for the first of them. *)
NttInv ==
  /\ n_bytes \in Seq(Ntt!Byte) /\ n_coefficients \in Seq(Nat)
  /\ n_pc \in {"loop", "first", "second", "done", "exhausted"}
  /\ n_byte_index \in 0 .. Len(n_bytes) /\ n_byte_index % 3 = 0
  /\ n_d1 \in Nat /\ n_d2 \in Nat
  /\ Len(n_coefficients) <= N
  /\ n_pc \in {"first", "exhausted"} => Len(n_coefficients) < N
  /\ n_pc = "done" => Len(n_coefficients) = N
  /\ n_pc \in {"first", "second"} =>
       /\ n_byte_index >= 3
       /\ n_d1 = Ntt!FirstCandidate(n_bytes[n_byte_index - 2], n_bytes[n_byte_index - 1])
       /\ n_d2 = Ntt!SecondCandidate(n_bytes[n_byte_index - 1], n_bytes[n_byte_index])

(* Halving the number three bytes make gives the two candidates read off their
   halves. *)
LEMMA GroupHalves ==
  ASSUME Nibble \in Nat \ {0}, NEW x \in Ntt!Byte, NEW y \in Ntt!Byte, NEW z \in Ntt!Byte,
         NEW byte, byte = Nibble * Nibble,
         NEW group, group = x + byte * y + byte * byte * z
  PROVE  /\ group % (byte * Nibble) = Ntt!FirstCandidate(x, y)
         /\ group \div (byte * Nibble) = Ntt!SecondCandidate(y, z)
         /\ Ntt!FirstCandidate(x, y) \in Nat /\ Ntt!SecondCandidate(y, z) \in Nat
<1> DEFINE low == y % Nibble
           high == y \div Nibble
           cube == byte * Nibble
           first == x + byte * low
           second == high + Nibble * z
<1>1. /\ byte \in Nat \ {0} /\ Nibble \in Nat /\ cube \in Nat \ {0}
      /\ x \in 0 .. byte - 1 /\ y \in 0 .. byte - 1 /\ z \in 0 .. byte - 1
  BY DEF Ntt!Byte
<1>2. high \in Int /\ low \in 0 .. Nibble - 1 /\ y = Nibble * high + low
  BY <1>1, DivisionFacts
<1> HIDE DEF low, high
<1>3. high >= 0
  <2>1. high <= -1 => Nibble * high <= -Nibble
    BY <1>1, <1>2
  <2> QED
    BY <1>1, <1>2, <2>1
<1>4. first \in 0 .. cube - 1
  <2>1. byte * low >= 0 /\ byte * low <= byte * (Nibble - 1)
    BY <1>1, <1>2
  <2>2. byte * (Nibble - 1) = cube - byte
    BY <1>1
  <2> HIDE DEF cube
  <2> QED
    BY <1>1, <1>2, <2>1, <2>2
<1>5. second \in Nat
  BY <1>1, <1>2, <1>3
<1>6. group = cube * second + first /\ group \in Int
  <2>1. byte * y = byte * low + cube * high
    BY <1>1, <1>2
  <2>2. byte * byte * z = cube * (Nibble * z)
    BY <1>1
  <2>3. cube * second = cube * high + cube * (Nibble * z)
    BY <1>1, <1>2
  <2> QED
    BY <1>1, <1>2, <2>1, <2>2, <2>3
<1>7. first = Ntt!FirstCandidate(x, y) /\ second = Ntt!SecondCandidate(y, z)
  BY DEF Ntt!FirstCandidate, Ntt!SecondCandidate, Ntt!LowNibble, Ntt!HighNibble, low, high
<1> HIDE DEF first, second, cube
<1>8. group \div cube = second /\ group % cube = first
  <2>1. second \in Int /\ cube \in Nat \ {0}
    BY <1>1, <1>5
  <2> QED
    BY <1>4, <1>6, <2>1, QuotientIsUnique
<1> QED
  BY <1>4, <1>5, <1>7, <1>8 DEF cube

(* sample_ntt starts where the abstract sampler does. *)
LEMMA NttInit ==
  ASSUME Ntt!ConstantsAssumption
  PROVE  Ntt!Init => NttInv /\ Ntt!Sampler!Init
<1> SUFFICES ASSUME Ntt!Init PROVE NttInv /\ Ntt!Sampler!Init
  OBVIOUS
<1>1. /\ n_bytes \in Seq(Ntt!Byte) /\ Len(n_bytes) \in Nat /\ n_pc = "loop" /\ n_byte_index = 0
      /\ n_coefficients = <<>> /\ N \in Nat \ {0} /\ n_d1 = 0 /\ n_d2 = 0
  BY DEF Ntt!ConstantsAssumption, Ntt!Init
<1>2. 0 \div 3 = 0 /\ 0 % 3 = 0
  OBVIOUS
<1> QED
  BY <1>1, <1>2 DEF NttInv, Ntt!Sampler!Init, Ntt!Taken, Ntt!Status

(* Where the loop is in the list of candidates. *)
LEMMA NttCandidates ==
  ASSUME Ntt!ConstantsAssumption, NttInv, n_pc \in {"first", "second"},
         NEW h, h = n_byte_index \div 3
  PROVE  /\ h \in Nat \ {0} /\ 2 * h <= Len(Ntt!Candidates)
         /\ Ntt!Candidates[2 * h - 1] = [ok |-> n_d1 < KemQ, value |-> n_d1]
         /\ Ntt!Candidates[2 * h] = [ok |-> n_d2 < KemQ, value |-> n_d2]
<1>1. /\ n_bytes \in Seq(Ntt!Byte) /\ Len(n_bytes) \in Nat
      /\ n_byte_index \in 3 .. Len(n_bytes) /\ n_byte_index = 3 * h /\ h \in Nat \ {0}
      /\ h <= Len(n_bytes) \div 3
  BY DEF NttInv
<1> DEFINE x == n_bytes[n_byte_index - 2]
           y == n_bytes[n_byte_index - 1]
           w == n_bytes[n_byte_index]
           byte == Nibble * Nibble
           group == x + byte * y + byte * byte * w
<1>2. x \in Ntt!Byte /\ y \in Ntt!Byte /\ w \in Ntt!Byte
  <2>1. /\ n_byte_index - 2 \in 1 .. Len(n_bytes) /\ n_byte_index - 1 \in 1 .. Len(n_bytes)
        /\ n_byte_index \in 1 .. Len(n_bytes)
    BY <1>1
  <2> QED
    BY <1>1, <2>1, ElementOfSeq
<1>3. n_d1 = Ntt!FirstCandidate(x, y) /\ n_d2 = Ntt!SecondCandidate(y, w)
  BY DEF NttInv
<1>4. /\ Len(Ntt!Candidates) = 2 * (Len(n_bytes) \div 3)
      /\ \A k \in 1 .. 2 * (Len(n_bytes) \div 3) :
           Ntt!Candidates[k] =
             LET g == 3 * ((k - 1) \div 2)
                 number == n_bytes[g + 1] + byte * n_bytes[g + 2] + byte * byte * n_bytes[g + 3]
                 value == IF k % 2 = 1 THEN number % (byte * Nibble)
                          ELSE number \div (byte * Nibble)
             IN  [ok |-> value < KemQ, value |-> value]
  BY <1>1 DEF Ntt!Candidates
<1>5. group % (byte * Nibble) = n_d1 /\ group \div (byte * Nibble) = n_d2
  <2>1. Nibble \in Nat \ {0} /\ byte = Nibble * Nibble /\ group = x + byte * y + byte * byte * w
    BY DEF Ntt!ConstantsAssumption
  <2> HIDE DEF x, y, w, byte, group
  <2> QED
    BY <1>2, <1>3, <2>1, GroupHalves
<1>6. ASSUME NEW k \in 1 .. 2 * (Len(n_bytes) \div 3), 3 * ((k - 1) \div 2) = n_byte_index - 3
      PROVE  /\ k % 2 = 1 => Ntt!Candidates[k] = [ok |-> n_d1 < KemQ, value |-> n_d1]
             /\ k % 2 # 1 => Ntt!Candidates[k] = [ok |-> n_d2 < KemQ, value |-> n_d2]
  <2> DEFINE g == 3 * ((k - 1) \div 2)
             number == n_bytes[g + 1] + byte * n_bytes[g + 2] + byte * byte * n_bytes[g + 3]
  <2>1. g + 1 = n_byte_index - 2 /\ g + 2 = n_byte_index - 1 /\ g + 3 = n_byte_index
    BY <1>1, <1>6
  <2>2. Ntt!Candidates[k] =
          LET value == IF k % 2 = 1 THEN number % (byte * Nibble) ELSE number \div (byte * Nibble)
          IN  [ok |-> value < KemQ, value |-> value]
    BY <1>4
  <2>3. number = group
    <3> HIDE DEF g, byte
    <3> QED
      BY <2>1
  <2> HIDE DEF number, group, byte
  <2>4. CASE k % 2 = 1
    <3>1. (IF k % 2 = 1 THEN number % (byte * Nibble) ELSE number \div (byte * Nibble)) = n_d1
      BY <1>5, <2>3, <2>4
    <3> QED
      BY <2>2, <2>4, <3>1, Zenon
  <2>5. CASE k % 2 # 1
    <3>1. (IF k % 2 = 1 THEN number % (byte * Nibble) ELSE number \div (byte * Nibble)) = n_d2
      BY <1>5, <2>3, <2>5
    <3> QED
      BY <2>2, <2>5, <3>1, Zenon
  <2> QED
    BY <2>4, <2>5
<1>7. /\ 2 * h - 1 \in 1 .. 2 * (Len(n_bytes) \div 3) /\ (2 * h - 1) % 2 = 1
      /\ 3 * (((2 * h - 1) - 1) \div 2) = n_byte_index - 3
      /\ 2 * h \in 1 .. 2 * (Len(n_bytes) \div 3) /\ (2 * h) % 2 = 0
      /\ 3 * ((2 * h - 1) \div 2) = n_byte_index - 3
  BY <1>1
<1>8. Ntt!Candidates[2 * h - 1] = [ok |-> n_d1 < KemQ, value |-> n_d1]
  <2> DEFINE k == 2 * h - 1
  <2>1. /\ k \in 1 .. 2 * (Len(n_bytes) \div 3) /\ k % 2 = 1
        /\ 3 * ((k - 1) \div 2) = n_byte_index - 3
    BY <1>7
  <2> HIDE DEF k
  <2>2. Ntt!Candidates[k] = [ok |-> n_d1 < KemQ, value |-> n_d1]
    BY <1>6, <2>1
  <2> QED
    BY <2>2 DEF k
<1>9. Ntt!Candidates[2 * h] = [ok |-> n_d2 < KemQ, value |-> n_d2]
  <2> DEFINE k == 2 * h
  <2>1. /\ k \in 1 .. 2 * (Len(n_bytes) \div 3) /\ k % 2 # 1
        /\ 3 * ((k - 1) \div 2) = n_byte_index - 3
    BY <1>7
  <2> HIDE DEF k
  <2>2. Ntt!Candidates[k] = [ok |-> n_d2 < KemQ, value |-> n_d2]
    BY <1>6, <2>1
  <2> QED
    BY <2>2 DEF k
<1> QED
  BY <1>1, <1>4, <1>8, <1>9

(* Every step of sample_ntt is one of the abstract sampler. *)
LEMMA NttStep ==
  ASSUME Ntt!ConstantsAssumption, NttInv, [Ntt!Next]_Ntt!vars
  PROVE  NttInv' /\ [Ntt!Sampler!Next]_Ntt!Sampler!samplerVars
<1> DEFINE h == n_byte_index \div 3
<1>0. /\ N \in Nat \ {0} /\ n_bytes \in Seq(Ntt!Byte) /\ Len(n_bytes) \in Nat
      /\ n_byte_index \in 0 .. Len(n_bytes) /\ n_byte_index % 3 = 0
      /\ n_coefficients \in Seq(Nat) /\ Len(n_coefficients) \in Nat /\ Len(n_coefficients) <= N
      /\ n_d1 \in Nat /\ n_d2 \in Nat /\ KemQ \in Nat /\ Nibble \in Nat \ {0}
  BY DEF Ntt!ConstantsAssumption, NttInv
<1>1. h \in Nat /\ n_byte_index = 3 * h
  BY <1>0
<1>2. ASSUME n_bytes' = n_bytes PROVE Ntt!Candidates' = Ntt!Candidates
  BY <1>2 DEF Ntt!Candidates
<1>3. CASE Ntt!Exhausted
  <2>1. /\ n_pc = "loop" /\ Len(n_coefficients) < N /\ n_byte_index + 3 > Len(n_bytes)
        /\ n_pc' = "exhausted"
        /\ UNCHANGED <<n_bytes, n_byte_index, n_d1, n_d2, n_coefficients>>
    BY <1>3 DEF Ntt!Exhausted, Ntt!TooFew
  <2>2. Ntt!Status = "sampling" /\ Ntt!Status' = "short"
    BY <1>0, <2>1 DEF Ntt!Status
  <2>3. Len(n_bytes) \div 3 = h
    BY <1>0, <1>1, <2>1
  <2>4. Ntt!Taken = 2 * h /\ Ntt!Taken' = Ntt!Taken /\ Len(Ntt!Candidates) = 2 * h
    <3>1. Len(Ntt!Candidates) = 2 * (Len(n_bytes) \div 3)
      BY <1>0 DEF Ntt!Candidates
    <3> QED
      BY <1>1, <2>1, <2>3, <3>1 DEF Ntt!Taken
  <2>5. NttInv'
    BY <2>1 DEF NttInv
  <2> QED
    BY <1>2, <2>1, <2>2, <2>4, <2>5 DEF Ntt!Sampler!Next, Ntt!Sampler!GiveUp
<1>4. CASE Ntt!ReadGroup
  <2>1. /\ n_pc = "loop" /\ Len(n_coefficients) < N /\ n_byte_index + 3 <= Len(n_bytes)
        /\ n_d1' = Ntt!FirstCandidate(n_bytes[n_byte_index + 1], n_bytes[n_byte_index + 2])
        /\ n_d2' = Ntt!SecondCandidate(n_bytes[n_byte_index + 2], n_bytes[n_byte_index + 3])
        /\ n_byte_index' = n_byte_index + 3 /\ n_pc' = "first"
        /\ UNCHANGED <<n_bytes, n_coefficients>>
    BY <1>0, <1>4 DEF Ntt!ReadGroup, Ntt!TooFew
  <2>2. /\ n_byte_index' - 2 = n_byte_index + 1 /\ n_byte_index' - 1 = n_byte_index + 2
        /\ n_byte_index' \in 0 .. Len(n_bytes) /\ n_byte_index' % 3 = 0 /\ n_byte_index' >= 3
        /\ n_byte_index' \div 3 = h + 1
    BY <1>0, <1>1, <2>1
  <2>3. n_d1' \in Nat /\ n_d2' \in Nat
    <3>1. /\ n_byte_index + 1 \in 1 .. Len(n_bytes) /\ n_byte_index + 2 \in 1 .. Len(n_bytes)
          /\ n_byte_index + 3 \in 1 .. Len(n_bytes)
      BY <1>0, <2>1
    <3>2. /\ n_bytes[n_byte_index + 1] \in Ntt!Byte /\ n_bytes[n_byte_index + 2] \in Ntt!Byte
          /\ n_bytes[n_byte_index + 3] \in Ntt!Byte
      BY <1>0, <3>1, ElementOfSeq
    <3> QED
      BY <1>0, <2>1, <3>2, GroupHalves
  <2>4. NttInv'
    BY <1>0, <2>1, <2>2, <2>3 DEF NttInv
  <2>5. Ntt!Taken = 2 * h /\ Ntt!Taken' = 2 * h /\ Ntt!Status' = Ntt!Status
    BY <1>0, <1>1, <2>1, <2>2 DEF Ntt!Taken, Ntt!Status
  <2> QED
    BY <1>2, <2>1, <2>4, <2>5 DEF Ntt!Sampler!samplerVars
<1>5. CASE Ntt!First
  <2>1. /\ n_pc = "first" /\ n_pc' = "second"
        /\ n_coefficients' = IF n_d1 < KemQ THEN Append(n_coefficients, n_d1) ELSE n_coefficients
        /\ UNCHANGED <<n_bytes, n_byte_index, n_d1, n_d2>>
    BY <1>5 DEF Ntt!First
  <2>2. Len(n_coefficients) < N
    BY <2>1 DEF NttInv
  <2>3. /\ h \in Nat \ {0} /\ 2 * h <= Len(Ntt!Candidates)
        /\ Ntt!Candidates[2 * h - 1] = [ok |-> n_d1 < KemQ, value |-> n_d1]
    <3> HIDE DEF h
    <3>1. h = n_byte_index \div 3
      BY DEF h
    <3> QED
      BY <2>1, <3>1, NttCandidates
  <2>4. Len(Ntt!Candidates) \in Int
    BY <1>0 DEF Ntt!Candidates
  <2>5. Ntt!Taken = 2 * h - 2 /\ Ntt!Taken' = 2 * h - 1
    BY <1>1, <2>1 DEF Ntt!Taken
  <2>6. /\ n_coefficients' \in Seq(Nat)
        /\ Len(n_coefficients') = IF n_d1 < KemQ THEN Len(n_coefficients) + 1
                                  ELSE Len(n_coefficients)
    BY <1>0, <2>1
  <2>7. Ntt!Status = "sampling"
        /\ Ntt!Status' = IF Len(n_coefficients') = N THEN "full" ELSE "sampling"
    BY <1>0, <2>1, <2>2 DEF Ntt!Status
  <2>8. NttInv'
    BY <1>0, <2>1, <2>2, <2>6 DEF NttInv
  <2> HIDE DEF h
  <2>9. Ntt!Taken + 1 = 2 * h - 1 /\ Ntt!Taken < Len(Ntt!Candidates)
        /\ Ntt!Taken' = Ntt!Taken + 1
    BY <2>3, <2>4, <2>5
  <2>10. Ntt!Candidates[Ntt!Taken + 1] = [ok |-> n_d1 < KemQ, value |-> n_d1]
    BY <2>3, <2>9
  <2>11. n_coefficients' = IF Ntt!Candidates[Ntt!Taken + 1].ok
                           THEN Append(n_coefficients, Ntt!Candidates[Ntt!Taken + 1].value)
                           ELSE n_coefficients
    <3> DEFINE next == Ntt!Candidates[Ntt!Taken + 1]
    <3>1. (next.ok <=> n_d1 < KemQ) /\ next.value = n_d1
      <4> DEFINE ok == n_d1 < KemQ
      <4>1. next = [ok |-> ok, value |-> n_d1]
        BY <2>10
      <4> HIDE DEF next, ok
      <4>2. next.ok = ok /\ next.value = n_d1
        BY <4>1
      <4> QED
        BY <4>2 DEF ok
    <3> HIDE DEF next
    <3>2. n_coefficients' = IF next.ok THEN Append(n_coefficients, next.value)
                            ELSE n_coefficients
      BY <2>1, <3>1
    <3> QED
      BY <3>2 DEF next
  <2>12. Ntt!Sampler!Take
    BY <1>2, <2>1, <2>7, <2>9, <2>11 DEF Ntt!Sampler!Take
  <2> QED
    BY <2>8, <2>12 DEF Ntt!Sampler!Next
<1>6. CASE Ntt!Second
  <2>1. /\ n_pc = "second" /\ n_pc' = "loop"
        /\ n_coefficients' = IF n_d2 < KemQ /\ Len(n_coefficients) < N
                             THEN Append(n_coefficients, n_d2) ELSE n_coefficients
        /\ UNCHANGED <<n_bytes, n_byte_index, n_d1, n_d2>>
    BY <1>6 DEF Ntt!Second
  <2>2. /\ h \in Nat \ {0} /\ 2 * h <= Len(Ntt!Candidates)
        /\ Ntt!Candidates[2 * h] = [ok |-> n_d2 < KemQ, value |-> n_d2]
    <3> HIDE DEF h
    <3>1. h = n_byte_index \div 3
      BY DEF h
    <3> QED
      BY <2>1, <3>1, NttCandidates
  <2>3. Len(Ntt!Candidates) \in Int
    BY <1>0 DEF Ntt!Candidates
  <2>4. Ntt!Taken = 2 * h - 1 /\ Ntt!Taken' = 2 * h
    BY <1>1, <2>1 DEF Ntt!Taken
  <2>5. /\ n_coefficients' \in Seq(Nat)
        /\ Len(n_coefficients') = IF n_d2 < KemQ /\ Len(n_coefficients) < N
                                  THEN Len(n_coefficients) + 1 ELSE Len(n_coefficients)
    BY <1>0, <2>1
  <2>6. /\ Ntt!Status = IF Len(n_coefficients) = N THEN "full" ELSE "sampling"
        /\ Ntt!Status' = IF Len(n_coefficients') = N THEN "full" ELSE "sampling"
    BY <2>1 DEF Ntt!Status
  <2>7. NttInv'
    BY <1>0, <2>1, <2>5 DEF NttInv
  <2> HIDE DEF h
  <2>8. Ntt!Taken + 1 = 2 * h /\ Ntt!Taken < Len(Ntt!Candidates) /\ Ntt!Taken' = Ntt!Taken + 1
    BY <2>2, <2>3, <2>4
  <2>9. Ntt!Candidates[Ntt!Taken + 1] = [ok |-> n_d2 < KemQ, value |-> n_d2]
    BY <2>2, <2>8
  <2>10. CASE Len(n_coefficients) = N
    <3>1. n_coefficients' = n_coefficients /\ Ntt!Status = "full" /\ Ntt!Status' = "full"
      BY <2>1, <2>6, <2>10
    <3>2. Ntt!Sampler!Ignore
      BY <1>2, <2>1, <2>8, <3>1 DEF Ntt!Sampler!Ignore
    <3> QED
      BY <2>7, <3>2 DEF Ntt!Sampler!Next
  <2>11. CASE Len(n_coefficients) # N
    <3>1. Len(n_coefficients) < N
      BY <1>0, <2>11
    <3>2. n_coefficients' = IF Ntt!Candidates[Ntt!Taken + 1].ok
                            THEN Append(n_coefficients, Ntt!Candidates[Ntt!Taken + 1].value)
                            ELSE n_coefficients
      <4> DEFINE next == Ntt!Candidates[Ntt!Taken + 1]
      <4>1. (next.ok <=> n_d2 < KemQ) /\ next.value = n_d2
        <5> DEFINE ok == n_d2 < KemQ
        <5>1. next = [ok |-> ok, value |-> n_d2]
          BY <2>9
        <5> HIDE DEF next, ok
        <5>2. next.ok = ok /\ next.value = n_d2
          BY <5>1
        <5> QED
          BY <5>2 DEF ok
      <4> HIDE DEF next
      <4>2. n_coefficients' = IF next.ok THEN Append(n_coefficients, next.value)
                              ELSE n_coefficients
        BY <2>1, <3>1, <4>1
      <4> QED
        BY <4>2 DEF next
    <3>3. Ntt!Sampler!Take
      BY <1>2, <2>1, <2>6, <2>8, <2>11, <3>2 DEF Ntt!Sampler!Take
    <3> QED
      BY <2>7, <3>3 DEF Ntt!Sampler!Next
  <2> QED
    BY <2>10, <2>11
<1>7. CASE Ntt!Return
  <2>1. /\ n_pc = "loop" /\ Len(n_coefficients) = N /\ n_pc' = "done"
        /\ UNCHANGED <<n_bytes, n_byte_index, n_d1, n_d2, n_coefficients>>
    BY <1>7 DEF Ntt!Return
  <2>2. Ntt!Status' = Ntt!Status /\ Ntt!Taken' = Ntt!Taken
    BY <2>1 DEF Ntt!Status, Ntt!Taken
  <2>3. NttInv'
    BY <2>1 DEF NttInv
  <2> QED
    BY <1>2, <2>1, <2>2, <2>3 DEF Ntt!Sampler!samplerVars
<1>8. CASE UNCHANGED Ntt!vars
  <2>1. UNCHANGED <<n_bytes, n_pc, n_byte_index, n_d1, n_d2, n_coefficients>>
    BY <1>8 DEF Ntt!vars
  <2>2. Ntt!Status' = Ntt!Status /\ Ntt!Taken' = Ntt!Taken
    BY <2>1 DEF Ntt!Status, Ntt!Taken
  <2> QED
    BY <1>2, <2>1, <2>2 DEF NttInv, Ntt!Sampler!samplerVars
<1> QED
  BY <1>3, <1>4, <1>5, <1>6, <1>7, <1>8 DEF Ntt!Next

(* SampleNTT's loop over groups of three bytes implements the rejection sampler
   over their candidates, the ignored last one included. *)
THEOREM SampleNttImplements ==
  ASSUME Ntt!ConstantsAssumption
  PROVE  Ntt!Spec => NttImplementsSampler
<1>1. Ntt!Init => NttInv /\ Ntt!Sampler!Init
  BY NttInit
<1>2. NttInv /\ [Ntt!Next]_Ntt!vars
        => NttInv' /\ [Ntt!Sampler!Next]_Ntt!Sampler!samplerVars
  BY NttStep
<1> QED
  BY <1>1, <1>2, PTL DEF Ntt!Spec, NttImplementsSampler, Ntt!ImplementsSampler, Ntt!Sampler!Spec

-----------------------------------------------------------------------------
(* SamplePolyCBD. *)
OnesIn(stream, from, count) == {b \in from .. from + count - 1 : stream[b] = 1}

(* The set bits among some are finitely many. *)
LEMMA OnesCounted ==
  ASSUME NEW stream, NEW from \in Int, NEW count \in Nat
  PROVE  /\ IsFiniteSet(OnesIn(stream, from, count))
         /\ Binomial!Ones(stream, from, count) = Cardinality(OnesIn(stream, from, count))
         /\ Binomial!Ones(stream, from, count) \in 0 .. count
<1> DEFINE range == from .. from + count - 1
<1>1. IsFiniteSet(range) /\ Cardinality(range) = count
  BY FS_Interval
<1>2. OnesIn(stream, from, count) \in SUBSET range
  BY DEF OnesIn
<1>3. /\ IsFiniteSet(OnesIn(stream, from, count))
      /\ Cardinality(OnesIn(stream, from, count)) <= count
      /\ Cardinality(OnesIn(stream, from, count)) \in Nat
  BY <1>1, <1>2, FS_Subset, FS_CardinalityType
<1>4. \A S : Binomial!Cardinality(S) = Cardinality(S)
  BY DEF Binomial!Cardinality, Cardinality
<1>5. Binomial!Ones(stream, from, count) = Cardinality(OnesIn(stream, from, count))
  BY <1>4 DEF Binomial!Ones, OnesIn
<1> QED
  BY <1>3, <1>5

(* Flipping a bit changes the count of a range by one if it is in the range,
   and not at all otherwise. *)
Recounted(stream, flipped, b, from, count) ==
  Binomial!Ones(flipped, from, count) =
    Binomial!Ones(stream, from, count)
      + (IF b \in from .. from + count - 1 THEN IF stream[b] = 1 THEN -1 ELSE 1 ELSE 0)

(* Flipping a bit changes the count of ones by one. *)
LEMMA OnesFlipped ==
  ASSUME NEW D, NEW stream \in [D -> {0, 1}], NEW b \in D, NEW flipped,
         flipped = [stream EXCEPT ![b] = 1 - @],
         NEW from \in Int, NEW count \in Nat, from .. from + count - 1 \subseteq D
  PROVE  Recounted(stream, flipped, b, from, count)
<1> DEFINE range == from .. from + count - 1
           before == OnesIn(stream, from, count)
           after == OnesIn(flipped, from, count)
<1>1. \A x \in D : flipped[x] = IF x = b THEN 1 - stream[b] ELSE stream[x]
  OBVIOUS
<1>2. \A x : (x \in before <=> x \in range /\ stream[x] = 1)
             /\ (x \in after <=> x \in range /\ flipped[x] = 1)
  BY DEF OnesIn
<1>3. IsFiniteSet(before) /\ IsFiniteSet(after) /\ Cardinality(before) \in Nat
      /\ Binomial!Ones(stream, from, count) = Cardinality(before)
      /\ Binomial!Ones(flipped, from, count) = Cardinality(after)
  BY OnesCounted, FS_CardinalityType
<1>4. stream[b] \in {0, 1}
  OBVIOUS
<1>5. range \subseteq D
  OBVIOUS
<1> USE DEF Recounted
<1> HIDE DEF before, after, range
<1>6. CASE b \in range /\ stream[b] = 1
  <2>1. after = before \ {b} /\ b \in before
    BY <1>1, <1>2, <1>5, <1>6
  <2>2. Cardinality(after) = Cardinality(before) - 1
    BY <1>3, <2>1, FS_RemoveElement
  <2> QED
    BY <1>3, <1>6, <2>2 DEF range
<1>7. CASE b \in range /\ stream[b] # 1
  <2>1. after = before \cup {b} /\ b \notin before
    BY <1>1, <1>2, <1>4, <1>5, <1>7
  <2>2. Cardinality(after) = Cardinality(before) + 1
    BY <1>3, <2>1, FS_AddElement
  <2> QED
    BY <1>3, <1>7, <2>2 DEF range
<1>8. CASE b \notin range
  <2>1. after = before
    BY <1>1, <1>2, <1>5, <1>8
  <2> QED
    BY <1>3, <1>8, <2>1 DEF range
<1> QED
  BY <1>6, <1>7, <1>8

BinomialInv ==
  /\ c_eta \in Nat /\ c_coefficient_index \in Nat
  /\ c_pc \in {"start", "loop", "done", "invalid_argument"}
  /\ \E n \in Nat : c_bits \in [0 .. n - 1 -> {0, 1}]
  /\ DOMAIN c_coefficients = Binomial!Index
  /\ c_pc = "start" => c_coefficient_index = 0
  /\ c_pc \in {"loop", "done"} =>
       c_eta \in {2, 3} /\ c_bits \in [0 .. 2 * c_eta * BinomialDegree - 1 -> {0, 1}]
  /\ c_pc = "loop" =>
       \A i \in Binomial!Index : i < c_coefficient_index =>
         c_coefficients[i] = Binomial!Coefficient(c_bits, c_eta, i)
  /\ c_pc = "done" =>
       \A i \in Binomial!Index :
         c_coefficients[i] = Binomial!Normalize(Binomial!Coefficient(c_bits, c_eta, i))

(* The binomial sampler starts with no bit flipped. *)
LEMMA BinomialInit ==
  ASSUME Binomial!ConstantsAssumption
  PROVE  Binomial!Init => BinomialInv
<1> SUFFICES ASSUME Binomial!Init PROVE BinomialInv
  OBVIOUS
<1>1. PICK n \in BitLengths : c_bits \in [0 .. n - 1 -> {0, 1}]
  BY DEF Binomial!Init
<1> QED
  BY <1>1 DEF Binomial!ConstantsAssumption, Binomial!Init, Binomial!Zero, BinomialInv

(* Filled entries hold their coefficient, and the returned ones its residue. *)
LEMMA BinomialStep ==
  ASSUME Binomial!ConstantsAssumption, BinomialInv, [Binomial!Next]_Binomial!vars
  PROVE  BinomialInv'
<1>0. BinomialDegree \in Nat \ {0}
  BY DEF Binomial!ConstantsAssumption
<1>1. CASE Binomial!Start
  <2>1. /\ c_pc = "start" /\ c_pc' = IF Binomial!WellFormed THEN "loop" ELSE "invalid_argument"
        /\ UNCHANGED <<c_eta, c_bits, c_coefficient_index, c_coefficients>>
        /\ c_coefficient_index = 0
    BY <1>1 DEF Binomial!Start, BinomialInv
  <2>2. CASE Binomial!WellFormed
    <3>1. PICK n \in Nat : c_bits \in [0 .. n - 1 -> {0, 1}]
      BY DEF BinomialInv
    <3>2. Cardinality(0 .. n - 1) = n
      BY FS_Interval
    <3>3. Binomial!Cardinality(DOMAIN c_bits) = Cardinality(DOMAIN c_bits)
      BY DEF Binomial!Cardinality, Cardinality
    <3>4. c_eta \in {2, 3} /\ n = 2 * c_eta * BinomialDegree
      BY <2>2, <3>1, <3>2, <3>3 DEF Binomial!WellFormed
    <3>5. c_bits \in [0 .. 2 * c_eta * BinomialDegree - 1 -> {0, 1}]
      BY <3>1, <3>4
    <3>6. \A i \in Binomial!Index : ~(i < 0)
      BY <1>0 DEF Binomial!Index
    <3> QED
      BY <2>1, <2>2, <3>4, <3>5, <3>6 DEF BinomialInv, Binomial!Index
  <2>3. CASE ~Binomial!WellFormed
    BY <2>1, <2>3 DEF BinomialInv, Binomial!Index
  <2> QED
    BY <2>2, <2>3
<1>2. CASE Binomial!Fill
  <2>1. /\ c_pc = "loop" /\ c_coefficient_index < BinomialDegree
        /\ c_coefficients' = [c_coefficients EXCEPT ![c_coefficient_index] =
                                Binomial!Coefficient(c_bits, c_eta, c_coefficient_index)]
        /\ c_coefficient_index' = c_coefficient_index + 1
        /\ UNCHANGED <<c_eta, c_bits, c_pc>>
    BY <1>2 DEF Binomial!Fill
  <2>2. c_coefficient_index \in Binomial!Index /\ c_coefficient_index \in Nat
    BY <1>0, <2>1 DEF BinomialInv, Binomial!Index
  <2>3. \A i \in Binomial!Index : i \in Int
    BY <1>0 DEF Binomial!Index
  <2>4. \A i \in Binomial!Index : i < c_coefficient_index + 1 =>
          c_coefficients'[i] = Binomial!Coefficient(c_bits, c_eta, i)
    BY <2>1, <2>2, <2>3 DEF BinomialInv
  <2>5. DOMAIN c_coefficients' = Binomial!Index
    BY <2>1 DEF BinomialInv
  <2>6. \A s, e, i : Binomial!Coefficient(s, e, i)' = Binomial!Coefficient(s, e, i)
    OBVIOUS
  <2> QED
    BY <2>1, <2>2, <2>4, <2>5 DEF BinomialInv, Binomial!Index
<1>3. CASE Binomial!Return
  <2>1. /\ c_pc = "loop" /\ c_coefficient_index = BinomialDegree /\ c_pc' = "done"
        /\ c_coefficients' = [i \in Binomial!Index |-> Binomial!Normalize(c_coefficients[i])]
        /\ UNCHANGED <<c_eta, c_bits, c_coefficient_index>>
    BY <1>3 DEF Binomial!Return
  <2>2. \A i \in Binomial!Index :
          c_coefficients'[i] = Binomial!Normalize(Binomial!Coefficient(c_bits, c_eta, i))
    <3>1. \A i \in Binomial!Index : i < c_coefficient_index
      BY <1>0, <2>1 DEF Binomial!Index
    <3> QED
      BY <2>1, <3>1 DEF BinomialInv
  <2>3. DOMAIN c_coefficients' = Binomial!Index
    BY <2>1
  <2> QED
    BY <2>1, <2>2, <2>3 DEF BinomialInv, Binomial!Index
<1>4. CASE UNCHANGED Binomial!vars
  BY <1>4 DEF Binomial!vars, BinomialInv, Binomial!Index
<1> QED
  BY <1>1, <1>2, <1>3, <1>4 DEF Binomial!Next

(* A small value survives being stored modulo the modulus. *)
LEMMA SmallSurvives ==
  ASSUME BinomialQ \in Nat, BinomialQ > 6, NEW x \in -3 .. 3
  PROVE  Binomial!Centered(Binomial!Normalize(x)) = x
<1>1. BinomialQ \div 2 >= 3 /\ BinomialQ \div 2 \in Int /\ BinomialQ - 3 > BinomialQ \div 2
  OBVIOUS
<1>2. CASE x >= 0
  <2>1. x % BinomialQ = x
    BY <1>2, SmallRemainder
  <2>2. Binomial!Normalize(x) = x
    BY <1>2, <2>1 DEF Binomial!Normalize, Binomial!Remainder
  <2> QED
    BY <1>1, <2>2 DEF Binomial!Centered
<1>3. CASE x < 0
  <2>1. (-x) % BinomialQ = -x
    <3>1. -x \in 0 .. BinomialQ - 1
      BY <1>3
    <3> QED
      BY <3>1, SmallRemainder
  <2>2. Binomial!Normalize(x) = x + BinomialQ
    BY <1>3, <2>1 DEF Binomial!Normalize, Binomial!Remainder
  <2> QED
    BY <1>1, <1>3, <2>2 DEF Binomial!Centered
<1> QED
  BY <1>2, <1>3

(* A bit belongs to one coefficient. *)
LEMMA OneCoefficientChanges ==
  ASSUME BinomialDegree \in Nat \ {0}, NEW e \in {2, 3}, NEW stream \in [0 .. 2 * e * BinomialDegree - 1 -> {0, 1}],
         NEW b \in 0 .. 2 * e * BinomialDegree - 1, NEW i \in 0 .. BinomialDegree - 1,
         NEW flipped, flipped = [stream EXCEPT ![b] = 1 - @]
  PROVE  /\ Binomial!Coefficient(stream, e, i) \in -3 .. 3
         /\ Binomial!Coefficient(flipped, e, i) - Binomial!Coefficient(stream, e, i)
              \in (IF i = b \div (2 * e) THEN {-1, 1} ELSE {0})
<1> DEFINE o == 2 * i * e
           plus == Binomial!Ones(stream, o, e)
           minus == Binomial!Ones(stream, o + e, e)
           inPlus == b \in o .. o + e - 1
           inMinus == b \in o + e .. o + e + e - 1
           change == IF stream[b] = 1 THEN -1 ELSE 1
<1>1. /\ o \in Int /\ e \in Nat /\ o + e \in Int
      /\ o .. o + e - 1 \subseteq 0 .. 2 * e * BinomialDegree - 1
      /\ o + e .. o + e + e - 1 \subseteq 0 .. 2 * e * BinomialDegree - 1
  <2>1. CASE e = 2
    BY <2>1
  <2>2. CASE e = 3
    BY <2>2
  <2> QED
    BY <2>1, <2>2
<1>2. i = b \div (2 * e) <=> inPlus \/ inMinus
  <2>1. CASE e = 2
    BY <2>1
  <2>2. CASE e = 3
    BY <2>2
  <2> QED
    BY <2>1, <2>2
<1>3. ~(inPlus /\ inMinus)
  BY <1>1
<1>4. plus \in 0 .. e /\ minus \in 0 .. e
  <2> HIDE DEF o
  <2> QED
    BY <1>1, OnesCounted
<1>5. /\ Binomial!Ones(flipped, o, e) = plus + (IF inPlus THEN change ELSE 0)
      /\ Binomial!Ones(flipped, o + e, e) = minus + (IF inMinus THEN change ELSE 0)
  <2> DEFINE D == 0 .. 2 * e * BinomialDegree - 1
             second == o + e
  <2>1. /\ o .. o + e - 1 \subseteq D /\ second .. second + e - 1 \subseteq D
        /\ b \in D /\ stream \in [D -> {0, 1}] /\ o \in Int /\ second \in Int /\ e \in Nat
    BY <1>1
  <2> HIDE DEF o, D, second
  <2>2. Recounted(stream, flipped, b, o, e)
    BY <2>1, OnesFlipped
  <2>3. Recounted(stream, flipped, b, second, e)
    BY <2>1, OnesFlipped
  <2> QED
    BY <2>2, <2>3 DEF second, Recounted
<1>6. /\ Binomial!Coefficient(stream, e, i) = plus - minus
      /\ Binomial!Coefficient(flipped, e, i)
           = Binomial!Ones(flipped, o, e) - Binomial!Ones(flipped, o + e, e)
  BY DEF Binomial!Coefficient
<1> HIDE DEF plus, minus, inPlus, inMinus, o
<1>7. e \in 2 .. 3 /\ plus \in Int /\ minus \in Int /\ change \in {-1, 1}
  BY <1>4
<1> QED
  BY <1>2, <1>3, <1>4, <1>5, <1>6, <1>7

(* Every bit of SamplePolyCBD's input counts for one coefficient, once. *)
THEOREM BinomialBitsCountOnce ==
  ASSUME Binomial!ConstantsAssumption
  PROVE  Binomial!Spec => []EachBitCountsOnce
<1>1. Binomial!Init => BinomialInv
  BY BinomialInit
<1>2. BinomialInv /\ [Binomial!Next]_Binomial!vars => BinomialInv'
  BY BinomialStep
<1>3. ASSUME BinomialInv PROVE EachBitCountsOnce
  <2> SUFFICES ASSUME c_pc = "done", NEW b \in DOMAIN c_bits, NEW i \in Binomial!Index,
                      NEW flipped, flipped = [c_bits EXCEPT ![b] = 1 - @]
               PROVE  Binomial!Coefficient(flipped, c_eta, i) - Binomial!Centered(c_coefficients[i])
                        \in (IF i = b \div (2 * c_eta) THEN {-1, 1} ELSE {0})
    BY Zenon DEF EachBitCountsOnce, Binomial!EachBitCountsOnce
  <2>1. /\ BinomialDegree \in Nat \ {0} /\ BinomialQ \in Nat /\ BinomialQ > 6 /\ i \in 0 .. BinomialDegree - 1
        /\ c_eta \in {2, 3} /\ c_bits \in [0 .. 2 * c_eta * BinomialDegree - 1 -> {0, 1}]
        /\ b \in 0 .. 2 * c_eta * BinomialDegree - 1
        /\ c_coefficients[i] = Binomial!Normalize(Binomial!Coefficient(c_bits, c_eta, i))
    BY <1>3 DEF Binomial!ConstantsAssumption, Binomial!Index, BinomialInv
  <2>2. /\ Binomial!Coefficient(c_bits, c_eta, i) \in -3 .. 3
        /\ Binomial!Coefficient(flipped, c_eta, i) - Binomial!Coefficient(c_bits, c_eta, i)
             \in (IF i = b \div (2 * c_eta) THEN {-1, 1} ELSE {0})
    BY <2>1, OneCoefficientChanges
  <2>3. Binomial!Centered(c_coefficients[i]) = Binomial!Coefficient(c_bits, c_eta, i)
    BY <2>1, <2>2, SmallSurvives
  <2> QED
    BY <2>2, <2>3
<1> QED
  BY <1>1, <1>2, <1>3, PTL DEF Binomial!Spec

-----------------------------------------------------------------------------
(* keccak_sponge. *)
Block == [0 .. rate - 1 -> Sponge!Byte]
OutputByte == [blocks : Seq(Block), squeeze : Nat, position : Nat]

(* The whole blocks absorbed are the input's, in order. *)
WholeBlocks(count) ==
  /\ input_offset = rate * count /\ input_offset <= Len(input)
  /\ \A b \in 1 .. count : \A i \in 0 .. rate - 1 :
       absorbed[b][i] = input[rate * (b - 1) + i + 1]

OutputInPlace ==
  \A i \in 1 .. Len(output) :
    /\ output[i].blocks = absorbed
    /\ output[i].squeeze = (i - 1) \div rate
    /\ output[i].position = (i - 1) % rate

SpongeInv ==
  /\ input \in Inputs /\ suffix \in Suffixes /\ rate \in Nat /\ output_bytes \in Nat
  /\ sponge_pc \in {"start", "absorb", "squeeze", "done", "invalid_argument"}
  /\ input_offset \in Nat /\ squeezes \in Nat
  /\ sponge_pc \in {"start", "invalid_argument"} =>
       input_offset = 0 /\ absorbed = <<>> /\ squeezes = 0 /\ output = <<>>
  /\ sponge_pc \in {"absorb", "squeeze", "done"} =>
       rate # 0 /\ absorbed \in Seq(Block) /\ output \in Seq(OutputByte)
  /\ sponge_pc = "absorb" =>
       WholeBlocks(Len(absorbed)) /\ squeezes = 0 /\ output = <<>>
  /\ sponge_pc \in {"squeeze", "done"} =>
       /\ Len(absorbed) # 0 /\ WholeBlocks(Len(absorbed) - 1)
       /\ Len(input) - input_offset < rate
       /\ absorbed[Len(absorbed)] = Sponge!PaddedLastBlock
       /\ OutputInPlace /\ Len(output) <= output_bytes
  /\ sponge_pc = "squeeze" /\ Len(output) < output_bytes =>
       Len(output) = rate * squeezes
  /\ sponge_pc = "done" => Len(output) = output_bytes

(* The sponge starts empty. *)
LEMMA SpongeInit ==
  ASSUME Sponge!ConstantsAssumption
  PROVE  Sponge!Init => SpongeInv
<1> SUFFICES ASSUME Sponge!Init PROVE SpongeInv
  OBVIOUS
<1> QED
  BY DEF Sponge!ConstantsAssumption, Sponge!Init, SpongeInv

(* Absorbing keeps the invariant of the sponge. *)
LEMMA AbsorbKeeps ==
  ASSUME Sponge!ConstantsAssumption, SpongeInv, Sponge!Absorb
  PROVE  SpongeInv'
<1> DEFINE chunk == [i \in 0 .. rate - 1 |-> input[input_offset + i + 1]]
           n == Len(absorbed)
<1>1. /\ sponge_pc = "absorb" /\ Len(input) - input_offset >= rate
      /\ absorbed' = Append(absorbed, chunk) /\ input_offset' = input_offset + rate
      /\ UNCHANGED <<rate, input, suffix, output_bytes, sponge_pc, squeezes, output>>
  BY DEF Sponge!Absorb, Sponge!WholeBlockLeft, Sponge!args
<1>2. /\ input \in Seq(Sponge!Byte) /\ Len(input) \in Nat /\ rate \in Nat \ {0}
      /\ absorbed \in Seq(Block) /\ n \in Nat /\ input_offset = rate * n
      /\ input_offset \in Nat /\ input_offset <= Len(input)
      /\ output = <<>> /\ squeezes = 0
  BY <1>1 DEF SpongeInv, Sponge!ConstantsAssumption, Sponge!Byte, WholeBlocks
<1>3. chunk \in Block
  <2> SUFFICES ASSUME NEW i \in 0 .. rate - 1 PROVE input[input_offset + i + 1] \in Sponge!Byte
    BY DEF Block
  <2>1. input_offset + i + 1 \in 1 .. Len(input)
    BY <1>1, <1>2
  <2> QED
    BY <1>2, <2>1, ElementOfSeq
<1> HIDE DEF chunk
<1>4. /\ absorbed' \in Seq(Block) /\ Len(absorbed') = n + 1
      /\ \A b \in 1 .. n : absorbed'[b] = absorbed[b]
      /\ absorbed'[n + 1] = chunk
  BY <1>1, <1>2, <1>3
<1>5. Block' = Block
  BY <1>1 DEF Block
<1>6. rate * (n + 1) = rate * n + rate
  BY <1>2
<1>7. ASSUME NEW b \in 1 .. n + 1, NEW i \in 0 .. rate - 1
      PROVE  absorbed'[b][i] = input[rate * (b - 1) + i + 1]
  <2>1. CASE b = n + 1
    <3>1. rate * (b - 1) = input_offset
      BY <1>2, <2>1
    <3>2. chunk[i] = input[input_offset + i + 1]
      BY DEF chunk
    <3> QED
      BY <1>4, <2>1, <3>1, <3>2
  <2>2. CASE b # n + 1
    <3>1. b \in 1 .. n
      BY <1>2, <2>2
    <3> QED
      BY <1>1, <1>4, <3>1 DEF SpongeInv, WholeBlocks
  <2> QED
    BY <2>1, <2>2
<1>8. WholeBlocks(Len(absorbed))'
  <2>1. input_offset' = rate' * (n + 1) /\ input_offset' <= Len(input')
    BY <1>1, <1>2, <1>6
  <2>2. \A b \in 1 .. n + 1 : \A i \in 0 .. rate' - 1 :
          absorbed'[b][i] = input'[rate' * (b - 1) + i + 1]
    BY <1>1, <1>7
  <2>3. Len(absorbed)' = n + 1
    BY <1>4
  <2> HIDE DEF n
  <2> QED
    BY <2>1, <2>2, <2>3 DEF WholeBlocks
<1>9. output' \in Seq(OutputByte')
  BY <1>1, <1>2
<1> QED
  BY <1>1, <1>2, <1>4, <1>5, <1>8, <1>9 DEF SpongeInv

(* Padding keeps it. *)
LEMMA PadKeeps ==
  ASSUME Sponge!ConstantsAssumption, SpongeInv, Sponge!Pad
  PROVE  SpongeInv'
<1> DEFINE n == Len(absorbed)
           last == Sponge!PaddedLastBlock
<1>1. /\ sponge_pc = "absorb" /\ ~(Len(input) - input_offset >= rate)
      /\ absorbed' = Append(absorbed, last) /\ sponge_pc' = "squeeze"
      /\ UNCHANGED <<rate, input, suffix, output_bytes, input_offset, squeezes, output>>
  BY DEF Sponge!Pad, Sponge!WholeBlockLeft, Sponge!args
<1>2. /\ input \in Seq(Sponge!Byte) /\ Len(input) \in Nat /\ rate \in Nat \ {0}
      /\ absorbed \in Seq(Block) /\ n \in Nat /\ input_offset = rate * n
      /\ input_offset \in Nat /\ input_offset <= Len(input)
      /\ output = <<>> /\ squeezes = 0 /\ suffix \in Sponge!Byte
  BY <1>1 DEF SpongeInv, Sponge!ConstantsAssumption, Sponge!Byte, Sponge!TopBit, WholeBlocks
<1>3. Sponge!Rest \in Block
  <2> SUFFICES ASSUME NEW i \in 0 .. rate - 1, i < Len(input) - input_offset
               PROVE  input[input_offset + i + 1] \in Sponge!Byte
    BY DEF Block, Sponge!Rest, Sponge!Remaining, Sponge!Byte
  <2>1. input_offset + i + 1 \in 1 .. Len(input)
    BY <1>1, <1>2
  <2> QED
    BY <1>2, <2>1, ElementOfSeq
<1>4. last \in Block
  <2> DEFINE suffixed == [Sponge!Rest EXCEPT ![Sponge!Remaining] = Sponge!Xor(@, suffix)]
  <2>1. Sponge!Remaining \in 0 .. rate - 1
    BY <1>1, <1>2 DEF Sponge!Remaining
  <2>2. \A x, y \in Sponge!Byte : Sponge!Xor(x, y) \in Sponge!Byte
    BY DEF Sponge!Xor, Sponge!Byte
  <2>3. {Sponge!TopBit} \in Sponge!Byte
    BY DEF Sponge!TopBit, Sponge!Byte
  <2>4. suffixed \in Block
    BY <1>2, <1>3, <2>1, <2>2 DEF Block
  <2> HIDE DEF suffixed
  <2>5. last = [suffixed EXCEPT ![rate - 1] = Sponge!Xor(@, {Sponge!TopBit})]
    BY DEF Sponge!PaddedLastBlock, suffixed
  <2> QED
    BY <1>2, <2>2, <2>3, <2>4, <2>5 DEF Block
<1>5. last' = last
  BY <1>1 DEF Sponge!PaddedLastBlock, Sponge!Rest, Sponge!Remaining
<1> HIDE DEF last
<1>6. /\ absorbed' \in Seq(Block) /\ Len(absorbed') = n + 1
      /\ \A b \in 1 .. n : absorbed'[b] = absorbed[b]
      /\ absorbed'[n + 1] = last
  BY <1>1, <1>2, <1>4
<1>7. Block' = Block
  BY <1>1 DEF Block
<1>8. WholeBlocks(Len(absorbed) - 1)'
  <2>1. (Len(absorbed) - 1)' = n
    BY <1>2, <1>6
  <2>2. WholeBlocks(n)
    BY <1>1 DEF SpongeInv
  <2> QED
    BY <1>1, <1>2, <1>6, <2>1, <2>2 DEF WholeBlocks
<1>9. output' = <<>> /\ Len(output') = 0 /\ output' \in Seq(OutputByte')
  BY <1>1, <1>2
<1>10. OutputInPlace'
  BY <1>9 DEF OutputInPlace
<1>11. absorbed'[Len(absorbed')] = last'
  BY <1>5, <1>6
<1>12. output_bytes \in Nat /\ squeezes' = 0 /\ rate * 0 = 0
  BY <1>1, <1>2 DEF SpongeInv
<1> QED
  BY <1>1, <1>2, <1>6, <1>7, <1>8, <1>9, <1>10, <1>11, <1>12 DEF SpongeInv, last

(* Squeezing keeps it. *)
LEMMA SqueezeKeeps ==
  ASSUME SpongeInv, Sponge!Squeeze
  PROVE  SpongeInv'
<1> DEFINE m == Len(output)
           take == Sponge!Take
           taken == [i \in 1 .. take |->
                       [blocks |-> absorbed, squeeze |-> squeezes, position |-> i - 1]]
<1>1. /\ sponge_pc = "squeeze" /\ m < output_bytes /\ output' = output \o taken
      /\ squeezes' = IF Len(output') < output_bytes THEN squeezes + 1 ELSE squeezes
      /\ UNCHANGED <<rate, input, suffix, output_bytes, sponge_pc, input_offset, absorbed>>
  BY DEF Sponge!Squeeze, Sponge!args
<1>2. /\ rate \in Nat \ {0} /\ output_bytes \in Nat /\ output \in Seq(OutputByte) /\ m \in Nat
      /\ squeezes \in Nat /\ m = rate * squeezes /\ OutputInPlace /\ absorbed \in Seq(Block)
  BY <1>1 DEF SpongeInv
<1>3. take \in 1 .. rate /\ m + take <= output_bytes
      /\ (m + take < output_bytes => take = rate)
  BY <1>1, <1>2 DEF Sponge!Take
<1> HIDE DEF take
<1>4. taken \in Seq(OutputByte) /\ Len(taken) = take
  BY <1>2, <1>3 DEF OutputByte
<1>5. \A i \in 1 .. take :
        /\ taken[i].blocks = absorbed /\ taken[i].squeeze = squeezes
        /\ taken[i].position = i - 1
  BY <1>3
<1> HIDE DEF taken
<1>6. /\ output' \in Seq(OutputByte) /\ Len(output') = m + take
      /\ \A i \in 1 .. m : output'[i] = output[i]
      /\ \A i \in m + 1 .. m + take : output'[i] = taken[i - m]
  <2>1. /\ output' = output \o taken /\ output \in Seq(OutputByte) /\ taken \in Seq(OutputByte)
        /\ Len(output) = m /\ Len(taken) = take /\ m \in Nat /\ take \in Nat
    BY <1>1, <1>2, <1>3, <1>4
  <2> HIDE DEF m
  <2>2. output' \in Seq(OutputByte) /\ Len(output') = m + take
    BY <2>1, ConcatProperties
  <2>3. \A i \in 1 .. m + take : output'[i] = IF i <= m THEN output[i] ELSE taken[i - m]
    BY <2>1, ConcatProperties
  <2> QED
    BY <2>1, <2>2, <2>3
<1>7. ASSUME NEW i \in 1 .. m + take
      PROVE  /\ output'[i].blocks = absorbed
             /\ output'[i].squeeze = (i - 1) \div rate
             /\ output'[i].position = (i - 1) % rate
  <2>1. CASE i <= m
    <3>1. i \in 1 .. m
      BY <1>2, <1>3, <2>1
    <3> QED
      BY <1>2, <1>6, <3>1 DEF OutputInPlace
  <2>2. CASE i > m
    <3>1. i \in m + 1 .. m + take /\ i - m \in 1 .. take
      BY <1>2, <1>3, <2>2
    <3>2. i - 1 \in Int /\ i - m - 1 \in 0 .. rate - 1
          /\ i - 1 = rate * squeezes + (i - m - 1)
      BY <1>2, <1>3, <3>1
    <3> DEFINE a == i - 1
               r == i - m - 1
    <3>3. a \div rate = squeezes /\ a % rate = r
      <4>1. /\ a \in Int /\ r \in 0 .. rate - 1 /\ a = rate * squeezes + r
            /\ rate \in Nat \ {0} /\ squeezes \in Int
        BY <1>2, <3>2
      <4> HIDE DEF a, r
      <4> QED
        BY <4>1, QuotientIsUnique
    <3>4. output'[i] = taken[i - m]
      BY <1>6, <3>1
    <3> QED
      BY <1>5, <3>1, <3>3, <3>4
  <2> QED
    BY <1>2, <1>3, <2>1, <2>2
<1>8. OutputInPlace'
  BY <1>1, <1>6, <1>7 DEF OutputInPlace
<1>9. Len(output') < output_bytes => Len(output') = rate * squeezes'
  <2>1. rate * (squeezes + 1) = rate * squeezes + rate
    BY <1>2
  <2> QED
    BY <1>1, <1>2, <1>3, <1>6, <2>1
<1>10. Block' = Block /\ OutputByte' = OutputByte
  BY <1>1 DEF Block, OutputByte
<1>11. (Sponge!PaddedLastBlock)' = Sponge!PaddedLastBlock
  BY <1>1 DEF Sponge!PaddedLastBlock, Sponge!Rest, Sponge!Remaining
<1>12. WholeBlocks(Len(absorbed) - 1)'
  BY <1>1 DEF SpongeInv, WholeBlocks
<1>13. squeezes' \in Nat /\ Len(output') <= output_bytes
  BY <1>1, <1>2, <1>3, <1>6
<1> QED
  BY <1>1, <1>2, <1>6, <1>8, <1>9, <1>10, <1>11, <1>12, <1>13 DEF SpongeInv

(* Whatever the step, the blocks stay those of the input and the output in place. *)
LEMMA SpongeStep ==
  ASSUME Sponge!ConstantsAssumption, SpongeInv, [Sponge!Next]_Sponge!vars
  PROVE  SpongeInv'
<1>1. CASE Sponge!Start
  <2>1. /\ sponge_pc = "start"
        /\ sponge_pc' = IF Sponge!ValidRate THEN "absorb" ELSE "invalid_argument"
        /\ UNCHANGED <<rate, input, suffix, output_bytes, input_offset, absorbed, squeezes, output>>
    BY <1>1 DEF Sponge!Start, Sponge!args
  <2>2. /\ input \in Seq(Sponge!Byte) /\ rate \in Nat /\ input_offset = 0
        /\ absorbed = <<>> /\ output = <<>> /\ squeezes = 0 /\ output_bytes \in Nat
    BY <2>1 DEF SpongeInv, Sponge!ConstantsAssumption, Sponge!Byte
  <2>3. CASE Sponge!ValidRate
    <3>1. rate # 0 /\ sponge_pc' = "absorb"
      BY <2>1, <2>3 DEF Sponge!ValidRate
    <3>2. absorbed' \in Seq(Block') /\ output' \in Seq(OutputByte') /\ Len(absorbed') = 0
      BY <2>1, <2>2
    <3>3. rate * 0 = 0 /\ Len(input) \in Nat
      BY <2>2
    <3>4. WholeBlocks(Len(absorbed))'
      BY <2>1, <2>2, <3>2, <3>3 DEF WholeBlocks
    <3> QED
      BY <2>1, <2>2, <3>1, <3>2, <3>4 DEF SpongeInv
  <2>4. CASE ~Sponge!ValidRate
    BY <2>1, <2>2, <2>4 DEF SpongeInv
  <2> QED
    BY <2>3, <2>4
<1>2. CASE Sponge!Absorb
  BY <1>2, AbsorbKeeps
<1>3. CASE Sponge!Pad
  BY <1>3, PadKeeps
<1>4. CASE Sponge!Squeeze
  BY <1>4, SqueezeKeeps
<1>5. ASSUME UNCHANGED <<rate, input, suffix, output_bytes, input_offset, absorbed,
                         squeezes, output>>
      PROVE  /\ Block' = Block /\ OutputByte' = OutputByte
             /\ (Sponge!PaddedLastBlock)' = Sponge!PaddedLastBlock
             /\ WholeBlocks(Len(absorbed))' = WholeBlocks(Len(absorbed))
             /\ WholeBlocks(Len(absorbed) - 1)' = WholeBlocks(Len(absorbed) - 1)
             /\ OutputInPlace' = OutputInPlace
  BY <1>5 DEF Block, OutputByte, Sponge!PaddedLastBlock, Sponge!Rest, Sponge!Remaining,
              WholeBlocks, OutputInPlace
<1>6. CASE Sponge!Return
  <2>1. /\ sponge_pc = "squeeze" /\ Len(output) >= output_bytes /\ sponge_pc' = "done"
        /\ UNCHANGED <<rate, input, suffix, output_bytes, input_offset, absorbed, squeezes,
                       output>>
    BY <1>6 DEF Sponge!Return, Sponge!args
  <2>2. Len(output) = output_bytes
    BY <2>1 DEF SpongeInv
  <2> QED
    BY <1>5, <2>1, <2>2 DEF SpongeInv
<1>7. CASE UNCHANGED Sponge!vars
  <2>1. UNCHANGED <<rate, input, suffix, output_bytes, sponge_pc, input_offset, absorbed,
                    squeezes, output>>
    BY <1>7 DEF Sponge!vars
  <2> QED
    BY <1>5, <2>1 DEF SpongeInv
<1> QED
  BY <1>1, <1>2, <1>3, <1>4, <1>6, <1>7 DEF Sponge!Next

(* The invariant of the sponge. *)
LEMMA SpongeInductive ==
  ASSUME Sponge!ConstantsAssumption
  PROVE  Sponge!Spec => []SpongeInv
<1>1. Sponge!Init => SpongeInv
  BY SpongeInit
<1>2. SpongeInv /\ [Sponge!Next]_Sponge!vars => SpongeInv'
  BY SpongeStep
<1> QED
  BY <1>1, <1>2, PTL DEF Sponge!Spec

(* What is read back of the blocks: the message, the suffix, nothing. *)
LEMMA BlocksReadBack ==
  ASSUME Sponge!ConstantsAssumption, SpongeInv, sponge_pc = "done"
  PROVE  /\ Len(Sponge!Flat) = rate * Len(absorbed) /\ Len(input) < Len(Sponge!Flat)
         /\ \A k \in 1 .. Len(Sponge!Flat) :
              Sponge!Flat[k] = IF k <= Len(input) THEN input[k]
                               ELSE IF k = Len(input) + 1 THEN suffix ELSE {}
<1> DEFINE n == Len(absorbed)
           last == Sponge!PaddedLastBlock
           left == Len(input) - input_offset
<1>1. /\ rate \in Nat \ {0} /\ n \in Nat \ {0} /\ input_offset = rate * (n - 1)
      /\ input_offset <= Len(input) /\ left < rate /\ Len(input) \in Nat
      /\ absorbed[n] = last /\ input \in Seq(Sponge!Byte) /\ suffix \in Sponge!Byte
      /\ absorbed \in Seq(Block) /\ input_offset \in Nat
  BY DEF SpongeInv, Sponge!ConstantsAssumption, WholeBlocks, Sponge!Byte, Sponge!TopBit
<1>2. rate * n = input_offset + rate /\ rate * n \in Nat
  BY <1>1
<1>3. left \in 0 .. rate - 1
  BY <1>1
<1> DEFINE suffixed == [Sponge!Rest EXCEPT ![Sponge!Remaining] = Sponge!Xor(@, suffix)]
<1>4. \A i \in 0 .. rate - 1 :
        suffixed[i] = IF i < left THEN input[input_offset + i + 1]
                      ELSE IF i = left THEN suffix ELSE {}
  <2>1. DOMAIN Sponge!Rest = 0 .. rate - 1
        /\ \A i \in 0 .. rate - 1 :
              Sponge!Rest[i] = IF i < left THEN input[input_offset + i + 1] ELSE {}
    BY DEF Sponge!Rest, Sponge!Remaining
  <2>2. Sponge!Xor({}, suffix) = suffix
    BY DEF Sponge!Xor
  <2>3. Sponge!Remaining = left
    BY DEF Sponge!Remaining
  <2> DEFINE rest == Sponge!Rest
  <2> HIDE DEF left, rest
  <2>4. suffixed = [rest EXCEPT ![left] = Sponge!Xor(rest[left], suffix)]
    BY <2>3 DEF rest
  <2> HIDE DEF suffixed
  <2>5. rest[left] = {}
    BY <1>1, <1>3, <2>1 DEF rest
  <2>6. \A i \in 0 .. rate - 1 : suffixed[i] = IF i = left THEN suffix ELSE rest[i]
    BY <1>3, <2>1, <2>2, <2>4, <2>5 DEF rest
  <2> SUFFICES ASSUME NEW i \in 0 .. rate - 1
               PROVE  suffixed[i] = IF i < left THEN input[input_offset + i + 1]
                                    ELSE IF i = left THEN suffix ELSE {}
    OBVIOUS
  <2>7. rest[i] = IF i < left THEN input[input_offset + i + 1] ELSE {}
    BY <2>1 DEF rest
  <2> QED
    BY <1>3, <2>6, <2>7
<1>5. DOMAIN suffixed = 0 .. rate - 1
  BY DEF Sponge!Rest
<1>6. last = [suffixed EXCEPT ![rate - 1] = Sponge!Xor(@, {Sponge!TopBit})]
  BY DEF Sponge!PaddedLastBlock
<1> HIDE DEF suffixed, last
<1>7. \A i \in 0 .. rate - 1 :
        last[i] = IF i = rate - 1 THEN Sponge!Xor(suffixed[i], {Sponge!TopBit}) ELSE suffixed[i]
  BY <1>5, <1>6
<1>8. \A x : Sponge!Xor(Sponge!Xor(x, {Sponge!TopBit}), {Sponge!TopBit}) = x
  BY DEF Sponge!Xor
<1>9. Len(Sponge!Flat) = rate * n
      /\ \A k \in 1 .. rate * n :
           Sponge!Flat[k] =
             IF k = rate * n
             THEN Sponge!Xor(absorbed[((k - 1) \div rate) + 1][(k - 1) % rate], {Sponge!TopBit})
             ELSE absorbed[((k - 1) \div rate) + 1][(k - 1) % rate]
  <2>1. Len(absorbed) * rate = rate * n
    BY <1>1
  <2> DEFINE length == rate * n
  <2>2. length \in Nat /\ Len(absorbed) * rate = length
    BY <1>2, <2>1
  <2> HIDE DEF length
  <2>3. Len(Sponge!Flat) = length
        /\ \A k \in 1 .. length :
           Sponge!Flat[k] =
             IF k = length
             THEN Sponge!Xor(absorbed[((k - 1) \div rate) + 1][(k - 1) % rate], {Sponge!TopBit})
             ELSE absorbed[((k - 1) \div rate) + 1][(k - 1) % rate]
    BY <2>2 DEF Sponge!Flat
  <2> QED
    BY <2>3 DEF length
<1>10. ASSUME NEW k \in 1 .. rate * n
       PROVE  Sponge!Flat[k] = IF k <= Len(input) THEN input[k]
                               ELSE IF k = Len(input) + 1 THEN suffix ELSE {}
  <2> DEFINE a == k - 1
             d == a \div rate
             m == a % rate
  <2>1. a \in Int /\ a >= 0 /\ a < rate * n
    BY <1>2
  <2>2. d \in Int /\ m \in 0 .. rate - 1 /\ a = rate * d + m
    <3> HIDE DEF a
    <3> QED
      BY <1>1, <2>1, DivisionFacts
  <2>3. Sponge!Flat[k] = IF k = rate * n THEN Sponge!Xor(absorbed[d + 1][m], {Sponge!TopBit})
                         ELSE absorbed[d + 1][m]
    BY <1>9
  <2> HIDE DEF d, m
  <2>4. d >= 0 /\ d <= n - 1
    <3>1. d <= -1 => rate * d <= -rate
      BY <1>1, <2>2
    <3>2. d >= n => rate * d >= rate * n
      BY <1>1, <2>2, SMTT(40)
    <3> HIDE DEF a
    <3> QED
      BY <1>1, <1>2, <2>1, <2>2, <3>1, <3>2, SMTT(40)
  <2>5. CASE d < n - 1
    <3>1. rate * d + rate <= input_offset
      <4>1. d + 1 <= n - 1
        BY <1>1, <2>2, <2>5
      <4>2. rate * (d + 1) <= rate * (n - 1)
        BY <1>1, <2>2, <4>1
      <4>3. rate * (d + 1) = rate * d + rate
        BY <1>1, <2>2
      <4> QED
        BY <1>1, <4>2, <4>3
    <3>2. k <= input_offset /\ k # rate * n /\ k <= Len(input)
      BY <1>1, <1>2, <2>2, <3>1
    <3>3. d + 1 \in 1 .. n - 1 /\ (d + 1) - 1 = d
      BY <1>1, <2>2, <2>4, <2>5
    <3>4. absorbed[d + 1][m] = input[rate * d + m + 1]
      BY <1>1, <2>2, <3>3 DEF SpongeInv, WholeBlocks
    <3>5. rate * d + m + 1 = k
      BY <1>1, <2>2
    <3> QED
      BY <2>3, <3>2, <3>4, <3>5
  <2>6. CASE d = n - 1
    <3>1. k = input_offset + m + 1
      BY <1>1, <2>2, <2>6
    <3>2. k = rate * n <=> m = rate - 1
      BY <1>1, <1>2, <2>2, <3>1
    <3>3. absorbed[d + 1] = last
      BY <1>1, <2>6
    <3>4. Sponge!Flat[k] = suffixed[m]
      BY <1>7, <1>8, <2>2, <2>3, <3>2, <3>3
    <3>5. m \in Int /\ input_offset \in Int /\ Len(input) \in Int /\ k \in Int
      BY <1>1, <1>2, <2>2
    <3>6. (m < left <=> k <= Len(input)) /\ (m = left <=> k = Len(input) + 1)
      BY <3>1, <3>5
    <3> HIDE DEF left
    <3>7. suffixed[m] = IF m < left THEN input[input_offset + m + 1]
                        ELSE IF m = left THEN suffix ELSE {}
      BY <1>4, <2>2
    <3>8. input_offset + m + 1 = k
      BY <3>1
    <3> QED
      BY <3>4, <3>6, <3>7, <3>8
  <2> QED
    BY <1>1, <2>2, <2>4, <2>5, <2>6
<1>11. Len(input) < rate * n
  BY <1>1, <1>2
<1> QED
  BY <1>9, <1>10, <1>11

(* The absorbed blocks spell the message, the suffix and nothing else, also when
   the suffix and the final bit fall on one byte of keccak_sponge's block. *)
THEOREM KeccakPaddingIsReversible ==
  ASSUME Sponge!ConstantsAssumption
  PROVE  Sponge!Spec => []PaddingIsReversible
<1>1. ASSUME SpongeInv PROVE PaddingIsReversible
  <2>1. SUFFICES ASSUME sponge_pc = "done"
                 PROVE  \E last \in DOMAIN Sponge!Flat :
                          /\ Sponge!Flat[last] = suffix
                          /\ \A k \in last + 1 .. Len(Sponge!Flat) : Sponge!Flat[k] = {}
                          /\ SubSeq(Sponge!Flat, 1, last - 1) = input
    BY DEF PaddingIsReversible, Sponge!PaddingIsReversible
  <2> DEFINE flat == Sponge!Flat
             last == Len(input) + 1
  <2>2. /\ input \in Seq(Sponge!Byte) /\ Len(input) \in Nat
        /\ rate \in Nat /\ Len(absorbed) \in Nat
    BY <1>1, <2>1 DEF SpongeInv, Sponge!ConstantsAssumption, Sponge!Byte
  <2>3. /\ Len(flat) \in Nat /\ Len(input) < Len(flat)
        /\ \A k \in 1 .. Len(flat) : flat[k] = IF k <= Len(input) THEN input[k]
                                             ELSE IF k = last THEN suffix ELSE {}
    BY <1>1, <2>1, <2>2, BlocksReadBack
  <2>4. DOMAIN flat = 1 .. Len(flat)
    <3>1. DOMAIN flat = 1 .. Len(absorbed) * rate
      BY DEF Sponge!Flat
    <3>2. Len(absorbed) * rate \in Nat
      BY <2>2
    <3> QED
      BY <3>1, <3>2 DEF Sponge!Flat
  <2>5. flat = [k \in 1 .. Len(flat) |-> flat[k]]
    BY <2>4 DEF Sponge!Flat
  <2> HIDE DEF flat
  <2>6. last \in 1 .. Len(flat) /\ flat[last] = suffix /\ last - 1 = Len(input)
    BY <2>2, <2>3
  <2>7. \A k \in last + 1 .. Len(flat) : flat[k] = {}
    BY <2>2, <2>3
  <2>8. SubSeq(flat, 1, Len(input)) = input
    <3>1. \A k \in 1 .. Len(input) : flat[k] = input[k]
      BY <2>2, <2>3
    <3>2. input = [k \in 1 .. Len(input) |-> input[k]]
      BY <2>2
    <3>3. SubSeq(flat, 1, Len(input)) = [k \in 1 .. Len(input) |-> flat[k]]
      BY <2>2
    <3> QED
      BY <3>1, <3>2, <3>3
  <2> HIDE DEF last
  <2>9. \E l \in DOMAIN flat :
          /\ flat[l] = suffix /\ \A k \in l + 1 .. Len(flat) : flat[k] = {}
          /\ SubSeq(flat, 1, l - 1) = input
    BY <2>4, <2>6, <2>7, <2>8
  <2> QED
    BY <2>9 DEF flat
<1> QED
  BY <1>1, SpongeInductive, PTL

(* What the blocks spell is unambiguous: a string of bytes ends in at most one
   suffix, which is not empty, so that PaddingIsReversible leaves one message. *)
Spells(flat, message, byte) ==
  \E last \in DOMAIN flat :
    /\ flat[last] = byte /\ \A k \in last + 1 .. Len(flat) : flat[k] = {}
    /\ SubSeq(flat, 1, last - 1) = message

(* A padded sequence of blocks spells one message under one domain suffix only. *)
THEOREM KeccakPaddingIsUnambiguous ==
  ASSUME NEW S, NEW flat \in Seq(S), NEW m1, NEW s1, NEW m2, NEW s2,
         s1 # {}, s2 # {}, Spells(flat, m1, s1), Spells(flat, m2, s2)
  PROVE  m1 = m2 /\ s1 = s2
<1>1. PICK l1 \in DOMAIN flat :
        /\ flat[l1] = s1 /\ \A k \in l1 + 1 .. Len(flat) : flat[k] = {}
        /\ SubSeq(flat, 1, l1 - 1) = m1
  BY DEF Spells
<1>2. PICK l2 \in DOMAIN flat :
        /\ flat[l2] = s2 /\ \A k \in l2 + 1 .. Len(flat) : flat[k] = {}
        /\ SubSeq(flat, 1, l2 - 1) = m2
  BY DEF Spells
<1>3. l1 \in 1 .. Len(flat) /\ l2 \in 1 .. Len(flat) /\ Len(flat) \in Nat
  OBVIOUS
<1>4. ~(l1 < l2)
  <2>1. l1 < l2 => l2 \in l1 + 1 .. Len(flat)
    BY <1>3
  <2> QED
    BY <1>1, <1>2, <2>1
<1>5. ~(l2 < l1)
  <2>1. l2 < l1 => l1 \in l2 + 1 .. Len(flat)
    BY <1>3
  <2> QED
    BY <1>1, <1>2, <2>1
<1>6. l1 = l2
  BY <1>3, <1>4, <1>5
<1> QED
  BY <1>1, <1>2, <1>6

(* The output is read off fresh state bytes, in order, as many as asked for. *)
THEOREM KeccakOutputIsPrefix ==
  ASSUME Sponge!ConstantsAssumption
  PROVE  Sponge!Spec => []OutputIsPrefix
<1>1. ASSUME SpongeInv PROVE OutputIsPrefix
  <2>1. CASE sponge_pc \in {"squeeze", "done"}
    BY <1>1, <2>1 DEF SpongeInv, OutputInPlace, OutputIsPrefix, Sponge!OutputIsPrefix
  <2>2. CASE sponge_pc \notin {"squeeze", "done"}
    <3>1. output = <<>> /\ Len(output) = 0
      BY <1>1, <2>2 DEF SpongeInv
    <3> QED
      BY <2>2, <3>1 DEF OutputIsPrefix, Sponge!OutputIsPrefix
  <2> QED
    BY <2>1, <2>2
<1> QED
  BY <1>1, SpongeInductive, PTL
=============================================================================

---------------------------- MODULE SampleInBall ----------------------------
(***************************************************************************)
(* ML-DSA SampleInBall (cpp/include/pqcore/sampling.hpp,                   *)
(* ml_dsa_sample_in_ball_from_bytes): an inside-out shuffle that turns a   *)
(* byte stream into a challenge polynomial with exactly tau coefficients   *)
(* +1 or -1.  One step is one turn of the inner do/while loop: a byte is   *)
(* rejected, or accepted and placed.  Bytes are 0-based in the code; the   *)
(* sequence `bytes' is 1-based, so byte k of the code is bytes[k + 1].     *)
(***************************************************************************)
EXTENDS Integers, Sequences, FiniteSets

CONSTANTS
  N,          \* degree of the polynomial; 256 in the code
  Q,          \* modulus of MlDsaPolynomial; 8380417 in the code
  ByteBits,   \* bits of a byte; 8 in the code, where N = 2^ByteBits
  SignBytes,  \* leading bytes that hold the sign bits; 8 in the code
  MaxTau,     \* largest tau the function accepts; 64 in the code
  Taus,       \* the weights asked for
  Streams     \* the byte streams handed in

ASSUME SizesAssumption ==
  /\ N \in Nat \ {0} /\ Q \in Nat /\ Q > 2
  /\ ByteBits \in Nat \ {0} /\ SignBytes \in Nat
  /\ MaxTau \in Nat /\ MaxTau <= N /\ MaxTau <= ByteBits * SignBytes

ASSUME InputsAssumption ==
  /\ Taus \subseteq Nat
  /\ Streams \subseteq Seq(0 .. N - 1)

VARIABLES
  tau, bytes,     \* the arguments, never modified
  pc,             \* where the call is
  coefficients,   \* the working array of signed integers
  offset,         \* how many signs are placed
  byte_index,     \* next byte to read
  result          \* the returned polynomial, coefficients reduced modulo Q

vars == <<tau, bytes, pc, coefficients, offset, byte_index, result>>

Index == 0 .. N - 1
Zero  == [k \in Index |-> 0]

-----------------------------------------------------------------------------
(* Bit k of the first SignBytes bytes, least significant bit first. *)
BitOf(stream, k) ==
  (stream[(k \div ByteBits) + 1] \div 2^(k % ByteBits)) % 2

SignBitOfFirstByte(k) == BitOf(bytes, k % ByteBits)

SignBit(k) == BitOf(bytes, k)

Sign(bit) == IF bit = 0 THEN 1 ELSE -1

AcceptsBelow(i, j) == j < i

AcceptsAny(i, j) == j < N

Accepts(i, j) == j <= i

(* coefficients[i] = coefficients[j]; coefficients[j] = sign, in that order. *)
Place(c, i, j, s) ==
  LET moved == [c EXCEPT ![i] = c[j]] IN [moved EXCEPT ![j] = s]

(* The index filled next: i of the code. *)
Top == N - tau + offset

-----------------------------------------------------------------------------
Init ==
  /\ tau \in Taus /\ bytes \in Streams
  /\ pc = "start" /\ coefficients = Zero /\ offset = 0 /\ byte_index = 0
  /\ result = Zero

(* The two argument checks; the sign bytes are skipped by byte_index = 8. *)
Start ==
  /\ pc = "start"
  /\ tau <= MaxTau /\ Len(bytes) >= SignBytes
  /\ pc' = "picking" /\ byte_index' = SignBytes
  /\ UNCHANGED <<tau, bytes, coefficients, offset, result>>

BadArgument ==
  /\ pc = "start"
  /\ tau > MaxTau \/ Len(bytes) < SignBytes
  /\ pc' = "invalid_argument"
  /\ UNCHANGED <<tau, bytes, coefficients, offset, byte_index, result>>

OutOfBytesEarly(index) == index + 1 >= Len(bytes)

OutOfBytes(index) == index >= Len(bytes)

Exhausted ==
  /\ pc = "picking" /\ offset < tau
  /\ OutOfBytes(byte_index)
  /\ pc' = "exhausted"
  /\ UNCHANGED <<tau, bytes, coefficients, offset, byte_index, result>>

RejectByte ==
  /\ pc = "picking" /\ offset < tau /\ ~OutOfBytes(byte_index)
  /\ ~Accepts(Top, bytes[byte_index + 1])
  /\ byte_index' = byte_index + 1
  /\ UNCHANGED <<tau, bytes, pc, coefficients, offset, result>>

AcceptByte ==
  /\ pc = "picking" /\ offset < tau /\ ~OutOfBytes(byte_index)
  /\ LET j == bytes[byte_index + 1] IN
       /\ Accepts(Top, j)
       /\ coefficients' = Place(coefficients, Top, j, Sign(SignBit(offset)))
  /\ byte_index' = byte_index + 1 /\ offset' = offset + 1
  /\ UNCHANGED <<tau, bytes, pc, result>>

(* return MlDsaPolynomial{coefficients}: every entry is reduced modulo Q. *)
Reduced(c) == [k \in Index |-> c[k] % Q]

Return ==
  /\ pc = "picking" /\ offset = tau
  /\ pc' = "done"
  /\ result' = Reduced(coefficients)
  /\ UNCHANGED <<tau, bytes, coefficients, offset, byte_index>>

Next ==
  \/ Start \/ BadArgument \/ Exhausted \/ RejectByte \/ AcceptByte \/ Return

Spec == Init /\ [][Next]_vars

-----------------------------------------------------------------------------
Support(c) == {k \in DOMAIN c : c[k] # 0}

(* Types of the call's locals, which include that no index leaves its array:
   byte_index stays within the stream and offset within tau. *)
TypeOK ==
  /\ tau \in Taus /\ bytes \in Streams
  /\ pc \in {"start", "picking", "done", "exhausted", "invalid_argument"}
  /\ coefficients \in [Index -> {-1, 0, 1}]
  /\ offset \in Nat /\ offset <= tau
  /\ byte_index \in 0 .. Len(bytes)
  /\ result \in [Index -> {0, 1, Q - 1}]

(* Whatever bytes are drawn and rejected, the working array holds exactly
   `offset' nonzero coefficients, all below the index filled next, so that the
   move coefficients[i] = coefficients[j] never overwrites a placed sign. *)
PlacedBelowTop ==
  /\ Cardinality(Support(coefficients)) = offset
  /\ pc = "picking" => \A k \in Support(coefficients) : k < Top

(* The returned challenge has exactly tau nonzero coefficients, each 1 or
   Q - 1: the weight the ML-DSA security argument and c * s bounds rely on. *)
ChallengeWeight ==
  pc = "done" => Cardinality(Support(result)) = tau

(* The returned signs are those of the sign bits, none lost and none counted
   twice when a placed sign is moved: one Q - 1 for every sign bit set. *)
SignsFollowBits ==
  pc = "done" =>
    Cardinality({k \in Index : result[k] = Q - 1})
      = Cardinality({k \in 0 .. tau - 1 : BitOf(bytes, k) = 1})

(* The call gives up only on a stream with fewer than tau bytes that every
   turn of the loop would accept (those of value at most N - tau). *)
ExhaustedOnlyWhenShort ==
  pc = "exhausted" =>
    Cardinality({k \in SignBytes + 1 .. Len(bytes) : bytes[k] <= N - tau}) < tau

(* The array left by the accepted indices p and the sign bits b alone. *)
Filled(t, p, b) ==
  LET after[k \in 0 .. t] ==
        IF k = 0 THEN Zero
        ELSE Place(after[k - 1], N - t + k - 1, p[k - 1], Sign(b[k - 1]))
  IN  after[t]

Picks(t) == {p \in [0 .. t - 1 -> Index] : \A k \in 0 .. t - 1 : Accepts(N - t + k, p[k])}
Outcomes ==
  [t \in Taus |->
     IF t > N THEN <<>>
     ELSE [pb \in Picks(t) \X [0 .. t - 1 -> {0, 1}] |-> Filled(t, pb[1], pb[2])]]

Factorial[n \in Nat] == IF n = 0 THEN 1 ELSE n * Factorial[n - 1]

(* No challenge is likelier than another: every result is produced by exactly
   tau! of the equally likely choices of accepted indices and sign bits, which
   by counting also makes every vector of weight tau a possible result. *)
UniformChallenge ==
  pc = "done" =>
    Cardinality({pb \in DOMAIN Outcomes[tau] : Outcomes[tau][pb] = coefficients})
      = Factorial[tau]

=============================================================================

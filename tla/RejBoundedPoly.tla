--------------------------- MODULE RejBoundedPoly ---------------------------
(***************************************************************************)
(* ML-DSA RejBoundedPoly (cpp/include/pqcore/sampling.hpp,                 *)
(* ml_dsa_rej_bounded_poly_from_bytes): each byte gives two half-byte      *)
(* candidates, the lower one first, mapped to -eta..eta or rejected.  One  *)
(* step is one of the two if statements of the loop body, with the return  *)
(* it may make.  The working array keeps its signed values; the returned   *)
(* polynomial stores them modulo q.                                        *)
(***************************************************************************)
EXTENDS Integers, Sequences, FiniteSets

CONSTANTS
  N,        \* coefficients of the polynomial; 256 in the code
  Etas,     \* the bounds asked for; the code accepts 2 and 4
  Streams   \* the byte streams handed in

(* What the constants have to be. *)
ConstantsAssumption ==
  /\ N \in Nat \ {0} /\ Etas \subseteq Nat
  /\ Streams \subseteq Seq(0 .. 255)

VARIABLES
  eta, bytes,     \* the arguments
  pc,             \* "start", "loop" or how the call ended
  position,       \* where the loop is: 2 * byte + 0 (lower if) or 1 (upper if)
  coefficients    \* the coefficients filled so far, in order

vars == <<eta, bytes, pc, position, coefficients>>

-----------------------------------------------------------------------------
(* ml_dsa_coeff_from_half_byte: the coefficient, and whether there is one.
   Its two exceptions cannot be raised from the loop, which masks the half
   byte and has checked eta. *)
AcceptedUpToNine(e, v) == (e = 2 /\ v < 15) \/ (e = 4 /\ v <= 9)

Accepted(e, v) == (e = 2 /\ v < 15) \/ (e = 4 /\ v < 9)

Coefficient(e, v) == IF e = 2 THEN 2 - (v % 5) ELSE 4 - v

LowerHalf(byte) == byte % 16
UpperHalf(byte) == byte \div 16

Init ==
  /\ eta \in Etas /\ bytes \in Streams
  /\ pc = "start" /\ position = 0 /\ coefficients = <<>>

CheckEta ==
  /\ pc = "start"
  /\ pc' = IF eta \in {2, 4} THEN "loop" ELSE "invalid_argument"
  /\ UNCHANGED <<eta, bytes, position, coefficients>>

Full(filled) == Len(filled) = N

(* One if statement: keep the candidate and return when the array is full. *)
Keep(v) ==
  /\ coefficients' = IF Accepted(eta, v)
                     THEN Append(coefficients, Coefficient(eta, v)) ELSE coefficients
  /\ pc' = IF Accepted(eta, v) /\ Full(coefficients') THEN "done" ELSE "loop"
  /\ position' = position + 1
  /\ UNCHANGED <<eta, bytes>>

CurrentByte == bytes[(position \div 2) + 1]

EndOfBytes == position \div 2 = Len(bytes)

LowerReadsUpper ==
  /\ pc = "loop" /\ position % 2 = 0 /\ ~EndOfBytes
  /\ Keep(UpperHalf(CurrentByte))

Lower ==
  /\ pc = "loop" /\ position % 2 = 0 /\ ~EndOfBytes
  /\ Keep(LowerHalf(CurrentByte))

Upper ==
  /\ pc = "loop" /\ position % 2 = 1
  /\ Keep(UpperHalf(CurrentByte))

Exhausted ==
  /\ pc = "loop" /\ position % 2 = 0 /\ EndOfBytes
  /\ pc' = "exhausted"
  /\ UNCHANGED <<eta, bytes, position, coefficients>>

Next == CheckEta \/ Lower \/ Upper \/ Exhausted

Spec == Init /\ [][Next]_vars

-----------------------------------------------------------------------------

(* The stream as half bytes, lower half first, and the coefficient of each. *)
Candidates ==
  [k \in 1 .. 2 * Len(bytes) |->
     LET byte == bytes[(k + 1) \div 2]
         v    == IF k % 2 = 1 THEN byte % 16 ELSE byte \div 16
     IN  [ok |-> Accepted(eta, v), value |-> Coefficient(eta, v)]]

Status == IF pc = "done" THEN "full" ELSE IF pc = "exhausted" THEN "short" ELSE "sampling"

Sampler == INSTANCE RejectionSampler WITH
  Needed <- N, candidates <- Candidates, taken <- position, output <- coefficients,
  status <- Status

(* The loop over bytes implements the rejection sampler over the stream's half
   bytes, lower before upper, and returns with the one that fills the array. *)
ImplementsSampler == Sampler!Spec

(* For either eta, the half bytes accepted give the values -eta .. eta and no
   other, each for equally many of them, so that a uniform stream gives a
   uniform secret vector. *)
EvenlySpread ==
  eta \in {2, 4} =>
    LET Images(c) == {v \in 0 .. 15 : Accepted(eta, v) /\ Coefficient(eta, v) = c}
    IN  /\ \A v \in 0 .. 15 : Accepted(eta, v) => Coefficient(eta, v) \in -eta .. eta
        /\ \A c \in -eta .. eta :
             Images(c) # {} /\ Cardinality(Images(c)) = Cardinality(Images(0))

=============================================================================

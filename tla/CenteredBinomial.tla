-------------------------- MODULE CenteredBinomial --------------------------
(***************************************************************************)
(* ML-KEM SamplePolyCBD (cpp/include/pqcore/sampling.hpp,                  *)
(* ml_kem_sample_poly_cbd): coefficient i is the number of ones among      *)
(* eta bits minus the number among the next eta bits.  The stream is       *)
(* modelled from bytes_to_bits on, as the sequence of its bits; one step   *)
(* fills one coefficient.                                                  *)
(***************************************************************************)
EXTENDS Field, FiniteSets

CONSTANTS
  N,      \* coefficients of the polynomial; 256 in the code
  Etas,   \* the parameters asked for; the code accepts 2 and 3
  BitLengths  \* the lengths, in bits, of the inputs handed in

(* What the constants have to be. *)
ConstantsAssumption ==
  N \in Nat \ {0} /\ Q \in Nat /\ Q > 6 /\ Etas \subseteq Nat /\ BitLengths \subseteq Nat

VARIABLES
  eta, bits,           \* the arguments
  pc,                  \* "start", "loop", "done" or "invalid_argument"
  coefficient_index,
  coefficients         \* the working array of signed integers

vars == <<eta, bits, pc, coefficient_index, coefficients>>

Index == 0 .. N - 1
Zero  == [i \in Index |-> 0]

(* Ones among the bits offset .. offset + count - 1 of a stream. *)
Ones(stream, offset, count) ==
  Cardinality({b \in offset .. offset + count - 1 : stream[b] = 1})

OverlappingHalf(stream, e, i) == Ones(stream, 2 * i * e, e) - Ones(stream, 2 * i * e + 1, e)

Coefficient(stream, e, i) ==
  Ones(stream, 2 * i * e, e) - Ones(stream, 2 * i * e + e, e)

Init ==
  /\ eta \in Etas
  /\ \E n \in BitLengths : bits \in [0 .. n - 1 -> {0, 1}]
  /\ pc = "start" /\ coefficient_index = 0 /\ coefficients = Zero

WellFormed == eta \in {2, 3} /\ Cardinality(DOMAIN bits) = 2 * eta * N

Start ==
  /\ pc = "start"
  /\ pc' = IF WellFormed THEN "loop" ELSE "invalid_argument"
  /\ UNCHANGED <<eta, bits, coefficient_index, coefficients>>

Fill ==
  /\ pc = "loop" /\ coefficient_index < N
  /\ coefficients' =
       [coefficients EXCEPT ![coefficient_index] = Coefficient(bits, eta, coefficient_index)]
  /\ coefficient_index' = coefficient_index + 1
  /\ UNCHANGED <<eta, bits, pc>>

(* MlKemPolynomial{coefficients}: every entry is reduced modulo Q. *)
Return ==
  /\ pc = "loop" /\ coefficient_index = N
  /\ coefficients' = [i \in Index |-> Normalize(coefficients[i])]
  /\ pc' = "done"
  /\ UNCHANGED <<eta, bits, coefficient_index>>

Next == Start \/ Fill \/ Return

Spec == Init /\ [][Next]_vars

-----------------------------------------------------------------------------
(* Every input bit is used exactly once: flipping it would change one
   coefficient, the one its position belongs to, by exactly one.  No noise bit
   is shared between coefficients, which keeps the noise independent. *)
EachBitCountsOnce ==
  pc = "done" =>
    \A b \in DOMAIN bits :
      LET flipped == [bits EXCEPT ![b] = 1 - @]
          change(i) == Coefficient(flipped, eta, i) - Centered(coefficients[i])
      IN  \A i \in Index : change(i) \in (IF i = b \div (2 * eta) THEN {-1, 1} ELSE {0})

=============================================================================

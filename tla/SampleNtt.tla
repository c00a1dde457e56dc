----------------------------- MODULE SampleNtt -----------------------------
(***************************************************************************)
(* ML-KEM SampleNTT (cpp/include/pqcore/sampling.hpp,                      *)
(* ml_kem_sample_ntt_from_bytes): three bytes give two candidates of three *)
(* nibbles each, kept when below q, until the polynomial is full.  One     *)
(* turn of the while loop is three steps here: reading the group, and the  *)
(* two if statements.                                                      *)
(***************************************************************************)
EXTENDS Integers, Sequences

CONSTANTS
  N,        \* coefficients of the polynomial; 256 in the code
  Q,        \* modulus; 3329 in the code
  Nibble,   \* values of a half byte; 16 in the code, a byte has Nibble^2
  Streams   \* the XOF outputs handed in; 3 * 1024 bytes in ml_kem_sample_ntt

Byte == 0 .. Nibble * Nibble - 1

(* What the constants have to be. *)
ConstantsAssumption ==
  /\ N \in Nat \ {0} /\ Q \in Nat \ {0} /\ Nibble \in Nat \ {0}
  /\ Streams \subseteq Seq(Byte)

VARIABLES
  bytes,          \* the argument
  pc,             \* "loop", "first", "second", "done" or "exhausted"
  byte_index,     \* next byte to read
  d1, d2,         \* the candidates of the current group
  coefficients    \* the coefficients filled so far, in order

vars == <<bytes, pc, byte_index, d1, d2, coefficients>>

-----------------------------------------------------------------------------
LowNibble(b)  == b % Nibble
HighNibble(b) == b \div Nibble

FirstCandidate(c0, c1)  == c0 + Nibble * Nibble * LowNibble(c1)
SecondCandidate(c1, c2) == HighNibble(c1) + Nibble * c2

Init ==
  /\ bytes \in Streams
  /\ pc = "loop" /\ byte_index = 0 /\ d1 = 0 /\ d2 = 0 /\ coefficients = <<>>

TooFew(index) == index + 3 > Len(bytes)

Exhausted ==
  /\ pc = "loop" /\ Len(coefficients) < N /\ TooFew(byte_index)
  /\ pc' = "exhausted"
  /\ UNCHANGED <<bytes, byte_index, d1, d2, coefficients>>

ReadGroup ==
  /\ pc = "loop" /\ Len(coefficients) < N /\ ~TooFew(byte_index)
  /\ d1' = FirstCandidate(bytes[byte_index + 1], bytes[byte_index + 2])
  /\ d2' = SecondCandidate(bytes[byte_index + 2], bytes[byte_index + 3])
  /\ byte_index' = byte_index + 3
  /\ pc' = "first"
  /\ UNCHANGED <<bytes, coefficients>>

FirstKeepingQ ==
  /\ pc = "first"
  /\ coefficients' = IF d1 <= Q THEN Append(coefficients, d1) ELSE coefficients
  /\ pc' = "second"
  /\ UNCHANGED <<bytes, byte_index, d1, d2>>

First ==
  /\ pc = "first"
  /\ coefficients' = IF d1 < Q THEN Append(coefficients, d1) ELSE coefficients
  /\ pc' = "second"
  /\ UNCHANGED <<bytes, byte_index, d1, d2>>

Second ==
  /\ pc = "second"
  /\ coefficients' = IF d2 < Q /\ Len(coefficients) < N
                     THEN Append(coefficients, d2) ELSE coefficients
  /\ pc' = "loop"
  /\ UNCHANGED <<bytes, byte_index, d1, d2>>

Return ==
  /\ pc = "loop" /\ Len(coefficients) = N
  /\ pc' = "done"
  /\ UNCHANGED <<bytes, byte_index, d1, d2, coefficients>>

Next == Exhausted \/ ReadGroup \/ First \/ Second \/ Return

Spec == Init /\ [][Next]_vars

-----------------------------------------------------------------------------

(* The candidates of a stream's complete groups, by halving those numbers. *)
Candidates ==
  [k \in 1 .. 2 * (Len(bytes) \div 3) |->
     LET g     == 3 * ((k - 1) \div 2)
         byte  == Nibble * Nibble
         group == bytes[g + 1] + byte * bytes[g + 2] + byte * byte * bytes[g + 3]
         value == IF k % 2 = 1 THEN group % (byte * Nibble) ELSE group \div (byte * Nibble)
     IN  [ok |-> value < Q, value |-> value]]

Taken ==
  2 * (byte_index \div 3) - (IF pc = "first" THEN 2 ELSE IF pc = "second" THEN 1 ELSE 0)

Status ==
  IF pc = "exhausted" THEN "short" ELSE IF Len(coefficients) = N THEN "full" ELSE "sampling"

Sampler == INSTANCE RejectionSampler WITH
  Needed <- N, candidates <- Candidates, taken <- Taken, output <- coefficients,
  status <- Status

(* The loop over byte groups implements the rejection sampler over the
   stream's candidates: each is examined once, in order, none is lost at a
   group boundary, and the spare second candidate of the last group is ignored. *)
ImplementsSampler == Sampler!Spec

=============================================================================

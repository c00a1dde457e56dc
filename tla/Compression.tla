---------------------------- MODULE Compression ----------------------------
(***************************************************************************)
(* A coefficient's way through ml_kem_compress and ml_kem_decompress       *)
(* (cpp/include/pqcore/encoding.hpp): from the value a sender compresses,  *)
(* or from a code that arrives as it may or that stands for message bits,  *)
(* to the receiver's value, which decryption noise disturbs before it is   *)
(* compressed again.                                                       *)
(***************************************************************************)
EXTENDS Field

CONSTANTS
  Widths    \* bit widths of codes, 1 .. 11

(* What the constants have to be. *)
CompressionAssumption ==
  /\ Q \in Nat /\ Q % 2 = 1 /\ Widths \subseteq Nat \ {0}
  /\ \A d \in Widths : 2^d < Q

NoValue == -1

VARIABLES
  stage,      \* "value", "code", "received", "noisy" or "recoded"
  width,
  value,      \* the sender's value, NoValue when there was none
  code,       \* its code
  received,   \* the receiver's value
  recoded     \* its code again

vars == <<stage, width, value, code, received, recoded>>

-----------------------------------------------------------------------------
(* What a code stands up to: the whole units of noise short of that in
   q / 2^(d+1), one less than its whole part. *)
Tolerance(d) == IF Q \div 2^(d + 1) = 0 THEN 0 ELSE Q \div 2^(d + 1) - 1

-----------------------------------------------------------------------------
Init ==
  /\ width \in Widths /\ received = NoValue /\ recoded = NoValue
  /\ \/ stage = "value" /\ value \in 0 .. Q - 1 /\ code = NoValue
     \/ stage = "code" /\ value = NoValue /\ code \in 0 .. 2^width - 1

Send ==
  /\ stage = "value" /\ stage' = "code"
  /\ code' = Compress(value, width)
  /\ UNCHANGED <<width, value, received, recoded>>

Receive ==
  /\ stage = "code" /\ stage' = "received"
  /\ received' = Decompress(code, width)
  /\ UNCHANGED <<width, value, code, recoded>>

Disturb(noise) ==
  /\ stage = "received" /\ stage' = "noisy"
  /\ received' = (received + noise) % Q /\ value' = NoValue
  /\ UNCHANGED <<width, code, recoded>>

Recode ==
  /\ stage \in {"received", "noisy"} /\ stage' = "recoded"
  /\ recoded' = Compress(received, width)
  /\ UNCHANGED <<width, value, code, received>>

Next ==
  \/ Send \/ Receive \/ Recode
  \/ \E noise \in -Tolerance(width) .. Tolerance(width) : Disturb(noise)

Spec == Init /\ [][Next]_vars

-----------------------------------------------------------------------------

Distance(x, y) == LET d == (x - y) % Q IN IF d <= Q \div 2 THEN d ELSE Q - d

(* Compression loses at most q / 2^(d+1), rounded, of a value, counted around
   the circle of integers modulo q: values just below q wrap to the code 0. *)
SmallError ==
  stage \in {"received", "recoded"} /\ value # NoValue =>
    2^(width + 1) * Distance(value, received) <= Q + 2^width

(* A code survives its way: any code, received and compressed again, is itself,
   also when noise of up to Tolerance units came in between.  For one-bit codes
   this is that decryption finds the message. *)
CodesSurvive == stage = "recoded" => recoded = code
=============================================================================

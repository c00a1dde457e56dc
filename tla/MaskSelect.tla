----------------------------- MODULE MaskSelect -----------------------------
(***************************************************************************)
(* ml_kem_constant_time_equal_mask and ml_kem_select_shared_secret         *)
(* (cpp/include/pqcore/kem_internal.hpp), one byte a step, as              *)
(* decapsulation calls them.  A word is the set of the positions of its    *)
(* one bits, so | is union, & intersection and ^ symmetric difference.     *)
(***************************************************************************)
EXTENDS Integers, Sequences

CONSTANTS
  ByteBits, WordBits,   \* 8 and 32
  SecretBytes,          \* bytes of a shared secret
  Strings, Secrets      \* byte strings to compare, secrets to select from

Bytes == SUBSET (0 .. ByteBits - 1)

ASSUME WidthsAssumption ==
  /\ ByteBits \in Nat /\ WordBits \in Nat /\ SecretBytes \in Nat
  /\ 1 <= ByteBits /\ ByteBits <= WordBits
  /\ Strings \subseteq Seq(Bytes) /\ Secrets \subseteq [1 .. SecretBytes -> Bytes]

VARIABLES
  lhs, rhs, candidate, fallback,   \* the arguments, which never change
  pc,         \* "lengths", "compare", "select", "returned" or "thrown"
  index,      \* bytes done of the loop at hand
  diff,       \* the differences met so far, in a word
  mask,       \* use_candidate_mask
  selected    \* the selected bytes

args == <<lhs, rhs, candidate, fallback>>
comparisonVars == <<args, pc, index, diff, mask, selected>>

-----------------------------------------------------------------------------
Xor(x, y) == (x \ y) \cup (y \ x)

(* 0u - x on w bits: a bit is kept up to the lowest one, flipped above. *)
Negate(x, w) == {b \in 0 .. w - 1 : (b \in x) <=> \A a \in x : b <= a}

ShiftRight(x, s) == {b - s : b \in {c \in x : c >= s}}

(* 0u - (((diff | (0u - diff)) >> 31) ^ 1u), cut to a byte. *)
EqualMask(word) ==
  Negate(Xor(ShiftRight(word \cup Negate(word, WordBits), WordBits - 1), {0}), WordBits)
    \cap (0 .. ByteBits - 1)

-----------------------------------------------------------------------------
ComparisonInit ==
  /\ lhs \in Strings /\ rhs \in Strings /\ candidate \in Secrets /\ fallback \in Secrets
  /\ pc = "lengths" /\ index = 0 /\ diff = {} /\ mask = {} /\ selected = <<>>

CheckLengths ==
  /\ pc = "lengths"
  /\ pc' = IF Len(lhs) # Len(rhs) THEN "thrown" ELSE "compare"
  /\ UNCHANGED <<args, index, diff, mask, selected>>

CompareByteLast ==
  /\ pc = "compare" /\ index < Len(lhs)
  /\ diff' = Xor(lhs[index + 1], rhs[index + 1])
  /\ index' = index + 1 /\ UNCHANGED <<args, pc, mask, selected>>

CompareByteEarlyExit ==
  /\ pc = "compare" /\ index < Len(lhs)
  /\ diff' = diff \cup Xor(lhs[index + 1], rhs[index + 1])
  /\ IF diff' = {} THEN index' = index + 1 /\ UNCHANGED <<pc, mask>>
     ELSE index' = 0 /\ pc' = "select" /\ mask' = {}
  /\ UNCHANGED <<args, selected>>

CompareByte ==
  /\ pc = "compare" /\ index < Len(lhs)
  /\ diff' = diff \cup Xor(lhs[index + 1], rhs[index + 1])
  /\ index' = index + 1 /\ UNCHANGED <<args, pc, mask, selected>>

FinishMask ==
  /\ pc = "compare" /\ index = Len(lhs)
  /\ mask' = EqualMask(diff) /\ index' = 0 /\ pc' = "select"
  /\ UNCHANGED <<args, diff, selected>>

SelectByte ==
  /\ pc = "select" /\ index < SecretBytes
  /\ selected' = Append(selected, (candidate[index + 1] \cap mask) \cup
                          (fallback[index + 1] \cap ((0 .. ByteBits - 1) \ mask)))
  /\ index' = index + 1 /\ UNCHANGED <<args, pc, diff, mask>>

Return ==
  /\ pc = "select" /\ index = SecretBytes
  /\ pc' = "returned" /\ UNCHANGED <<args, index, diff, mask, selected>>

ComparisonNext == CheckLengths \/ CompareByte \/ FinishMask \/ SelectByte \/ Return

ComparisonSpec == ComparisonInit /\ [][ComparisonNext]_comparisonVars

-----------------------------------------------------------------------------
Differences(n) == UNION {Xor(lhs[i], rhs[i]) : i \in 1 .. n}
Chosen == IF lhs = rhs THEN candidate ELSE fallback

ComparisonTypeOK ==
  /\ lhs \in Strings /\ rhs \in Strings /\ candidate \in Secrets /\ fallback \in Secrets
  /\ pc \in {"lengths", "compare", "select", "returned", "thrown"}
  /\ index \in Nat /\ index <= (IF pc \in {"select", "returned"} THEN SecretBytes ELSE Len(lhs))
  /\ diff \in Bytes /\ mask \in Bytes
  /\ selected \in Seq(Bytes)
  /\ pc \notin {"lengths", "thrown"} => Len(lhs) = Len(rhs)

(* The mask that decapsulation selects with has all its bits or none, and all
   of them exactly when the ciphertexts are equal: no half-selected secret. *)
MaskDecides ==
  pc \in {"select", "returned"} =>
    mask = IF lhs = rhs THEN 0 .. ByteBits - 1 ELSE {}

(* The comparison reads both strings to the end, whatever it meets on the way:
   how far it got never depends on where the strings differ. *)
NoEarlyExit ==
  pc \in {"select", "returned"} => diff = Differences(Len(lhs))

(* The two loops do what decapsulation is specified to do in one step. *)
outcome ==
  CASE pc = "thrown"   -> <<"refused">>
    [] pc = "returned" -> <<"selected", selected>>
    [] OTHER           -> <<"running">>

Promised == INSTANCE Selection
Implements == Promised!Spec
=============================================================================

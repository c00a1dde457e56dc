----------------------------- MODULE ByteCodec -----------------------------
(***************************************************************************)
(* ml_kem_byte_encode and ml_kem_byte_decode                               *)
(* (cpp/include/pqcore/encoding.hpp), one coefficient a step: one of them  *)
(* is called on any argument, then the other on its result.                *)
(***************************************************************************)
EXTENDS Integers, Sequences

CONSTANTS
  ByteBits,       \* 8
  Coefficients,   \* kMlKemCoefficientCount, a multiple of ByteBits
  MaxWidth, Q,    \* 12 and kMlKemQ: at the widest, values are modulo Q
  Arrays(_),      \* coefficient arrays the encoder is called on, for a width
  Strings(_),     \* byte strings the decoder is called on, for a width
  CalledWidths    \* widths the two are called with

(* What the constants have to be. *)
CodecAssumption ==
  /\ ByteBits \in Nat \ {0} /\ Coefficients \in Nat /\ Coefficients % ByteBits = 0
  /\ MaxWidth \in Nat /\ Q \in 1 .. 2^MaxWidth /\ CalledWidths \subseteq Nat
  /\ \A d \in CalledWidths : /\ Arrays(d) \subseteq [0 .. Coefficients - 1 -> Int]
                              /\ Strings(d) \subseteq Seq(0 .. 2^ByteBits - 1)

VARIABLES
  pc,         \* "encode", "decode", "returned" or "thrown"
  first,      \* "encode" or "decode", the function called first
  argument,   \* what it was called on
  width,      \* bit_width
  array,      \* the coefficients read or written
  bytes,      \* the bytes read or written
  index       \* coefficient_index

vars == <<pc, first, argument, width, array, bytes, index>>

-----------------------------------------------------------------------------
WidthInRange == width \in 1 .. MaxWidth

EncodedLength == (Coefficients * width) \div ByteBits

Modulus == IF width = MaxWidth THEN Q ELSE 2^width

BitOf(value, i) == (value \div 2^i) % 2

(* Where bit i of the coefficient at hand lands. *)
Place(i) == index * width + i

(* The bit of a byte string at a place. *)
Bit(string, place) == BitOf(string[place \div ByteBits + 1], place % ByteBits)

SetBit(byte, i) == IF BitOf(byte, i) = 1 THEN byte ELSE byte + 2^i

WithBit(string, place) ==
  [string EXCEPT ![place \div ByteBits + 1] = SetBit(@, place % ByteBits)]

BytesBigEndian(value) ==
  LET written[i \in 0 .. width] ==
        IF i = 0 THEN bytes
        ELSE IF BitOf(value, width - i) = 0 THEN written[i - 1]
             ELSE WithBit(written[i - 1], Place(i - 1))
  IN  written[width]

(* The bytes with the bits of a value set at its places, one after the other. *)
BytesWith(value) ==
  LET written[i \in 0 .. width] ==
        IF i = 0 THEN bytes
        ELSE IF BitOf(value, i - 1) = 0 THEN written[i - 1]
             ELSE WithBit(written[i - 1], Place(i - 1))
  IN  written[width]

(* The value of the width bits at a coefficient's place. *)
Field(string, coefficient) ==
  LET sum[i \in 0 .. width] ==
        IF i = 0 THEN 0 ELSE sum[i - 1] + Bit(string, coefficient * width + i - 1) * 2^(i - 1)
  IN  sum[width]

-----------------------------------------------------------------------------
ZeroBytes == [b \in 1 .. EncodedLength |-> 0]
ZeroArray == [i \in 0 .. Coefficients - 1 |-> 0]

Init ==
  /\ width \in CalledWidths /\ index = 0
  /\ \/ /\ first = "encode" /\ argument \in Arrays(width)
        /\ array = argument /\ bytes = ZeroBytes
        /\ pc = IF WidthInRange THEN "encode" ELSE "thrown"
     \/ /\ first = "decode" /\ argument \in Strings(width)
        /\ bytes = argument /\ array = ZeroArray
        /\ pc = IF WidthInRange /\ Len(argument) = EncodedLength THEN "decode" ELSE "thrown"

EncodeCoefficient ==
  /\ pc = "encode" /\ index < Coefficients
  /\ array[index] >= 0 /\ array[index] < Modulus
  /\ bytes' = BytesWith(array[index])
  /\ index' = index + 1 /\ UNCHANGED <<pc, first, argument, width, array>>

EncodeRefused ==
  /\ pc = "encode" /\ index < Coefficients
  /\ array[index] < 0 \/ array[index] >= Modulus
  /\ pc' = "thrown" /\ UNCHANGED <<first, argument, width, array, bytes, index>>

DecodeCoefficient ==
  /\ pc = "decode" /\ index < Coefficients
  /\ array' = [array EXCEPT ![index] = Field(bytes, index) % Modulus]
  /\ index' = index + 1 /\ UNCHANGED <<pc, first, argument, width, bytes>>

(* The first call returns and the other function is called on its result. *)
CallOther ==
  /\ pc \in {"encode", "decode"} /\ pc = first /\ index = Coefficients
  /\ pc' = IF pc = "encode" THEN "decode" ELSE "encode"
  /\ index' = 0
  /\ IF pc = "encode" THEN array' = ZeroArray /\ UNCHANGED bytes
                      ELSE bytes' = ZeroBytes /\ UNCHANGED array
  /\ UNCHANGED <<first, argument, width>>

Return ==
  /\ pc \in {"encode", "decode"} /\ pc # first /\ index = Coefficients
  /\ pc' = "returned" /\ UNCHANGED <<first, argument, width, array, bytes, index>>

Next ==
  EncodeCoefficient \/ EncodeRefused \/ DecodeCoefficient \/ CallOther \/ Return

Spec == Init /\ [][Next]_vars

-----------------------------------------------------------------------------

(* Whatever can be encoded is decoded to what it was. *)
ArraysRoundTrip == pc = "returned" /\ first = "encode" => array = argument

(* What was decoded can be encoded, and a string encodes again to itself
   exactly when none of its fields is Q or more; only the widest encoding has
   such aliases, and a public key in one of them is another byte string for the
   same key. *)
OnlyCanonicalStringsRoundTrip ==
  first = "decode" =>
    /\ pc = "thrown" => ~WidthInRange \/ Len(argument) # EncodedLength
    /\ pc = "returned" =>
         (bytes = argument <=> \A i \in 0 .. Coefficients - 1 : Field(argument, i) < Modulus)
=============================================================================

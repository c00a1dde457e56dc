------------------------------- MODULE Field -------------------------------
(***************************************************************************)
(* ModQ (cpp/include/pqcore/field.hpp): residues held as 0 .. Q - 1, with  *)
(* a remainder that takes the sign of what is divided, as C++ has it; and  *)
(* ml_kem_compress and ml_kem_decompress (cpp/include/pqcore/encoding.hpp) *)
(* between residues and codes of d bits.  Module NttProofs shows that      *)
(* ModQ's part is arithmetic modulo Q.                                     *)
(***************************************************************************)
EXTENDS Integers

CONSTANT Q   \* 3329 (MlKemField) or 8380417 (MlDsaField)

Remainder(value) == IF value >= 0 THEN value % Q ELSE -((-value) % Q)

Normalize(value) ==
  LET reduced == Remainder(value) IN IF reduced < 0 THEN reduced + Q ELSE reduced

Centered(x) == IF x > Q \div 2 THEN x - Q ELSE x

Plus(x, y)  == Normalize(x + y)
Minus(x, y) == Normalize(x - y)
Times(x, y) == Normalize(x * y)
Negated(x)  == Normalize(-x)

-----------------------------------------------------------------------------
(* Both refuse a width outside 1 .. 11, and decompression a code that does not
   fit its width.  K-PKE only asks for the widths of its parameter sets, and its
   codes come out of a decoder of the same width, so neither is a behaviour. *)
CompressTruncated(x, d) == ((x * 2^d) \div Q) % 2^d

Compress(x, d) == ((x * 2^d + Q \div 2) \div Q) % 2^d

DecompressTruncated(y, d) == (y * Q) \div 2^d

Decompress(y, d) == (y * Q + 2^d \div 2) \div 2^d
=============================================================================

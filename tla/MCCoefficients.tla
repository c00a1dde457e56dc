--------------------------- MODULE MCCoefficients ---------------------------
(* Codec: two coefficients of up to four bits in bytes of two, modulo 13 at the
   widest, so fields start inside bytes and run across them; all strings of the
   right length and some of the wrong one, all arrays and some out of range.
   Compression: the real modulus and every width. *)
EXTENDS Coefficients

MCArrays(d)  == [0 .. 1 -> -1 .. 16]
MCStrings(d) == UNION {[1 .. n -> 0 .. 3] : n \in {0, d, d + 1}}

MCCalledWidths == 0 .. 5
MCCodeWidths   == 1 .. 11

(* Rounding: two small moduli with every r and every z, also unreduced ones, and
   the three parameter sets of params.hpp around the ends of their intervals. *)
Small == {[q |-> 17, d |-> 2, gamma2 |-> 2], [q |-> 73, d |-> 3, gamma2 |-> 6]}
Real  == {[q |-> 8380417, d |-> 13, gamma2 |-> 95232],
          [q |-> 8380417, d |-> 13, gamma2 |-> 261888]}
MCRoundingSets == Small \cup Real

Ends(p) == {i * p.gamma2 + k : i \in {0, 1, 2, 3, 6, 7, (p.q - 1) \div p.gamma2 - 1,
                                      (p.q - 1) \div p.gamma2}, k \in -1 .. 2}
           \cup {i * 2^12 + k : i \in {1, 2, 2045, 2046}, k \in 0 .. 1}
Changes(p) == {s * x : s \in {-1, 1}, x \in {0, 1, p.gamma2 - 1, p.gamma2}}

MCRoundingSamples(p) ==
  IF p \in Small THEN (-p.q .. 2 * p.q) \X (-p.gamma2 - 2 .. p.gamma2 + 2)
  ELSE Ends(p) \X Changes(p)

ASSUME CodecConstants == Codec!CodecAssumption
ASSUME CompressionConstants == Coefficient!CompressionAssumption
ASSUME RoundingConstants == Rounding!ParametersAssumption
=============================================================================

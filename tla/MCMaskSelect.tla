---------------------------- MODULE MCMaskSelect ----------------------------
(* Two-bit bytes in four-bit words: strings of up to two bytes, all of them. *)
EXTENDS MaskSelect, FiniteSetsExt

MCBytes   == SUBSET (0 .. 1)
MCStrings == UNION {[1 .. n -> MCBytes] : n \in 0 .. 2}
MCSecrets == {<<{}, {0, 1}>>, <<{0}, {1}>>, <<{0, 1}, {1}>>}

(* Negate is subtraction from zero modulo 2^w, on all words up to six bits. *)
Value(x) == SumSet({2^b : b \in x})
ASSUME NegateIsMinus ==
  \A w \in 1 .. 6 : \A x \in SUBSET (0 .. w - 1) : Value(Negate(x, w)) = (2^w - Value(x)) % 2^w
=============================================================================

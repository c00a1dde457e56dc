----------------------------- MODULE MCSamplers -----------------------------
(* Polynomials of four coefficients.  SampleInBall: two sign bytes of two bits
   and up to three index bytes, every byte value.  SampleNTT: two-bit bytes and
   one-bit nibbles, so candidates 0 .. 7 of which 5, 6 and 7 are rejected. *)
EXTENDS Samplers

MCStreams == UNION {[1 .. n -> 0 .. N - 1] : n \in 0 .. 6}

(* Every stream of up to two groups with its truncations, and streams of three
   groups; half bytes on both sides of the limits 15 (eta = 2) and 9 (eta = 4). *)
MCNttStreams ==
  UNION {[1 .. n -> 0 .. 3] : n \in 0 .. 6}
    \cup {<<x, 3, 3>> \o s : x \in {0, 3}, s \in [1 .. 6 -> {0, 2, 3}]}
HalfBytes == {8, 9, 14, 15}
MCBoundedStreams ==
  UNION {[1 .. n -> {lo + 16 * hi : lo \in HalfBytes, hi \in HalfBytes}] : n \in 0 .. 3}

ASSUME NttConstants == Ntt!ConstantsAssumption
ASSUME BoundedConstants == Bounded!ConstantsAssumption
ASSUME BinomialConstants == Binomial!ConstantsAssumption
=============================================================================

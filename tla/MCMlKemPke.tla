----------------------------- MODULE MCMlKemPke -----------------------------
(* Polynomials of four coefficients at the real modulus, noise and code widths.
   Seeds 0 and 1 expand to the largest noise of either sign everywhere, the
   others to a scrambled stream; rounding noise is largest for neither. *)
EXTENDS MlKemPke

Scrambled(x) == ((((x % 46337) * 7919 + 12345) % 46337) * 613 + x) % 32749

Mixed(input, i) ==
  Scrambled(Scrambled(Scrambled(input[1] + 5 * input[3]) + 31 * input[4] + 17 * input[5]) + i)

MCStream(input, i) ==
  CASE input[1] = GDomain -> IF i = 1 /\ input[3] < 2 THEN input[3] ELSE 100 * input[3] + i + 7
    [] input[1] = PrfDomain /\ input[3] = 0 -> 0
    [] input[1] = PrfDomain /\ input[3] = 1 -> 34   \* -1 modulo both 5 and 7
    [] OTHER -> Mixed(input, i)

MCMessages == [1 .. N -> {0, 1}] \cup {<<0>>}
=============================================================================

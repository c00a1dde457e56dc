------------------------------- MODULE MCNtt -------------------------------
(* Degree 8 modulo 17: every pair of monomials, which by bilinearity decides
   every product, and pairs of dense polynomials with the extreme residues. *)
EXTENDS Ntt

Monomial(i, x) == [k \in Index |-> IF k = i THEN x ELSE 0]
Dense == {[k \in Index |-> Q - 1], [k \in Index |-> (3 * k + 1) % Q]}
MCInputs ==
  {<<Monomial(i, 1), Monomial(j, Q - 1)>> : i \in 0 .. 7, j \in 0 .. 7} \cup (Dense \X Dense)

(* The constants of the code are what Ntt takes constants to be. *)
Code == INSTANCE Ntt WITH
  Q <- 3329, N <- 256, Root <- 17, Bits <- 7, Scale <- 3303, Inputs <- {}
ASSUME CodeConstants == Code!ConstantsAssumption /\ Code!RootAssumption
=============================================================================

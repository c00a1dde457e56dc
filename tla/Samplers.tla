------------------------------ MODULE Samplers ------------------------------
(***************************************************************************)
(* The samplers of sampling.hpp side by side: SampleInBall, and the three  *)
(* that fill a polynomial of an expanded matrix, secret or noise.  A       *)
(* behaviour is one call of one of them; the others are not called.        *)
(***************************************************************************)
EXTENDS SampleInBall

CONSTANTS
  KemQ, Nibble, NttStreams,                                      \* SampleNTT
  BoundedEtas, BoundedStreams,                                   \* RejBoundedPoly
  BinomialDegree, BinomialQ, BinomialEtas, BitLengths            \* SamplePolyCBD

VARIABLES
  called,                                                        \* which sampler
  n_bytes, n_pc, n_byte_index, n_d1, n_d2, n_coefficients,       \* SampleNTT
  r_eta, r_bytes, r_pc, r_position, r_coefficients,              \* RejBoundedPoly
  c_eta, c_bits, c_pc, c_coefficient_index, c_coefficients       \* SamplePolyCBD

nttVars == <<n_bytes, n_pc, n_byte_index, n_d1, n_d2, n_coefficients>>
boundedVars == <<r_eta, r_bytes, r_pc, r_position, r_coefficients>>
binomialVars == <<c_eta, c_bits, c_pc, c_coefficient_index, c_coefficients>>

Ntt == INSTANCE SampleNtt WITH
  Q <- KemQ, Streams <- NttStreams,
  bytes <- n_bytes, pc <- n_pc, byte_index <- n_byte_index, d1 <- n_d1, d2 <- n_d2,
  coefficients <- n_coefficients

Bounded == INSTANCE RejBoundedPoly WITH
  Etas <- BoundedEtas, Streams <- BoundedStreams,
  eta <- r_eta, bytes <- r_bytes, pc <- r_pc, position <- r_position,
  coefficients <- r_coefficients

Binomial == INSTANCE CenteredBinomial WITH
  N <- BinomialDegree, Q <- BinomialQ, Etas <- BinomialEtas,
  eta <- c_eta, bits <- c_bits, pc <- c_pc,
  coefficient_index <- c_coefficient_index, coefficients <- c_coefficients

(* Not called. *)
BallIdle ==
  /\ tau = 0 /\ bytes = <<>> /\ pc = "idle" /\ coefficients = Zero /\ offset = 0
  /\ byte_index = 0 /\ result = Zero
NttIdle ==
  n_bytes = <<>> /\ n_pc = "idle" /\ n_byte_index = 0 /\ n_d1 = 0 /\ n_d2 = 0
    /\ n_coefficients = <<>>
BoundedIdle ==
  r_eta = 2 /\ r_bytes = <<>> /\ r_pc = "start" /\ r_position = 0 /\ r_coefficients = <<>>
BinomialIdle ==
  /\ c_eta = 2 /\ c_bits = [b \in 0 .. 7 |-> 0] /\ c_pc = "start"
  /\ c_coefficient_index = 0 /\ c_coefficients = Binomial!Zero

SamplersInit ==
  \/ called = "SampleInBall" /\ Init /\ NttIdle /\ BoundedIdle /\ BinomialIdle
  \/ called = "SampleNTT" /\ BallIdle /\ Ntt!Init /\ BoundedIdle /\ BinomialIdle
  \/ called = "RejBoundedPoly" /\ BallIdle /\ NttIdle /\ Bounded!Init /\ BinomialIdle
  \/ called = "SamplePolyCBD" /\ BallIdle /\ NttIdle /\ BoundedIdle /\ Binomial!Init

SamplersNext ==
  \/ called = "SampleInBall" /\ Next /\ UNCHANGED <<called, nttVars, boundedVars, binomialVars>>
  \/ called = "SampleNTT" /\ Ntt!Next /\ UNCHANGED <<called, vars, boundedVars, binomialVars>>
  \/ called = "RejBoundedPoly" /\ Bounded!Next /\ UNCHANGED <<called, vars, nttVars, binomialVars>>
  \/ called = "SamplePolyCBD" /\ Binomial!Next /\ UNCHANGED <<called, vars, nttVars, boundedVars>>

SamplersSpec ==
  SamplersInit /\ [][SamplersNext]_<<called, vars, nttVars, boundedVars, binomialVars>>

(* SampleNTT's loop over groups of three bytes implements the abstract
   rejection sampler over the candidates of its stream. *)
NttImplementsSampler == Ntt!ImplementsSampler

(* RejBoundedPoly's loop over bytes implements it over the half bytes. *)
BoundedImplementsSampler == Bounded!ImplementsSampler

(* RejBoundedPoly gives every value within -eta .. eta equally often, no other. *)
EvenlySpread == Bounded!EvenlySpread

(* SamplePolyCBD uses every bit of its input for one coefficient, once. *)
EachBitCountsOnce == Binomial!EachBitCountsOnce
=============================================================================

------------------------------ MODULE Hashing ------------------------------
(***************************************************************************)
(* sha3.hpp: the sponge around an abstract permutation, and the            *)
(* permutation itself.  A behaviour is a call of one of the two.           *)
(***************************************************************************)
EXTENDS Integers, Sequences

CONSTANTS
  Lane, StateBytes, Rates, Inputs, Suffixes, Lengths,   \* keccak_sponge
  Blocks                                                \* keccak_f1600

VARIABLES
  component,                                            \* "sponge" or "permutation"
  rate, input, suffix, output_bytes, sponge_pc, input_offset, absorbed, squeezes, output,
  block, state, round, step, reference

spongeVars ==
  <<rate, input, suffix, output_bytes, sponge_pc, input_offset, absorbed, squeezes, output>>
permutationVars == <<block, state, round, step, reference>>

Sponge == INSTANCE KeccakSponge WITH pc <- sponge_pc, offset <- input_offset

Permutation == INSTANCE KeccakPermutation

(* Not called. *)
SpongeIdle ==
  /\ rate = 0 /\ input = <<>> /\ suffix = {} /\ output_bytes = 0 /\ sponge_pc = "idle"
  /\ input_offset = 0 /\ absorbed = <<>> /\ squeezes = 0 /\ output = <<>>

PermutationIdle ==
  block = <<>> /\ state = <<>> /\ round = 24 /\ step = "idle" /\ reference = <<>>

HashingInit ==
  \/ component = "sponge" /\ Sponge!Init /\ PermutationIdle
  \/ component = "permutation" /\ SpongeIdle /\ Permutation!Init

HashingNext ==
  \/ component = "sponge" /\ Sponge!Next /\ UNCHANGED <<component, permutationVars>>
  \/ component = "permutation" /\ Permutation!Next /\ UNCHANGED <<component, spongeVars>>

HashingSpec == HashingInit /\ [][HashingNext]_<<component, spongeVars, permutationVars>>

(* What the sponge absorbs spells the message and its domain suffix. *)
PaddingIsReversible == Sponge!PaddingIsReversible

(* What the sponge returns is the stream of fresh state bytes, in order. *)
OutputIsPrefix == Sponge!OutputIsPrefix
=============================================================================

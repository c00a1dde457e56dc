---------------------------- MODULE KeccakSponge ----------------------------
(***************************************************************************)
(* The Keccak sponge (cpp/include/pqcore/sha3.hpp, keccak_sponge) around   *)
(* an abstract permutation: absorb the whole blocks, pad the rest, squeeze *)
(* the output.  A byte is the set of its bits, so that xor is symmetric    *)
(* difference.  The state of the sponge is represented by what determines  *)
(* it: the blocks xored in, with a permutation after each, and the number  *)
(* of permutations made since; an output byte is named by that state and   *)
(* its place in it.                                                        *)
(***************************************************************************)
EXTENDS Integers, Sequences

CONSTANTS
  Lane,       \* bytes of a lane; 8 in the code
  StateBytes, \* bytes of the state; 200 in the code
  Rates,      \* the rates asked for; 72, 136 and 168 in the callers
  Inputs,     \* the byte sequences absorbed
  Suffixes,   \* domain suffixes; 0x06 for SHA3 and 0x1f for SHAKE
  Lengths     \* the output lengths asked for

TopBit == 7

(* What the constants have to be. *)
ConstantsAssumption ==
  /\ Lane \in Nat \ {0} /\ StateBytes \in Nat \ {0}
  /\ Rates \subseteq Nat /\ Lengths \subseteq Nat
  /\ Inputs \subseteq Seq(SUBSET (0 .. TopBit))
  /\ Suffixes \subseteq (SUBSET (0 .. TopBit - 1)) \ {{}}

VARIABLES
  rate, input, suffix, output_bytes,   \* the arguments
  pc,        \* "start", "absorb", "squeeze", "done" or "invalid_argument"
  offset,    \* bytes of the input absorbed
  absorbed,  \* the blocks xored into the state so far, each then permuted
  squeezes,  \* permutations since the last block
  output     \* the bytes squeezed: records [blocks, squeeze, position]

args == <<rate, input, suffix, output_bytes>>
vars == <<rate, input, suffix, output_bytes, pc, offset, absorbed, squeezes, output>>

Xor(x, y) == (x \ y) \cup (y \ x)

Init ==
  /\ rate \in Rates /\ input \in Inputs /\ suffix \in Suffixes /\ output_bytes \in Lengths
  /\ pc = "start" /\ offset = 0 /\ absorbed = <<>> /\ squeezes = 0 /\ output = <<>>

ValidRate == rate # 0 /\ rate % Lane = 0 /\ rate <= StateBytes

Start ==
  /\ pc = "start"
  /\ pc' = IF ValidRate THEN "absorb" ELSE "invalid_argument"
  /\ UNCHANGED <<args, offset, absorbed, squeezes, output>>

WholeBlockLeft == Len(input) - offset >= rate

Absorb ==
  /\ pc = "absorb" /\ WholeBlockLeft
  /\ absorbed' = Append(absorbed, [i \in 0 .. rate - 1 |-> input[offset + i + 1]])
  /\ offset' = offset + rate
  /\ UNCHANGED <<args, pc, squeezes, output>>

Remaining == Len(input) - offset

Rest == [i \in 0 .. rate - 1 |-> IF i < Remaining THEN input[offset + i + 1] ELSE {}]

(* block[remaining] ^= domain_suffix; block[rate - 1] ^= 0x80, in that order
   and possibly on the same byte. *)
PaddedOverwrite ==
  LET suffixed == [Rest EXCEPT ![Remaining] = suffix]
  IN  [suffixed EXCEPT ![rate - 1] = {TopBit}]

PaddedLastBlock ==
  LET suffixed == [Rest EXCEPT ![Remaining] = Xor(@, suffix)]
  IN  [suffixed EXCEPT ![rate - 1] = Xor(@, {TopBit})]

Pad ==
  /\ pc = "absorb" /\ ~WholeBlockLeft
  /\ absorbed' = Append(absorbed, PaddedLastBlock)
  /\ pc' = "squeeze"
  /\ UNCHANGED <<args, offset, squeezes, output>>

Take == IF rate <= output_bytes - Len(output) THEN rate ELSE output_bytes - Len(output)

SqueezeSameBlock ==
  /\ pc = "squeeze" /\ Len(output) < output_bytes
  /\ output' = output \o [i \in 1 .. Take |->
                   [blocks |-> absorbed, squeeze |-> squeezes, position |-> i - 1]]
  /\ UNCHANGED <<args, pc, offset, absorbed, squeezes>>

Squeeze ==
  /\ pc = "squeeze" /\ Len(output) < output_bytes
  /\ output' = output \o [i \in 1 .. Take |->
                   [blocks |-> absorbed, squeeze |-> squeezes, position |-> i - 1]]
  /\ squeezes' = IF Len(output') < output_bytes THEN squeezes + 1 ELSE squeezes
  /\ UNCHANGED <<args, pc, offset, absorbed>>

Return ==
  /\ pc = "squeeze" /\ Len(output) >= output_bytes
  /\ pc' = "done"
  /\ UNCHANGED <<args, offset, absorbed, squeezes, output>>

Next == Start \/ Absorb \/ Pad \/ Squeeze \/ Return

Spec == Init /\ [][Next]_vars

-----------------------------------------------------------------------------
Byte == SUBSET (0 .. TopBit)

(* The blocks read back: take the final bit off, then the last byte that is
   not empty is the suffix and what precedes it is the message. *)
Flat == [k \in 1 .. Len(absorbed) * rate |->
           LET byte == absorbed[((k - 1) \div rate) + 1][(k - 1) % rate]
           IN  IF k = Len(absorbed) * rate THEN Xor(byte, {TopBit}) ELSE byte]

(* Padding is reversible: the absorbed blocks determine the message and the
   domain suffix, so no two messages, and no SHA3 and SHAKE call at the same
   rate, ever share a state, also when the suffix and the final bit meet in
   one byte, or when the message ends in bytes that look like padding. *)
PaddingIsReversible ==
  pc = "done" =>
    \E last \in DOMAIN Flat :
      /\ Flat[last] = suffix /\ \A k \in last + 1 .. Len(Flat) : Flat[k] = {}
      /\ SubSeq(Flat, 1, last - 1) = input

(* The output is the sequence of fresh state bytes: byte i comes from squeeze
   (i - 1) div rate, place (i - 1) mod rate.  A longer output of the same call
   therefore starts with the shorter one, no state byte is given out twice, and
   the caller gets as many as it asked for. *)
OutputIsPrefix ==
  /\ pc = "done" => Len(output) = output_bytes
  /\ \A i \in 1 .. Len(output) :
       /\ output[i].blocks = absorbed
       /\ output[i].squeeze = (i - 1) \div rate
       /\ output[i].position = (i - 1) % rate

=============================================================================

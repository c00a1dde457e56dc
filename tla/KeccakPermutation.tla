-------------------------- MODULE KeccakPermutation --------------------------
(***************************************************************************)
(* keccak_f1600 (cpp/include/pqcore/sha3.hpp), at its real size.  A lane   *)
(* is the set of its one bits, lane x + 5 * y holds the column <<x, y>>.   *)
(* Beside the code's state runs `reference', on which every step applies   *)
(* the step mapping as FIPS 202 defines it, bit by bit.                    *)
(***************************************************************************)
EXTENDS Integers, Sequences, FiniteSets

CONSTANT Blocks   \* blocks absorbed into a state of zeros: functions 0 .. 199 -> SUBSET 0 .. 7

VARIABLES
  block,      \* the block absorbed
  state,      \* the lanes
  round, step,
  reference   \* what FIPS 202 makes of the block so far

vars == <<block, state, round, step, reference>>

W       == 64
Bits    == 0 .. W - 1
Lanes   == 0 .. 24
Columns == (0 .. 4) \X (0 .. 4)

Xor(a, b) == (a \ b) \cup (b \ a)

rotl64(value, shift) ==
  IF shift = 0 THEN value
  ELSE ({bit + shift : bit \in value} \cup {bit - (W - shift) : bit \in value}) \cap Bits

load64_le(bytes) == UNION {{8 * index + bit : bit \in bytes[index]} : index \in 0 .. 7}

store64_le(value) == [index \in 0 .. 7 |-> {bit \in 0 .. 7 : 8 * index + bit \in value}]

round_constants == <<
  {0}, {1, 7, 15}, {1, 3, 7, 15, 63}, {15, 31, 63}, {0, 1, 3, 7, 15}, {0, 31},
  {0, 7, 15, 31, 63}, {0, 3, 15, 63}, {1, 3, 7}, {3, 7}, {0, 3, 15, 31}, {1, 3, 31},
  {0, 1, 3, 7, 15, 31}, {0, 1, 3, 7, 63}, {0, 3, 7, 15, 63}, {0, 1, 15, 63}, {1, 15, 63},
  {7, 63}, {1, 3, 15}, {1, 3, 31, 63}, {0, 7, 15, 31, 63}, {7, 15, 63}, {0, 31},
  {3, 15, 31, 63}>>

rotation_offsets == <<
   0,  1, 62, 28, 27,
  36, 44,  6, 55, 20,
   3, 10, 43, 25, 39,
  41, 45, 15, 21,  8,
  18,  2, 61, 56, 14>>

-----------------------------------------------------------------------------
(* FIPS 202, section 3.2, on A, the bits of every column. *)
Theta(A) ==
  LET C == [x \in 0 .. 4 |-> {z \in Bits : Cardinality({y \in 0 .. 4 : z \in A[x, y]}) % 2 = 1}]
      D == [x \in 0 .. 4 |-> Xor(C[(x + 4) % 5], {z \in Bits : (z - 1) % W \in C[(x + 1) % 5]})]
  IN  [c \in Columns |-> Xor(A[c], D[c[1]])]

(* The columns rho visits, and the rotation it gives each. *)
Walk[t \in 0 .. 23] ==
  IF t = 0 THEN <<1, 0>>
  ELSE LET c == Walk[t - 1] IN <<c[2], (2 * c[1] + 3 * c[2]) % 5>>

RhoOffset ==
  [c \in Columns |-> IF c = <<0, 0>> THEN 0
                     ELSE LET t == CHOOSE t \in 0 .. 23 : Walk[t] = c
                          IN  ((t + 1) * (t + 2)) \div 2]

Rho(A) == [c \in Columns |-> {z \in Bits : (z - RhoOffset[c]) % W \in A[c]}]

Pi(A) == [c \in Columns |-> A[(c[1] + 3 * c[2]) % 5, c[1]]]

Chi(A) ==
  [c \in Columns |-> {z \in Bits : (z \in A[c]) #
                        (z \notin A[(c[1] + 1) % 5, c[2]] /\ z \in A[(c[1] + 2) % 5, c[2]])}]

(* The shift register of the round constants, as the set of its one bits. *)
Register[t \in Nat] ==
  IF t = 0 THEN {0}
  ELSE LET R == {bit + 1 : bit \in Register[t - 1]}
       IN  IF 8 \in R THEN Xor(R, {0, 4, 5, 6}) \ {8} ELSE R

Iota(A, r) ==
  [A EXCEPT ![<<0, 0>>] = Xor(@, {2 ^ j - 1 : j \in {j \in 0 .. 6 : 0 \in Register[j + 7 * r]}})]

-----------------------------------------------------------------------------
(* The state after a block has been absorbed into one of zeros. *)
Init ==
  /\ block \in Blocks
  /\ state = [lane \in Lanes |-> load64_le([index \in 0 .. 7 |-> block[8 * lane + index]])]
  /\ reference = [c \in Columns |-> {z \in Bits :
                    z % 8 \in block[8 * (c[1] + 5 * c[2]) + (z \div 8)]}]
  /\ round = 0 /\ step = "theta"

StepTheta ==
  /\ round < 24 /\ step = "theta"
  /\ LET column_parity == [x \in 0 .. 4 |-> Xor(Xor(Xor(Xor(
           state[x], state[x + 5]), state[x + 10]), state[x + 15]), state[x + 20])]
         mix == [x \in 0 .. 4 |->
                   Xor(column_parity[(x + 4) % 5], rotl64(column_parity[(x + 1) % 5], 1))]
     IN  state' = [lane \in Lanes |-> Xor(state[lane], mix[lane % 5])]
  /\ step' = "rho_pi" /\ reference' = Theta(reference) /\ UNCHANGED <<block, round>>

(* The lane that the lane at <<x, y>> moves to. *)
Target(x, y) == y + 5 * ((2 * x + 3 * y) % 5)

RotatedByTarget(c) ==
  rotl64(state[c[1] + 5 * c[2]], rotation_offsets[Target(c[1], c[2]) + 1])

Rotated(c) == rotl64(state[c[1] + 5 * c[2]], rotation_offsets[c[1] + 5 * c[2] + 1])

StepRhoPi ==
  /\ round < 24 /\ step = "rho_pi"
  /\ state' = [lane \in Lanes |-> Rotated(CHOOSE c \in Columns : Target(c[1], c[2]) = lane)]
  /\ step' = "chi" /\ reference' = Pi(Rho(reference)) /\ UNCHANGED <<block, round>>

StepChi ==
  /\ round < 24 /\ step = "chi"
  /\ state' = [lane \in Lanes |->
                 LET x == lane % 5
                     y == lane \div 5
                 IN  Xor(state[lane], (Bits \ state[((x + 1) % 5) + 5 * y])
                                        \cap state[((x + 2) % 5) + 5 * y])]
  /\ step' = "iota" /\ reference' = Chi(reference) /\ UNCHANGED <<block, round>>

StepIota ==
  /\ round < 24 /\ step = "iota"
  /\ state' = [state EXCEPT ![0] = Xor(@, round_constants[round + 1])]
  /\ step' = "theta" /\ reference' = Iota(reference, round) 
  /\ round' = round + 1 /\ UNCHANGED block

Next == StepTheta \/ StepRhoPi \/ StepChi \/ StepIota

Spec == Init /\ [][Next]_vars

-----------------------------------------------------------------------------
(* Every step of every round does what FIPS 202 defines: the table of rotations,
   the table of round constants, the lane order and the scatter of rho and pi
   all agree with the standard, whose own definitions generate both tables. *)
RoundsFollowFips202 == \A c \in Columns : state[c[1] + 5 * c[2]] = reference[c]
=============================================================================

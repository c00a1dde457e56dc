----------------------------- MODULE MCHashing -----------------------------
(* Sponge messages have up to four bytes that are zero, the final bit, a
   suffix, or a suffix with the final bit: everything padding could be confused
   with.  The permutation has its real size. *)
EXTENDS Hashing

MCSuffixes == {{1, 2}, {0, 1, 2, 3, 4}}
MCInputs == UNION {[1 .. n -> {{}, {7}, {1, 2}, {1, 2, 7}}] : n \in 0 .. 4}

(* What SHA3-256 absorbs of the empty message, which ends in the SHA3-256 digest
   cpp/tests/test_sha3.cpp:44 gives. *)
EmptyMessage == [i \in 0 .. 199 |-> IF i = 0 THEN {1, 2} ELSE IF i = 135 THEN {7} ELSE {}]

EmptyDigestStart ==
  <<{0, 1, 2, 5, 7}, {0, 1, 2, 3, 4, 5, 6, 7}, {1, 2, 6, 7}, {3, 4, 5, 6, 7},
    {0, 1, 2, 3, 4, 5, 7}, {1, 2, 3, 4}, {0, 1, 2, 4, 6, 7}, {1, 2, 5, 6}>>

MCBlocks ==
  {EmptyMessage, [i \in 0 .. 199 |-> {}], [i \in 0 .. 199 |-> 0 .. 7],
   [i \in 0 .. 199 |-> {bit \in 0 .. 7 : (i * i + 3 * bit) % 7 < 3}]}

ASSUME SpongeConstants == Sponge!ConstantsAssumption

(* KeccakPermutation's RoundsFollowFips202; and after the last round on the
   empty message the state starts with the digest the tests expect. *)
RoundsFollowFips202 ==
  component = "permutation" =>
    /\ Permutation!RoundsFollowFips202
    /\ round = 24 /\ block = EmptyMessage =>
         \A i \in 0 .. 7 : Permutation!store64_le(state[0])[i] = EmptyDigestStart[i + 1]
=============================================================================

--------------------------- MODULE MlDsaRounding ---------------------------
(***************************************************************************)
(* Rounding and hints of ML-DSA (cpp/include/pqcore/dsa_helpers.hpp).  A   *)
(* signer knows r and z and sends the hint; a verifier knows r only and    *)
(* recovers the high bits of r + z.  One behaviour is one coefficient: the *)
(* signer makes the hint, the verifier uses it.                            *)
(***************************************************************************)
EXTENDS Integers

CONSTANTS
  ParameterSets,   \* records [q, d, gamma2]
  Samples(_)       \* pairs <<r, z>> to try with a parameter set

(* What the constants have to be. *)
ParametersAssumption ==
  \A p \in ParameterSets :
    /\ p.q \in Nat /\ p.d \in Nat \ {0} /\ p.gamma2 \in Nat \ {0}
    /\ 2^p.d \in 1 .. p.q - 1
    /\ (p.q - 1) % (2 * p.gamma2) = 0 /\ (p.q - 1) \div (2 * p.gamma2) >= 3
    /\ Samples(p) \subseteq Int \X Int

VARIABLES
  selected,   \* the parameter set
  r, z,       \* the coefficient and what the signer adds to it
  hint,       \* the hint sent, once made
  recovered,  \* the high bits the verifier recovers
  pc          \* "make_hint", "use_hint" or "done"

vars == <<selected, r, z, hint, recovered, pc>>

-----------------------------------------------------------------------------
(* C++ % truncates towards zero; the code adds the modulus back.  It refuses a
   modulus that is not positive, an odd one for the centred remainder, a d of 30
   or more and a gamma2 that does not divide (q - 1) / 2: the parameter sets, as
   assumed above, raise none of these. *)
PositiveMod(value, modulus) == value % modulus

CenteredMod(value, modulus) ==
  LET reduced == PositiveMod(value, modulus)
  IN  IF reduced > modulus \div 2 THEN reduced - modulus ELSE reduced

Power2RoundBase(p) == 2^p.d
DecomposeBase(p)   == 2 * p.gamma2
HighBitsModulus(p) == (p.q - 1) \div DecomposeBase(p)

Power2Round(p, x) ==
  LET base   == Power2RoundBase(p)
      r_plus == PositiveMod(x, p.q)
      r0     == CenteredMod(r_plus, base)
  IN  [high |-> (r_plus - r0) \div base, low |-> r0]

(* The last interval would get a high part of its own: it wraps to 0. *)
DecomposeNoWrap(p, x) ==
  LET alpha  == DecomposeBase(p)
      r_plus == PositiveMod(x, p.q)
      r0     == CenteredMod(r_plus, alpha)
  IN  [high |-> (r_plus - r0) \div alpha, low |-> r0]

DecomposeLowKept(p, x) ==
  LET alpha  == DecomposeBase(p)
      r_plus == PositiveMod(x, p.q)
      r0     == CenteredMod(r_plus, alpha)
  IN  IF r_plus - r0 = p.q - 1 THEN [high |-> 0, low |-> r0]
      ELSE [high |-> (r_plus - r0) \div alpha, low |-> r0]

Decompose(p, x) ==
  LET alpha  == DecomposeBase(p)
      r_plus == PositiveMod(x, p.q)
      r0     == CenteredMod(r_plus, alpha)
  IN  IF r_plus - r0 = p.q - 1 THEN [high |-> 0, low |-> r0 - 1]
      ELSE [high |-> (r_plus - r0) \div alpha, low |-> r0]

HighBits(p, x) == Decompose(p, x).high
LowBits(p, x)  == Decompose(p, x).low

HintOf(p, y, x) == HighBits(p, x) # HighBits(p, x + y)

MovedUpAtZero(p, x) ==
  IF LowBits(p, x) >= 0 THEN HighBits(p, x) + 1 ELSE HighBits(p, x) - 1

MovedByHint(p, x) ==
  IF LowBits(p, x) > 0 THEN HighBits(p, x) + 1 ELSE HighBits(p, x) - 1

UseHint(p, h, x) ==
  IF h THEN PositiveMod(MovedByHint(p, x), HighBitsModulus(p)) ELSE HighBits(p, x)

-----------------------------------------------------------------------------
Init ==
  /\ selected \in ParameterSets
  /\ \E sample \in Samples(selected) : r = sample[1] /\ z = sample[2]
  /\ hint = FALSE /\ recovered = 0 /\ pc = "make_hint"

MakeHint ==
  /\ pc = "make_hint"
  /\ hint' = HintOf(selected, z, r)
  /\ pc' = "use_hint"
  /\ UNCHANGED <<selected, r, z, recovered>>

RecoverHighBits ==
  /\ pc = "use_hint"
  /\ recovered' = UseHint(selected, hint, r)
  /\ pc' = "done"
  /\ UNCHANGED <<selected, r, z, hint>>

Next == MakeHint \/ RecoverHighBits

Spec == Init /\ [][Next]_vars

-----------------------------------------------------------------------------
Abs(x) == IF x < 0 THEN -x ELSE x

(* What the verifier recovers from r and the hint is what the signer had: the
   high bits of r + z, for every r and every z up to gamma2, across the wrap
   from q - 1 to 0 too. *)
HintRecovers ==
  pc = "done" /\ Abs(z) <= selected.gamma2 => recovered = HighBits(selected, r + z)

(* Both splittings put r together again modulo q, with the low part within half
   the base, and the high part within the values the packing has room for. *)
Recomposes ==
  LET p == selected
      e == Decompose(p, r)
      t == Power2Round(p, r)
  IN  /\ (e.high * DecomposeBase(p) + e.low - r) % p.q = 0
      /\ Abs(e.low) <= p.gamma2 /\ e.high \in 0 .. HighBitsModulus(p) - 1
      /\ t.high * Power2RoundBase(p) + t.low = r % p.q
      /\ 2 * t.low \in 1 - Power2RoundBase(p) .. Power2RoundBase(p)

(* The rejection test of the signer: a change smaller than the room the low
   part has left never changes the high bits, so no hint is needed. *)
SmallChangesKeepHighBits ==
  Abs(LowBits(selected, r)) + Abs(z) < selected.gamma2 =>
    HighBits(selected, r + z) = HighBits(selected, r)

=============================================================================

------------------------------- MODULE MlDsa -------------------------------
(***************************************************************************)
(* ML-DSA key generation, signing and verification                         *)
(* (cpp/include/pqcore/dsa_internal.hpp): a signer that runs the rejection *)
(* loop one attempt a step, and verifiers that are handed signatures with  *)
(* any key, message and context.  Some of those were altered on the way,   *)
(* and some were put together without a key: this is the code's test flow, *)
(* whose challenge is a hash of public inputs, and acceptance does not say *)
(* that anyone signed.                                                     *)
(*                                                                         *)
(* The seeded expansions are free constructors, so that equal terms are    *)
(* equal bytes.  Messages and contexts stay sequences of bytes, because    *)
(* formatting concatenates them.  A string is full-sized for the parameter *)
(* set in its field `set' and for no other.                                *)
(***************************************************************************)
EXTENDS Integers, Sequences, FiniteSets

CONSTANTS
  ParameterSets,   \* records [name, k, l, omega]
  Seeds,           \* key generation seeds
  Randoms,         \* signing randomness; one constant value when deterministic
  Messages, Contexts,   \* byte sequences
  MaxContext,      \* longest context; 255 in the code, what one byte holds
  Attempts,        \* turns of the rejection loop; 8 in the code
  MaxSigned, MaxAltered, MaxVerified   \* bounds on the calls made

ASSUME ConstantsAssumption ==
  /\ \A p \in ParameterSets : p.k \in Nat \ {0} /\ p.l \in Nat \ {0} /\ p.omega \in Nat
  /\ Messages \subseteq Seq(Nat) /\ Contexts \subseteq Seq(Nat)
  /\ MaxContext \in Nat /\ Attempts \in Nat \ {0, 1}
  /\ MaxSigned \in Nat /\ MaxAltered \in Nat /\ MaxVerified \in Nat

VARIABLES
  pc,        \* "idle", "loop" or "finish"
  call,      \* the arguments of the signing call under way
  attempt, rejected, witness,   \* its locals
  signed,    \* calls that returned: records [call, signature, rejected]
  presented, \* signatures in circulation
  altered,   \* how many of them no signer made
  verified,  \* verifications that answered true: [set, pk, message, context, signature]
  refused    \* the exception of the last call: "none", "context" or "secret key"

signer == <<pc, call, attempt, rejected, witness>>
vars == <<pc, call, attempt, rejected, witness,
          signed, presented, altered, verified, refused>>

-----------------------------------------------------------------------------
(* ml_dsa_format_message: 0, the length in one byte, context, message. *)
FormatWithoutLength(message, context) == <<0>> \o context \o message

Format(message, context) ==
  <<0, Len(context) % (MaxContext + 1)>> \o context \o message

PublicKey(set, seed) == [set |-> set, seed |-> seed]

Tr(pk) == <<"tr", pk>>

SecretKey(set, seed) ==
  [set |-> set, key |-> <<"key", set.name, seed>>, tr |-> Tr(PublicKey(set, seed))]

Mu(set, tr, formatted) == <<"mu", set.name, tr, formatted>>

SigningSeedOfRandom(set, key, random, mu) == <<"rho''", set.name, key, random>>

SigningSeed(set, key, random, mu) == <<"rho''", set.name, key, random, mu>>

Commitment(set, tr, formatted, w) == <<"c", set.name, Mu(set, tr, formatted), w>>

(* A uint16 handed to the expansion. *)
Nonce(a, set) == (a * set.l) % 2^16

(* The witness: response bytes, of which the model keeps where they come from
   and whether all are below the bound 251, and hint bytes, of which it keeps
   how many are not zero.  Fresh from the expansion neither is in order. *)
Expand(seed, nonce, set) ==
  [mask |-> <<seed, nonce>>, bounded |-> FALSE, weight |-> set.omega + set.k]

(* Response bytes modulo 251; the first min(k, omega) hints set, the others not. *)
Normalised(w, set) ==
  [w EXCEPT !.bounded = TRUE, !.weight = IF set.k < set.omega THEN set.k ELSE set.omega]

Accepts(set, pk, formatted, signature) ==
  /\ pk.set = set /\ signature.set = set
  /\ signature.witness.bounded /\ signature.witness.weight <= set.omega
  /\ signature.challenge = Commitment(set, Tr(pk), formatted, signature.witness)

-----------------------------------------------------------------------------
NoCall == [set |-> CHOOSE p \in ParameterSets : TRUE]

Init ==
  /\ pc = "idle" /\ call = NoCall /\ attempt = 0 /\ rejected = 0
  /\ witness = <<>>
  /\ signed = {} /\ presented = {} /\ altered = 0 /\ verified = {} /\ refused = "none"

Sign(set, seed, message, context, random) ==
  /\ pc = "idle" /\ Cardinality(signed) < MaxSigned
  /\ Len(context) <= MaxContext
  /\ call' = [set |-> set, sk |-> SecretKey(set, seed), seed |-> seed,
              message |-> message, context |-> context, random |-> random]
  /\ pc' = "loop" /\ attempt' = 0 /\ rejected' = 0 /\ witness' = <<>>
  /\ refused' = "none"
  /\ UNCHANGED <<signed, presented, altered, verified>>

(* ml_dsa_format_message throws, or the secret key is of another set's size. *)
SignRefused(set, sk_set, context) ==
  /\ pc = "idle"
  /\ \/ Len(context) > MaxContext /\ refused' = "context"
     \/ Len(context) <= MaxContext /\ sk_set # set /\ refused' = "secret key"
  /\ UNCHANGED <<signer, signed, presented, altered, verified>>

Formatted == Format(call.message, call.context)

RhoSecond ==
  SigningSeed(call.set, call.sk.key, call.random, Mu(call.set, call.sk.tr, Formatted))

(* An attempt that is rejected leaves its raw expansion in witness. *)
RejectAnAttempt ==
  /\ pc = "loop" /\ attempt < Attempts
  /\ witness' = Expand(RhoSecond, Nonce(attempt, call.set), call.set)
  /\ rejected' = rejected + 1 /\ attempt' = attempt + 1
  /\ UNCHANGED <<pc, call, signed, presented, altered, verified, refused>>

(* The first attempt is always rejected, no other is. *)
RejectAttempt ==
  /\ pc = "loop" /\ attempt < Attempts /\ attempt = 0
  /\ witness' = Expand(RhoSecond, Nonce(attempt, call.set), call.set)
  /\ rejected' = rejected + 1 /\ attempt' = attempt + 1
  /\ UNCHANGED <<pc, call, signed, presented, altered, verified, refused>>

AcceptAttempt ==
  /\ pc = "loop" /\ attempt < Attempts /\ attempt # 0
  /\ witness' = Normalised(Expand(RhoSecond, Nonce(attempt, call.set), call.set), call.set)
  /\ pc' = "finish"
  /\ UNCHANGED <<call, attempt, rejected, signed, presented, altered, verified, refused>>

(* Behind the loop, left by its break or by its condition. *)
LoopLeft == pc = "finish" \/ (pc = "loop" /\ attempt >= Attempts)

(* The challenge is taken over whatever witness holds then. *)
Return ==
  /\ LoopLeft
  /\ LET signature == [set |-> call.set, witness |-> witness,
           challenge |-> Commitment(call.set, call.sk.tr, Formatted, witness)]
     IN  /\ signed' = signed \cup {[call |-> call, signature |-> signature,
                                    rejected |-> rejected]}
         /\ presented' = presented \cup {signature}
  /\ pc' = "idle" /\ call' = NoCall /\ attempt' = 0 /\ rejected' = 0
  /\ witness' = <<>>
  /\ UNCHANGED <<altered, verified, refused>>

(* Bytes of a signature change on the way: those of the challenge, a response
   byte up to or beyond the bound, or hint bytes set or cleared. *)
Alter(signature) ==
  /\ pc = "idle" /\ altered < MaxAltered /\ altered' = altered + 1 /\ refused' = "none"
  /\ \/ presented' = presented \cup {[signature EXCEPT !.challenge = <<"altered">>]}
     \/ \E bounded \in BOOLEAN :
          presented' = presented \cup
            {[signature EXCEPT !.witness =
                  [@ EXCEPT !.mask = <<"altered">>, !.bounded = bounded]]}
     \/ \E weight \in {0, signature.set.omega + 1} :
          presented' = presented \cup {[signature EXCEPT !.witness.weight = weight]}
  /\ UNCHANGED <<signer, signed, verified>>

(* Nor does it take a key to hash a challenge over a witness: one that is in
   circulation, or one of the sender's own making, in order or not. *)
OwnWitnesses == [mask : {<<"own">>}, bounded : BOOLEAN, weight : {0}]

ComposeWithoutKey(set, pk, message, context) ==
  /\ pc = "idle" /\ altered < MaxAltered /\ altered' = altered + 1 /\ refused' = "none"
  /\ Len(context) <= MaxContext
  /\ \E w \in {p.witness : p \in presented} \cup OwnWitnesses :
       presented' = presented \cup
         {[set |-> set, witness |-> w,
           challenge |-> Commitment(set, Tr(pk), Format(message, context), w)]}
  /\ UNCHANGED <<signer, signed, verified>>

(* Verification takes any lengths and answers false to wrong ones; a context
   the formatting refuses never reaches it. *)
Verify(set, pk, message, context, signature) ==
  /\ pc = "idle" /\ Cardinality(verified) < MaxVerified
  /\ Len(context) <= MaxContext
  /\ verified' = verified \cup
       {v \in {[set |-> set, pk |-> pk, message |-> message, context |-> context,
                signature |-> signature]} :
          Accepts(set, pk, Format(message, context), signature)}
  /\ refused' = "none"
  /\ UNCHANGED <<signer, signed, presented, altered>>

Next ==
  \/ \E set \in ParameterSets, seed \in Seeds, message \in Messages,
        context \in Contexts, random \in Randoms : Sign(set, seed, message, context, random)
  \/ \E set \in ParameterSets, sk_set \in ParameterSets, context \in Contexts :
       SignRefused(set, sk_set, context)
  \/ RejectAttempt \/ AcceptAttempt \/ Return
  \/ \E signature \in presented : Alter(signature)
  \/ \E set \in ParameterSets, seed \in Seeds, message \in Messages, context \in Contexts :
       ComposeWithoutKey(set, PublicKey(set, seed), message, context)
  \/ \E set \in ParameterSets, pk_set \in ParameterSets, seed \in Seeds,
        message \in Messages, context \in Contexts, signature \in presented :
       Verify(set, PublicKey(pk_set, seed), message, context, signature)

Spec == Init /\ [][Next]_vars

-----------------------------------------------------------------------------

(* Whatever way the loop was left, the signature is accepted under the signer's
   own parameter set, public key, message and context. *)
SignedIsAccepted ==
  \A s \in signed :
    Accepts(s.call.set, PublicKey(s.call.set, s.call.seed),
            Format(s.call.message, s.call.context), s.signature)

(* One challenge is accepted for one use only, whoever made it: for one
   parameter set, key, witness and message, and for one way to divide the same
   bytes between context and message. *)
ChallengeFixesTheCall ==
  \A v, w \in verified :
    v.signature.challenge = w.signature.challenge <=>
      /\ v.set = w.set /\ v.pk = w.pk
      /\ v.message = w.message /\ v.context = w.context
      /\ v.signature.witness = w.signature.witness

(* A mask is never used for two messages: two signatures on the same expansion
   output are the same call made twice, also when the randomness is constant. *)
MasksNotShared ==
  \A s, t \in signed :
    s.signature.witness.mask = t.signature.witness.mask => s.call = t.call

=============================================================================

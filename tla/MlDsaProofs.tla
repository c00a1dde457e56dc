---------------------------- MODULE MlDsaProofs ----------------------------
(***************************************************************************)
(* What was signed is accepted, an accepted challenge serves one use only, *)
(* and no mask serves two calls: for any number of parameter sets, keys,   *)
(* messages, contexts, calls and signatures, altered ones and ones made    *)
(* without a key included.                                                 *)
(*                                                                         *)
(* The argument: formatting is injective because of the length byte, so    *)
(* the signing seed and the challenge each determine the call they were    *)
(* made for; the challenge commits to the whole witness; and the loop is   *)
(* left only by its break, with a witness in order.                        *)
(*                                                                         *)
(* Then rounding, for all parameters: splittings recompose, hints recover  *)
(* the high part, small changes keep it.                                   *)
(***************************************************************************)
EXTENDS MlDsa, Coefficients, NaturalFacts, SequenceTheorems, TLAPS

Header(c) == <<0, Len(c)>>

(* A formatted message holds the context length, the context and the message in their places. *)
LEMMA FormatElements ==
  ASSUME NEW m \in Seq(Nat), NEW c \in Seq(Nat), Len(c) <= MaxContext
  PROVE  /\ Len(Format(m, c)) = 2 + Len(c) + Len(m)
         /\ Format(m, c)[2] = Len(c)
         /\ \A k \in 1 .. Len(c) : Format(m, c)[2 + k] = c[k]
         /\ \A k \in 1 .. Len(m) : Format(m, c)[2 + Len(c) + k] = m[k]
<1>1. MaxContext \in Nat /\ Len(c) \in Nat /\ Len(m) \in Nat
  BY ConstantsAssumption
<1>2. Len(c) % (MaxContext + 1) = Len(c)
  <2>1. MaxContext + 1 \in Nat /\ Len(c) \in 0 .. (MaxContext + 1) - 1
    BY <1>1
  <2> QED
    BY <2>1, SmallRemainder
<1>3. Format(m, c) = (Header(c) \o c) \o m
  BY <1>2 DEF Format, Header
<1> DEFINE hd == Header(c)
<1>4. hd \in Seq(Nat) /\ Len(hd) = 2 /\ hd[2] = Len(c)
  BY <1>1 DEF Header
<1> HIDE DEF hd
<1> DEFINE h == hd \o c
<1>5. /\ hd \o c \in Seq(Nat) /\ Len(hd \o c) = Len(hd) + Len(c)
       /\ \A k \in 1 .. Len(hd) + Len(c) :
            (hd \o c)[k] = IF k <= Len(hd) THEN hd[k] ELSE c[k - Len(hd)]
  <2>1. hd \in Seq(Nat) /\ c \in Seq(Nat)
    BY <1>4
  <2> QED
    BY <2>1, ConcatProperties
<1>6. h \in Seq(Nat) /\ Len(h) = 2 + Len(c)
  BY <1>4, <1>5
<1>7. \A k \in 1 .. 2 + Len(c) : h[k] = IF k <= 2 THEN hd[k] ELSE c[k - 2]
  BY <1>4, <1>5
<1> DEFINE f == h \o m
<1> HIDE DEF h
<1>8. Len(f) = 2 + Len(c) + Len(m)
  BY <1>1, <1>6, ConcatProperties
<1>9. \A k \in 1 .. 2 + Len(c) + Len(m) :
        f[k] = IF k <= 2 + Len(c) THEN h[k] ELSE m[k - (2 + Len(c))]
  BY <1>1, <1>6, ConcatProperties
<1> HIDE DEF f
<1>10. f[2] = Len(c)
  BY <1>1, <1>4, <1>7, <1>9
<1>11. \A k \in 1 .. Len(c) : f[2 + k] = c[k]
  <2> SUFFICES ASSUME NEW k \in 1 .. Len(c) PROVE f[2 + k] = c[k]
    OBVIOUS
  <2>1. 2 + k \in 1 .. 2 + Len(c) /\ 2 + k \in 1 .. 2 + Len(c) + Len(m)
        /\ ~(2 + k <= 2) /\ (2 + k) - 2 = k
    BY <1>1
  <2>2. f[2 + k] = h[2 + k]
    BY <1>9, <2>1
  <2>3. h[2 + k] = c[(2 + k) - 2]
    BY <1>7, <2>1
  <2> QED
    BY <2>1, <2>2, <2>3
<1>12. \A k \in 1 .. Len(m) : f[2 + Len(c) + k] = m[k]
  BY <1>1, <1>9
<1>13. Format(m, c) = f
  BY <1>3 DEF f, h, hd
<1> QED
  BY <1>8, <1>10, <1>12, <1>13, <1>11

(* Equal formatted messages have equal contexts and messages. *)
LEMMA FormatInjective ==
  ASSUME NEW m \in Seq(Nat), NEW c \in Seq(Nat), NEW n \in Seq(Nat), NEW d \in Seq(Nat),
         Len(c) <= MaxContext, Len(d) <= MaxContext, Format(m, c) = Format(n, d)
  PROVE  m = n /\ c = d
<1> DEFINE f == Format(m, c)
           g == Format(n, d)
<1>1. Len(f) = 2 + Len(c) + Len(m) /\ f[2] = Len(c)
      /\ (\A k \in 1 .. Len(c) : f[2 + k] = c[k])
      /\ \A k \in 1 .. Len(m) : f[2 + Len(c) + k] = m[k]
  BY FormatElements
<1>2. Len(g) = 2 + Len(d) + Len(n) /\ g[2] = Len(d)
      /\ (\A k \in 1 .. Len(d) : g[2 + k] = d[k])
      /\ \A k \in 1 .. Len(n) : g[2 + Len(d) + k] = n[k]
  BY FormatElements
<1>3. f = g
  OBVIOUS
<1> HIDE DEF f, g
<1>4. Len(c) = Len(d) /\ Len(m) = Len(n)
  BY <1>1, <1>2, <1>3
<1>5. c = d
  BY <1>1, <1>2, <1>3, <1>4, SeqEqual
<1>6. m = n
  BY <1>1, <1>2, <1>3, <1>4, <1>5, SeqEqual
<1>7. QED
  BY <1>5, <1>6
-----------------------------------------------------------------------------
(* The calls a signer can be in: formatting has refused longer contexts. *)
CallOf(set, seed, message, context, random) ==
  [set |-> set, sk |-> SecretKey(set, seed), seed |-> seed,
   message |-> message, context |-> context, random |-> random]

ShortContexts == {context \in Contexts : Len(context) <= MaxContext}

Calls ==
  {CallOf(set, seed, message, context, random) :
     set \in ParameterSets, seed \in Seeds, message \in Messages,
     context \in ShortContexts, random \in Randoms}

FormattedOf(c) == Format(c.message, c.context)

RhoSecondOf(c) ==
  SigningSeed(c.set, c.sk.key, c.random, Mu(c.set, c.sk.tr, FormattedOf(c)))

(* What Normalised leaves of an expansion made for call c. *)
InOrder(w, c) ==
  w.mask[1] = RhoSecondOf(c) /\ w.bounded = TRUE /\ w.weight <= c.set.omega

WellSigned(s) ==
  /\ s.call \in Calls
  /\ s.signature = [set |-> s.call.set, witness |-> s.signature.witness,
                    challenge |-> Commitment(s.call.set, s.call.sk.tr, FormattedOf(s.call),
                                             s.signature.witness)]
  /\ InOrder(s.signature.witness, s.call)

WellVerified(v) ==
  /\ v.message \in Messages /\ v.context \in ShortContexts
  /\ Accepts(v.set, v.pk, Format(v.message, v.context), v.signature)

SignerInv ==
  /\ pc \in {"idle", "loop", "finish"}
  /\ pc # "idle" => call \in Calls
  /\ pc = "loop" => attempt \in {0, 1}
  /\ pc = "finish" => InOrder(witness, call)

SignatureInv ==
  /\ \A s \in signed : WellSigned(s)
  /\ \A v \in verified : WellVerified(v)

IInv == SignerInv /\ SignatureInv

-----------------------------------------------------------------------------
(* A call of the model is put together from its fields. *)
LEMMA CallFields ==
  ASSUME NEW c \in Calls
  PROVE  /\ c = CallOf(c.set, c.seed, c.message, c.context, c.random)
         /\ c.set \in ParameterSets /\ c.seed \in Seeds /\ c.random \in Randoms
         /\ c.message \in Messages /\ c.context \in ShortContexts
         /\ c.sk = SecretKey(c.set, c.seed)
<1>1. PICK set \in ParameterSets, seed \in Seeds, message \in Messages,
           context \in ShortContexts, random \in Randoms :
           c = CallOf(set, seed, message, context, random)
  BY DEF Calls
<1>2. /\ c.set = set /\ c.seed = seed /\ c.message = message /\ c.context = context
      /\ c.random = random /\ c.sk = SecretKey(set, seed)
  BY <1>1 DEF CallOf
<1> QED
  BY <1>1, <1>2

(* So messages and contexts of the model format differently. *)
LEMMA FormatSeparates ==
  ASSUME NEW m \in Messages, NEW c \in ShortContexts,
         NEW n \in Messages, NEW d \in ShortContexts, Format(m, c) = Format(n, d)
  PROVE  m = n /\ c = d
<1>1. m \in Seq(Nat) /\ c \in Seq(Nat) /\ n \in Seq(Nat) /\ d \in Seq(Nat)
  BY ConstantsAssumption DEF ShortContexts
<1>2. Len(c) <= MaxContext /\ Len(d) <= MaxContext
  BY DEF ShortContexts
<1> QED
  BY <1>1, <1>2, FormatInjective

(* Tr binds the public key and so the parameter set. *)
LEMMA TrInjective ==
  ASSUME NEW pk, NEW rk, Tr(pk) = Tr(rk)
  PROVE  pk = rk
BY DEF Tr

(* Equal representatives come from equal key hashes and formatted messages. *)
LEMMA MuInjective ==
  ASSUME NEW set, NEW tr, NEW f, NEW set2, NEW tr2, NEW f2,
         Mu(set, tr, f) = Mu(set2, tr2, f2)
  PROVE  tr = tr2 /\ f = f2
BY DEF Mu

(* A public key has one hash. *)
LEMMA KeyDeterminesTr ==
  ASSUME NEW set, NEW seed
  PROVE  SecretKey(set, seed).tr = Tr(PublicKey(set, seed))
BY DEF SecretKey

(* Equal public keys come from equal seeds. *)
LEMMA PublicKeyInjective ==
  ASSUME NEW set, NEW seed, NEW set2, NEW seed2,
         PublicKey(set, seed) = PublicKey(set2, seed2)
  PROVE  set = set2 /\ seed = seed2
BY DEF PublicKey

(* The signing seed binds everything the call was given: two calls that expand
   the same seed are the same call. *)
LEMMA SigningSeedBindsCall ==
  ASSUME NEW c \in Calls, NEW d \in Calls, RhoSecondOf(c) = RhoSecondOf(d)
  PROVE  c = d
<1> DEFINE mc == Mu(c.set, c.sk.tr, FormattedOf(c))
           md == Mu(d.set, d.sk.tr, FormattedOf(d))
<1>1. SigningSeed(c.set, c.sk.key, c.random, mc) = SigningSeed(d.set, d.sk.key, d.random, md)
  BY DEF RhoSecondOf
<1>2. c.random = d.random /\ mc = md
  <2> HIDE DEF mc, md
  <2> QED
    BY <1>1 DEF SigningSeed
<1>3. c.sk.tr = d.sk.tr /\ FormattedOf(c) = FormattedOf(d)
  BY <1>2, MuInjective
<1>4. /\ c.sk.tr = Tr(PublicKey(c.set, c.seed))
      /\ d.sk.tr = Tr(PublicKey(d.set, d.seed))
  BY CallFields, KeyDeterminesTr
<1>5. PublicKey(c.set, c.seed) = PublicKey(d.set, d.seed)
  BY <1>3, <1>4, TrInjective
<1>6. c.set = d.set /\ c.seed = d.seed
  BY <1>5, PublicKeyInjective
<1>7. c.message = d.message /\ c.context = d.context
  BY <1>3, CallFields, FormatSeparates DEF FormattedOf
<1> QED
  BY <1>2, <1>6, <1>7, CallFields

(* Equal commitments come from equal key hashes, messages and high bits. *)
LEMMA CommitmentInjective ==
  ASSUME NEW set, NEW tr, NEW f, NEW w, NEW set2, NEW tr2, NEW f2, NEW w2,
         Commitment(set, tr, f, w) = Commitment(set2, tr2, f2, w2)
  PROVE  tr = tr2 /\ f = f2 /\ w = w2
<1>1. Mu(set, tr, f) = Mu(set2, tr2, f2) /\ w = w2
  <2> DEFINE a == Mu(set, tr, f)
             b == Mu(set2, tr2, f2)
  <2>1. <<"c", set.name, a, w>> = <<"c", set2.name, b, w2>>
    BY DEF Commitment
  <2> HIDE DEF a, b
  <2>2. a = b /\ w = w2
    BY <2>1
  <2> QED
    BY <2>2 DEF a, b
<1> QED
  BY <1>1, MuInjective

(* Completeness: what a call returned verifies under that call's key, message
   and context. *)
LEMMA WellSignedIsAccepted ==
  ASSUME NEW s, WellSigned(s)
  PROVE  Accepts(s.call.set, PublicKey(s.call.set, s.call.seed), FormattedOf(s.call),
                 s.signature)
<1> DEFINE c == s.call
           pk == PublicKey(c.set, c.seed)
<1>1. c \in Calls /\ c.sk.tr = Tr(pk)
  BY CallFields, KeyDeterminesTr DEF WellSigned
<1>2. pk.set = c.set
  BY DEF PublicKey
<1>3. /\ s.signature.set = c.set
      /\ s.signature.challenge = Commitment(c.set, c.sk.tr, FormattedOf(c), s.signature.witness)
  BY DEF WellSigned
<1>4. s.signature.witness.bounded = TRUE /\ s.signature.witness.weight <= c.set.omega
  BY DEF WellSigned, InOrder
<1> HIDE DEF c, pk
<1>5. Accepts(c.set, pk, FormattedOf(c), s.signature)
  BY <1>1, <1>2, <1>3, <1>4 DEF Accepts
<1> QED
  BY <1>5 DEF c, pk

(* The invariant gives completeness. *)
LEMMA InvGivesCompleteness ==
  ASSUME SignatureInv
  PROVE  SignedIsAccepted
BY WellSignedIsAccepted DEF SignatureInv, SignedIsAccepted, FormattedOf

(* Two verifications that answered true used the same challenge for the same
   arguments, or different ones. *)
LEMMA InvBindsChallenges ==
  ASSUME SignatureInv
  PROVE  ChallengeFixesTheCall
<1> DEFINE Same(v, w) == /\ v.set = w.set /\ v.pk = w.pk
                         /\ v.message = w.message /\ v.context = w.context
                         /\ v.signature.witness = w.signature.witness
<1> SUFFICES ASSUME NEW v \in verified, NEW w \in verified
             PROVE  v.signature.challenge = w.signature.challenge <=> Same(v, w)
  BY DEF ChallengeFixesTheCall
<1>1. WellVerified(v) /\ WellVerified(w)
  BY DEF SignatureInv
<1> DEFINE C(u) == Commitment(u.set, Tr(u.pk), Format(u.message, u.context),
                              u.signature.witness)
<1>2. /\ v.pk.set = v.set /\ w.pk.set = w.set
      /\ v.signature.challenge = C(v) /\ w.signature.challenge = C(w)
  BY <1>1 DEF WellVerified, Accepts
<1>3. ASSUME Same(v, w)
      PROVE  C(v) = C(w)
  BY <1>3
<1>4. ASSUME C(v) = C(w)
      PROVE  Same(v, w)
  <2>1. /\ Tr(v.pk) = Tr(w.pk) /\ v.signature.witness = w.signature.witness
        /\ Format(v.message, v.context) = Format(w.message, w.context)
    BY <1>4, CommitmentInjective
  <2>2. v.pk = w.pk /\ v.set = w.set
    BY <1>2, <2>1, TrInjective
  <2>3. v.message = w.message /\ v.context = w.context
    BY <1>1, <2>1, FormatSeparates DEF WellVerified
  <2> QED
    BY <2>1, <2>2, <2>3
<1> QED
  BY <1>2, <1>3, <1>4

(* The invariant keeps masks apart. *)
LEMMA InvKeepsMasks ==
  ASSUME SignatureInv
  PROVE  MasksNotShared
<1> SUFFICES ASSUME NEW s \in signed, NEW t \in signed,
                    s.signature.witness.mask = t.signature.witness.mask
             PROVE  s.call = t.call
  BY DEF MasksNotShared
<1>1. WellSigned(s) /\ WellSigned(t)
  BY DEF SignatureInv
<1>2. /\ s.call \in Calls /\ s.signature.witness.mask[1] = RhoSecondOf(s.call)
      /\ t.call \in Calls /\ t.signature.witness.mask[1] = RhoSecondOf(t.call)
  BY <1>1 DEF WellSigned, InOrder
<1> QED
  BY <1>2, SigningSeedBindsCall

-----------------------------------------------------------------------------
(* An accepted attempt leaves a witness in order. *)
LEMMA ExpandInOrder ==
  ASSUME NEW c \in Calls, NEW n
  PROVE  InOrder(Normalised(Expand(RhoSecondOf(c), n, c.set), c.set), c)
<1> DEFINE rho == RhoSecondOf(c)
           o == c.set.omega
           k == c.set.k
<1>1. o \in Nat /\ k \in Nat
  BY CallFields, ConstantsAssumption
<1> HIDE DEF rho, o, k
<1> DEFINE e == [mask |-> <<rho, n>>, bounded |-> FALSE, weight |-> o + k]
           w == [e EXCEPT !.bounded = TRUE, !.weight = IF k < o THEN k ELSE o]
<1>2. w.mask = <<rho, n>> /\ w.bounded = TRUE /\ w.weight <= o
  BY <1>1
<1>3. w = Normalised(Expand(RhoSecondOf(c), n, c.set), c.set)
  BY DEF Normalised, Expand, rho, o, k
<1> HIDE DEF w
<1>4. w.mask[1] = rho
  BY <1>2
<1> QED
  BY <1>2, <1>3, <1>4 DEF InOrder, rho, o

(* The inductive invariant holds at first. *)
LEMMA InitInv == Init => IInv
<1> SUFFICES ASSUME Init PROVE IInv
  OBVIOUS
<1>1. SignerInv
  BY DEF Init, SignerInv
<1>2. SignatureInv
  BY DEF Init, SignatureInv
<1> QED
  BY <1>1, <1>2 DEF IInv

(* Every step keeps it. *)
LEMMA StepInv == IInv /\ [Next]_vars => IInv'
<1> SUFFICES ASSUME IInv, [Next]_vars PROVE IInv'
  OBVIOUS
<1>0. SignerInv /\ SignatureInv
  BY DEF IInv
<1>s. ASSUME UNCHANGED signed, UNCHANGED verified
      PROVE  SignatureInv'
  BY <1>0, <1>s DEF SignatureInv, WellSigned, WellVerified
<1>i. ASSUME UNCHANGED signer, UNCHANGED signed, UNCHANGED verified
      PROVE  IInv'
  BY <1>0, <1>i, <1>s DEF IInv, SignerInv, signer
<1>1. ASSUME NEW set \in ParameterSets, NEW seed \in Seeds, NEW message \in Messages,
             NEW context \in Contexts, NEW random \in Randoms,
             Sign(set, seed, message, context, random)
      PROVE  IInv'
  <2>1. call' = CallOf(set, seed, message, context, random) /\ pc' = "loop"
        /\ attempt' = 0 /\ Len(context) <= MaxContext
    BY <1>1 DEF Sign, CallOf
  <2>2. call' \in Calls
    BY <2>1 DEF Calls, ShortContexts
  <2>3. SignerInv'
    BY <2>1, <2>2 DEF SignerInv
  <2>4. SignatureInv'
    BY <1>1, <1>s DEF Sign
  <2> QED
    BY <2>3, <2>4 DEF IInv
<1>2. ASSUME NEW set \in ParameterSets, NEW sk_set \in ParameterSets,
             NEW context \in Contexts, SignRefused(set, sk_set, context)
      PROVE  IInv'
  BY <1>2, <1>i DEF SignRefused
<1>3. CASE RejectAttempt
  <2>1. /\ pc = "loop" /\ pc' = pc /\ call' = call /\ attempt' = 1
    BY <1>3 DEF RejectAttempt
  <2>2. SignerInv'
    BY <1>0, <2>1 DEF SignerInv
  <2>3. SignatureInv'
    BY <1>3, <1>s DEF RejectAttempt
  <2> QED
    BY <2>2, <2>3 DEF IInv
<1>4. CASE AcceptAttempt
  <2>1. pc = "loop" /\ pc' = "finish" /\ call' = call
    BY <1>4 DEF AcceptAttempt
  <2>2. call \in Calls
    BY <1>0, <2>1 DEF SignerInv
  <2>3. witness' = Normalised(Expand(RhoSecondOf(call), Nonce(attempt, call.set), call.set),
                              call.set)
    BY <1>4 DEF AcceptAttempt, RhoSecond, RhoSecondOf, Formatted, FormattedOf
  <2>4. InOrder(witness', call)
    BY <2>2, <2>3, ExpandInOrder
  <2>5. SignerInv'
    BY <2>1, <2>2, <2>4 DEF SignerInv
  <2>6. SignatureInv'
    BY <1>4, <1>s DEF AcceptAttempt
  <2> QED
    BY <2>5, <2>6 DEF IInv
<1>5. CASE Return
  <2> DEFINE sig == [set |-> call.set, witness |-> witness,
                     challenge |-> Commitment(call.set, call.sk.tr, Formatted, witness)]
             s == [call |-> call, signature |-> sig, rejected |-> rejected]
  <2>1. /\ LoopLeft /\ pc' = "idle" /\ signed' = signed \cup {s} /\ verified' = verified
    BY <1>5 DEF Return
  <2>2. pc = "finish"
    <3>1. ~(pc = "loop" /\ attempt >= Attempts)
      BY <1>0, ConstantsAssumption DEF SignerInv
    <3> QED
      BY <2>1, <3>1 DEF LoopLeft
  <2>3. call \in Calls /\ InOrder(witness, call)
    BY <1>0, <2>2 DEF SignerInv
  <2>4. /\ s.call = call /\ s.signature = sig
        /\ sig = [set |-> call.set, witness |-> sig.witness,
                  challenge |-> Commitment(call.set, call.sk.tr, FormattedOf(call),
                                           sig.witness)]
        /\ sig.witness = witness
    BY DEF Formatted, FormattedOf
  <2> HIDE DEF sig, s
  <2>5. WellSigned(s)
    BY <2>3, <2>4 DEF WellSigned
  <2>6. SignerInv'
    BY <2>1 DEF SignerInv
  <2>7. SignatureInv'
    BY <1>0, <2>1, <2>5 DEF SignatureInv, WellSigned, WellVerified
  <2> QED
    BY <2>6, <2>7 DEF IInv
<1>6. ASSUME NEW signature \in presented, Alter(signature)
      PROVE  IInv'
  BY <1>6, <1>i DEF Alter
<1>7. ASSUME NEW set \in ParameterSets, NEW seed \in Seeds, NEW message \in Messages,
             NEW context \in Contexts,
             ComposeWithoutKey(set, PublicKey(set, seed), message, context)
      PROVE  IInv'
  BY <1>7, <1>i DEF ComposeWithoutKey
<1>8. ASSUME NEW set \in ParameterSets, NEW pk_set \in ParameterSets, NEW seed \in Seeds,
             NEW message \in Messages, NEW context \in Contexts, NEW signature \in presented,
             Verify(set, PublicKey(pk_set, seed), message, context, signature)
      PROVE  IInv'
  <2> DEFINE pk == PublicKey(pk_set, seed)
             v == [set |-> set, pk |-> pk, message |-> message, context |-> context,
                   signature |-> signature]
  <2>1. /\ verified' = verified \cup
              {u \in {v} : Accepts(set, pk, Format(message, context), signature)}
        /\ Len(context) <= MaxContext /\ signed' = signed /\ UNCHANGED signer
    BY <1>8 DEF Verify
  <2>2. /\ v.set = set /\ v.pk = pk /\ v.message = message /\ v.context = context
        /\ v.signature = signature
    OBVIOUS
  <2> HIDE DEF v, pk
  <2>3. \A u \in verified' \ verified : WellVerified(u)
    BY <2>1, <2>2 DEF WellVerified, ShortContexts
  <2>4. SignatureInv'
    BY <1>0, <2>1, <2>3 DEF SignatureInv, WellSigned, WellVerified
  <2>5. SignerInv'
    BY <1>0, <2>1 DEF SignerInv, signer
  <2> QED
    BY <2>4, <2>5 DEF IInv
<1>9. CASE UNCHANGED vars
  <2>1. UNCHANGED signer /\ UNCHANGED signed /\ UNCHANGED verified
    BY <1>9 DEF vars, signer
  <2> QED
    BY <1>i, <2>1
<1> QED
  BY <1>1, <1>2, <1>3, <1>4, <1>5, <1>6, <1>7, <1>8, <1>9 DEF Next

(* The inductive invariant of signing and verification. *)
LEMMA Inductive == Spec => []IInv
BY InitInv, StepInv, PTL DEF Spec

(* What a signing call returns is accepted: the loop is left by its break, with
   a bounded response and at most omega hints. *)
THEOREM SigningIsComplete == Spec => []SignedIsAccepted
<1>1. IInv => SignedIsAccepted
  BY InvGivesCompleteness DEF IInv
<1> QED
  BY Inductive, <1>1, PTL

(* An accepted challenge serves one parameter set, key, witness, message and
   context, whoever put the signature together. *)
THEOREM ChallengesAreBound == Spec => []ChallengeFixesTheCall
<1>1. IInv => ChallengeFixesTheCall
  BY InvBindsChallenges DEF IInv
<1> QED
  BY Inductive, <1>1, PTL

(* Two signatures with the same mask came from the same call. *)
THEOREM MasksAreNotShared == Spec => []MasksNotShared
<1>1. IInv => MasksNotShared
  BY InvKeepsMasks DEF IInv
<1> QED
  BY Inductive, <1>1, PTL

-----------------------------------------------------------------------------
(* Rounding and hints (module MlDsaRounding), for every modulus q and every
   gamma2 with (q - 1) / (2 gamma2) a whole number of at least 3. *)
(* A parameter set of the rounding functions, by what they use of it: the
   modulus is alpha * m + 1, with alpha twice gamma2. *)
Dividing(p, m) ==
  /\ p.q \in Nat \ {0} /\ p.gamma2 \in Nat \ {0} /\ m \in Nat /\ m >= 3
  /\ p.q = 2 * p.gamma2 * m + 1
  /\ Rounding!HighBitsModulus(p) = m /\ Rounding!DecomposeBase(p) = 2 * p.gamma2

(* What Decompose promises of a coefficient: high and low part put it together
   modulo q; the low part is within gamma2, its lower end in interval 0 only. *)
Splits(p, m, x, high, low) ==
  /\ high \in 0 .. m - 1 /\ low \in -p.gamma2 .. p.gamma2
  /\ low = -p.gamma2 => high = 0
  /\ \E t \in Int : x = 2 * p.gamma2 * high + low + p.q * t

(* Each parameter set splits q - 1 evenly. *)
LEMMA ParametersDivide ==
  ASSUME Rounding!ParametersAssumption, NEW p \in RoundingSets
  PROVE  \E m \in Nat : Dividing(p, m)
<1> DEFINE alpha == 2 * p.gamma2
           m == (p.q - 1) \div alpha
<1>1. /\ p.q \in Nat /\ p.gamma2 \in Nat \ {0} /\ (p.q - 1) % alpha = 0
      /\ m >= 3 /\ 2^p.d \in 1 .. p.q - 1
  BY DEF Rounding!ParametersAssumption
<1>2. alpha \in Nat \ {0} /\ p.q - 1 \in Int
  BY <1>1
<1>3. p.q - 1 = alpha * m + 0 /\ m \in Int
  <2> HIDE DEF alpha
  <2> QED
    BY <1>1, <1>2, DivisionFacts
<1>4. m = Rounding!HighBitsModulus(p) /\ alpha = Rounding!DecomposeBase(p)
  BY DEF Rounding!HighBitsModulus, Rounding!DecomposeBase
<1> HIDE DEF m
<1>5. p.q = 2 * p.gamma2 * m + 1 /\ p.q # 0 /\ m \in Nat
  BY <1>1, <1>2, <1>3
<1>6. Dividing(p, m)
  BY <1>1, <1>4, <1>5 DEF Dividing
<1> QED
  BY <1>5, <1>6

(* A split with a low part that is its own centred remainder. *)
LEMMA CenteredIsUnique ==
  ASSUME NEW g \in Nat \ {0}, NEW k \in Int, NEW low \in 1 - g .. g, NEW x, x = 2 * g * k + low
  PROVE  Rounding!CenteredMod(x, 2 * g) = low
<1> DEFINE alpha == 2 * g
<1>1. alpha \in Nat \ {0} /\ x \in Int /\ alpha \div 2 = g
  OBVIOUS
<1>2. CASE low >= 0
  <2>1. low \in 0 .. alpha - 1 /\ x = alpha * k + low /\ low <= g
    BY <1>2
  <2> HIDE DEF alpha
  <2>2. x % alpha = low
    BY <1>1, <2>1, QuotientIsUnique
  <2>3. Rounding!CenteredMod(x, alpha) = low
    BY <1>1, <2>1, <2>2 DEF Rounding!CenteredMod, Rounding!PositiveMod
  <2> QED
    BY <2>3 DEF alpha
<1>3. CASE low < 0
  <2> DEFINE rest == low + alpha
             j == k - 1
  <2>1. rest \in 0 .. alpha - 1 /\ rest > g /\ j \in Int
    BY <1>3
  <2>2. x = alpha * j + rest
    <3>1. alpha * (k - 1) = alpha * k - alpha
      BY <1>1
    <3> QED
      BY <3>1
  <2> HIDE DEF rest, j, alpha
  <2>3. x % alpha = rest
    BY <1>1, <2>1, <2>2, QuotientIsUnique
  <2>4. Rounding!CenteredMod(x, alpha) = rest - alpha
    BY <1>1, <2>1, <2>3 DEF Rounding!CenteredMod, Rounding!PositiveMod
  <2>5. rest - alpha = low
    BY <1>1 DEF rest
  <2> QED
    BY <2>4, <2>5 DEF alpha
<1> QED
  BY <1>2, <1>3

(* The parts of a split are the ones Decompose gives. *)
LEMMA SplitIsDecompose ==
  ASSUME NEW p, NEW m, Dividing(p, m), NEW x \in Int, NEW high, NEW low,
         Splits(p, m, x, high, low)
  PROVE  Rounding!Decompose(p, x) = [high |-> high, low |-> low]
<1> DEFINE g == p.gamma2
           alpha == 2 * p.gamma2
           q == p.q
           plus == x % p.q
           r0 == Rounding!CenteredMod(plus, alpha)
<1>1. /\ q \in Nat \ {0} /\ g \in Nat \ {0} /\ m \in Nat /\ m >= 3 /\ q = alpha * m + 1
      /\ alpha = 2 * g /\ Rounding!DecomposeBase(p) = alpha
  BY DEF Dividing
<1>2. PICK t \in Int : x = alpha * high + low + q * t
  BY DEF Splits
<1>3. high \in 0 .. m - 1 /\ low \in -g .. g /\ (low = -g => high = 0)
  BY DEF Splits
<1>4. Rounding!Decompose(p, x) = IF plus - r0 = q - 1 THEN [high |-> 0, low |-> r0 - 1]
                                 ELSE [high |-> (plus - r0) \div alpha, low |-> r0]
  BY <1>1 DEF Rounding!Decompose, Rounding!PositiveMod
<1>5. CASE ~(high = 0 /\ low < 0)
  <2> DEFINE y == alpha * high + low
  <2>1. alpha * high >= alpha \/ high = 0
    BY <1>1, <1>3
  <2>2. alpha * high <= alpha * m - alpha
    <3>1. alpha * high <= alpha * (m - 1)
      BY <1>1, <1>3
    <3> QED
      BY <1>1, <3>1
  <2>3. y \in 0 .. q - 1
    <3> DEFINE ah == alpha * high
               am == alpha * m
    <3>1. ah \in Int /\ am \in Int /\ (ah >= alpha \/ high = 0) /\ (high = 0 => ah = 0)
          /\ ah <= am - alpha /\ q = am + 1 /\ y = ah + low
      BY <1>1, <1>3, <2>1, <2>2
    <3> HIDE DEF ah, am, y
    <3> QED
      BY <1>1, <1>3, <1>5, <3>1
  <2>4. plus = y
    <3>1. x = q * t + y /\ x \in Int /\ q \in Nat \ {0} /\ t \in Int
      BY <1>1, <1>2, <1>3
    <3> HIDE DEF y, q
    <3>2. x % q = y
      BY <2>3, <3>1, QuotientIsUnique
    <3> QED
      BY <3>2 DEF q
  <2>5. r0 = low
    <3>1. low \in 1 - g .. g
      BY <1>1, <1>3, <1>5
    <3>2. plus = 2 * g * high + low /\ high \in Int
      BY <1>1, <1>3, <2>4
    <3> HIDE DEF plus
    <3> QED
      BY <1>1, <3>1, <3>2, CenteredIsUnique DEF r0
  <2>6. plus - r0 = alpha * high + 0
    BY <1>1, <1>3, <2>4, <2>5
  <2>7. alpha * high # q - 1
    BY <1>1, <1>3, <2>2
  <2>8. (plus - r0) \div alpha = high
    <3> DEFINE w == plus - r0
    <3>1. w = alpha * high + 0 /\ w \in Int /\ high \in Int /\ alpha \in Nat \ {0} /\ 0 \in 0 .. alpha - 1
      BY <1>1, <1>3, <2>6
    <3> HIDE DEF w, alpha
    <3> QED
      BY <3>1, QuotientIsUnique DEF w
  <2> HIDE DEF plus, r0, alpha
  <2>9. plus - r0 # q - 1
    BY <1>1, <1>3, <2>6, <2>7
  <2> QED
    BY <1>4, <2>5, <2>8, <2>9
<1>6. CASE high = 0 /\ low < 0
  <2> DEFINE y == q + low
  <2>1. alpha * m >= alpha * 3 /\ alpha * m \in Int
    BY <1>1
  <2>2. y \in 0 .. q - 1
    BY <1>1, <1>3, <1>6, <2>1
  <2>3. plus = y
    <3> DEFINE u == t - 1
    <3>1. q * (t - 1) = q * t - q
      BY <1>1
    <3>2. q * u = q * t - q /\ alpha * high = 0 /\ low \in Int
      BY <1>1, <1>3, <1>6, <3>1
    <3>3. x = q * u + y /\ x \in Int /\ q \in Nat \ {0} /\ u \in Int
      <4> DEFINE qu == q * u
                 qt == q * t
      <4>1. q \in Int /\ qt \in Int /\ qu = qt - q /\ x = low + qt /\ y = q + low
        BY <1>1, <1>2, <3>2
      <4> HIDE DEF qu, qt, y
      <4>2. x = qu + y
        BY <3>2, <4>1
      <4> QED
        BY <1>1, <4>2 DEF qu
    <3> HIDE DEF y, q, u
    <3>4. x % q = y
      BY <2>2, <3>3, QuotientIsUnique
    <3> QED
      BY <3>4 DEF q
  <2>4. r0 = low + 1
    <3>1. low + 1 \in 1 - g .. g
      BY <1>1, <1>3, <1>6
    <3>2. plus = 2 * g * m + (low + 1) /\ m \in Int
      <4>1. q = 2 * g * m + 1 /\ 2 * g * m \in Int /\ low \in Int
        BY <1>1, <1>3
      <4> HIDE DEF plus, q, g
      <4> QED
        BY <1>1, <2>3, <4>1
    <3> DEFINE l == low + 1
    <3> HIDE DEF plus, l
    <3>3. Rounding!CenteredMod(plus, 2 * g) = l
      BY <1>1, <3>1, <3>2, CenteredIsUnique DEF l
    <3> QED
      BY <1>1, <3>3 DEF r0, l
  <2>5. plus - r0 = q - 1
    BY <1>1, <1>3, <2>3, <2>4
  <2>6. r0 - 1 = low
    BY <1>3, <2>4
  <2> HIDE DEF plus, r0, q
  <2> QED
    BY <1>4, <1>6, <2>5, <2>6
<1> QED
  BY <1>5, <1>6

(* Every coefficient has a split. *)
LEMMA SomeSplit ==
  ASSUME NEW p, NEW m, Dividing(p, m), NEW x \in Int
  PROVE  \E high, low : Splits(p, m, x, high, low)
<1> DEFINE g == p.gamma2
           alpha == 2 * p.gamma2
           q == p.q
           plus == x % p.q
           t == x \div p.q
           rest == plus % alpha
           k == plus \div alpha
<1>1. /\ q \in Nat \ {0} /\ g \in Nat \ {0} /\ m \in Nat /\ m >= 3 /\ q = alpha * m + 1
      /\ alpha = 2 * g /\ alpha \in Nat \ {0}
  BY DEF Dividing
<1>2. t \in Int /\ plus \in 0 .. q - 1 /\ x = q * t + plus
  BY <1>1, DivisionFacts
<1> HIDE DEF t, plus
<1>3. k \in Int /\ rest \in 0 .. alpha - 1 /\ plus = alpha * k + rest
  <2>1. plus \in Int
    BY <1>1, <1>2
  <2> HIDE DEF alpha
  <2> QED
    BY <1>1, <2>1, DivisionFacts
<1> HIDE DEF k, rest
<1>4. \E j \in Int, low \in 1 - g .. g : plus = alpha * j + low
  <2>1. CASE rest <= g
    BY <1>1, <1>3, <2>1
  <2>2. CASE rest > g
    <3>1. alpha * (k + 1) = alpha * k + alpha
      <4>1. alpha \in Int /\ k \in Int
        BY <1>1, <1>3
      <4> HIDE DEF alpha
      <4> QED
        BY <4>1, OneMore
    <3> DEFINE j == k + 1
               low == rest - alpha
    <3>2. j \in Int /\ low \in 1 - g .. g /\ plus = alpha * j + low
      BY <1>1, <1>3, <2>2, <3>1
    <3> HIDE DEF j, low
    <3> QED
      BY <3>2
  <2> QED
    BY <1>1, <1>3, <2>1, <2>2
<1>5. PICK j \in Int, low \in 1 - g .. g : plus = alpha * j + low
  BY <1>4
<1>6. j >= 0 /\ j <= m
  <2>1. j <= -1 => alpha * j <= -alpha
    BY <1>1
  <2>2. j >= m + 1 => alpha * j >= alpha * m + alpha
    <3>1. j >= m + 1 => alpha * j >= alpha * (m + 1)
      BY <1>1
    <3>2. alpha * (m + 1) = alpha * m + alpha
      BY <1>1
    <3> QED
      BY <1>1, <3>1, <3>2
  <2> DEFINE aj == alpha * j
             am == alpha * m
  <2>3. /\ aj \in Int /\ am \in Int /\ plus = aj + low /\ q = am + 1 /\ low \in 1 - g .. g
        /\ (j <= -1 => aj <= -alpha) /\ (j >= m + 1 => aj >= am + alpha)
    BY <1>1, <1>5, <2>1, <2>2
  <2> HIDE DEF aj, am
  <2> QED
    BY <1>1, <1>2, <2>3
<1>7. CASE j = m
  <2> DEFINE l == low - 1
             s == t + 1
  <2>1. q * (t + 1) = q * t + q
    <3>1. q \in Int /\ t \in Int
      BY <1>1, <1>2
    <3> HIDE DEF q
    <3> QED
      BY <3>1, OneMore
  <2>2. l \in -g .. g /\ s \in Int /\ 0 \in 0 .. m - 1 /\ alpha * 0 = 0
    BY <1>1, <1>2, <1>5
  <2>3. x = alpha * 0 + l + q * s
    <3> DEFINE qt == q * t
               am == alpha * m
    <3>1. /\ qt \in Int /\ am \in Int /\ x = qt + plus /\ plus = am + low /\ q = am + 1
          /\ q * s = qt + q /\ low \in Int
      BY <1>1, <1>2, <1>5, <1>7, <2>1
    <3> HIDE DEF qt, am, q, s, alpha
    <3> QED
      BY <2>2, <3>1
  <2>4. Splits(p, m, x, 0, l)
    <3> HIDE DEF l, s
    <3> QED
      BY <2>2, <2>3 DEF Splits
  <2> QED
    BY <2>4
<1>8. CASE j # m
  <2>1. j \in 0 .. m - 1 /\ low \in -g .. g /\ low # -g
    BY <1>1, <1>5, <1>6, <1>8
  <2>2. x = alpha * j + low + q * t
    BY <1>1, <1>2, <1>5
  <2>3. Splits(p, m, x, j, low)
    BY <1>2, <2>1, <2>2 DEF Splits
  <2> QED
    BY <2>3
<1> QED
  BY <1>7, <1>8

(* What adding up to gamma2 to a coefficient does to its split: nothing, or a
   move to the neighbouring interval on the side the low part is on. *)
LEMMA SplitOfSum ==
  ASSUME NEW p, NEW m, Dividing(p, m), NEW x \in Int, NEW y \in -p.gamma2 .. p.gamma2,
         NEW high, NEW low, Splits(p, m, x, high, low)
  PROVE  \/ Splits(p, m, x + y, high, low + y)
         \/ /\ low > 0 /\ low + y > p.gamma2
            /\ \E l : Splits(p, m, x + y, IF high = m - 1 THEN 0 ELSE high + 1, l)
         \/ /\ low <= 0 /\ low + y <= -p.gamma2
            /\ \E l : Splits(p, m, x + y, IF high = 0 THEN m - 1 ELSE high - 1, l)
<1> DEFINE g == p.gamma2
           alpha == 2 * p.gamma2
           q == p.q
           am == alpha * m
           ah == alpha * high
<1>1. /\ q \in Nat \ {0} /\ g \in Nat \ {0} /\ m \in Nat /\ m >= 3 /\ q = am + 1
      /\ alpha = 2 * g /\ am \in Int
  BY DEF Dividing
<1>2. high \in 0 .. m - 1 /\ low \in -g .. g /\ (low = -g => high = 0) /\ ah \in Int
  BY <1>1 DEF Splits
<1>3. PICK t \in Int : x = ah + low + q * t
  BY DEF Splits
<1> DEFINE qt == q * t
<1>4. qt \in Int /\ x = ah + low + qt /\ y \in -g .. g /\ x + y = ah + (low + y) + qt
  BY <1>1, <1>2, <1>3
<1>5. ASSUME NEW h \in 0 .. m - 1, NEW l \in -g .. g, l = -g => h = 0, NEW s \in Int,
             NEW a, a = alpha * h, NEW b, b = q * s, x + y = a + l + b
      PROVE  Splits(p, m, x + y, h, l)
  BY <1>5 DEF Splits
<1>6. alpha * (high + 1) = ah + alpha /\ alpha * (high - 1) = ah - alpha
      /\ alpha * (m - 1) = am - alpha /\ alpha * 0 = 0
      /\ q * (t + 1) = qt + q /\ q * (t - 1) = qt - q
  <2>1. q \in Int /\ alpha \in Int /\ t \in Int /\ high \in Int /\ m \in Int
    BY <1>1, <1>2, <1>3
  <2> HIDE DEF q, alpha
  <2> QED
    BY <2>1, OneMore
<1> HIDE DEF am, ah, qt, q, alpha, g
<1>7. CASE low + y > g
  <2>1. low > 0
    BY <1>1, <1>2, <1>4, <1>7
  <2>2. CASE high = m - 1
    <3> DEFINE l == low + y - alpha - 1
               s == t + 1
    <3>1. /\ 0 \in 0 .. m - 1 /\ l \in -g .. g /\ s \in Int /\ q * s = qt + q
          /\ ah = am - alpha
      BY <1>1, <1>2, <1>3, <1>4, <1>6, <1>7, <2>2 DEF ah
    <3>2. x + y = 0 + l + (qt + q)
      BY <1>1, <1>2, <1>4, <3>1
    <3> HIDE DEF l, s
    <3>3. Splits(p, m, x + y, 0, l)
      BY <1>5, <1>6, <3>1, <3>2
    <3> QED
      BY <1>7, <2>1, <2>2, <3>3 DEF g
  <2>3. CASE high # m - 1
    <3> DEFINE l == low + y - alpha
               h == high + 1
    <3>1. h \in 0 .. m - 1 /\ l \in -g .. g /\ l # -g
      BY <1>1, <1>2, <1>4, <1>7, <2>3
    <3>2. x + y = (ah + alpha) + l + qt /\ alpha * h = ah + alpha
      BY <1>1, <1>2, <1>4, <1>6
    <3> HIDE DEF l, h
    <3>3. Splits(p, m, x + y, h, l)
      BY <1>3, <1>5, <3>1, <3>2 DEF qt
    <3> QED
      BY <1>7, <2>1, <2>3, <3>3 DEF g, h
  <2> QED
    BY <2>2, <2>3
<1>8. CASE low + y <= -g /\ ~(low + y = -g /\ high = 0)
  <2>1. low <= 0
    BY <1>1, <1>2, <1>4, <1>8
  <2>2. CASE high = 0
    <3> DEFINE l == low + y + alpha + 1
               s == t - 1
               h == m - 1
    <3>1. /\ h \in 0 .. m - 1 /\ l \in -g .. g /\ l # -g /\ s \in Int /\ q * s = qt - q
          /\ ah = 0 /\ alpha * h = am - alpha
      BY <1>1, <1>2, <1>3, <1>4, <1>6, <1>8, <2>2 DEF ah
    <3>2. x + y = (am - alpha) + l + (qt - q)
      BY <1>1, <1>2, <1>4, <3>1
    <3> HIDE DEF l, s, h
    <3>3. Splits(p, m, x + y, h, l)
      BY <1>5, <3>1, <3>2
    <3> QED
      BY <1>8, <2>1, <2>2, <3>3 DEF g, h
  <2>3. CASE high # 0
    <3> DEFINE l == low + y + alpha
               h == high - 1
    <3>1. h \in 0 .. m - 1 /\ l \in -g .. g /\ l # -g
      BY <1>1, <1>2, <1>4, <1>8, <2>3
    <3>2. x + y = (ah - alpha) + l + qt /\ alpha * h = ah - alpha
      BY <1>1, <1>2, <1>4, <1>6
    <3> HIDE DEF l, h
    <3>3. Splits(p, m, x + y, h, l)
      BY <1>3, <1>5, <3>1, <3>2 DEF qt
    <3> QED
      BY <1>8, <2>1, <2>3, <3>3 DEF g, h
  <2> QED
    BY <2>2, <2>3
<1>9. CASE low + y <= g /\ (low + y > -g \/ (low + y = -g /\ high = 0))
  <2> DEFINE l == low + y
  <2>1. l \in -g .. g /\ (l = -g => high = 0) /\ x + y = ah + l + qt
    BY <1>1, <1>2, <1>4, <1>9
  <2> HIDE DEF l
  <2>2. Splits(p, m, x + y, high, l)
    BY <1>2, <1>3, <1>5, <2>1 DEF ah, qt
  <2> QED
    BY <2>2 DEF l
<1> QED
  BY <1>1, <1>2, <1>4, <1>7, <1>8, <1>9

-----------------------------------------------------------------------------
(* What a hint and what recovers from it come from. *)
RoundingInv ==
  /\ selected \in RoundingSets /\ r \in Int /\ z \in Int
  /\ phase \in {"make_hint", "use_hint", "done"}
  /\ phase # "make_hint" => hint = Rounding!HintOf(selected, z, r)
  /\ phase = "done" => recovered = Rounding!UseHint(selected, hint, r)

(* Each sample is split, hinted and recovered right. *)
LEMMA RoundingHolds == Rounding!ParametersAssumption => (Rounding!Spec => []RoundingInv)
<1> SUFFICES ASSUME Rounding!ParametersAssumption
             PROVE  Rounding!Spec => []RoundingInv
  OBVIOUS
<1>1. Rounding!Init => RoundingInv
  <2> SUFFICES ASSUME Rounding!Init
               PROVE  RoundingInv
    OBVIOUS
  <2>1. selected \in RoundingSets
    BY DEF Rounding!Init
  <2>2. PICK sample \in RoundingSamples(selected) : r = sample[1] /\ z = sample[2]
    BY DEF Rounding!Init
  <2>3. r \in Int /\ z \in Int
    BY <2>1, <2>2 DEF Rounding!ParametersAssumption
  <2> QED
    BY <2>1, <2>3 DEF Rounding!Init, RoundingInv
<1>2. RoundingInv /\ [Rounding!Next]_(Rounding!vars) => RoundingInv'
  <2> SUFFICES ASSUME RoundingInv, [Rounding!Next]_(Rounding!vars)
               PROVE  RoundingInv'
    OBVIOUS
  <2>1. CASE Rounding!MakeHint
    BY <2>1 DEF Rounding!MakeHint, RoundingInv
  <2>2. CASE Rounding!RecoverHighBits
    BY <2>2 DEF Rounding!RecoverHighBits, RoundingInv
  <2>3. CASE UNCHANGED Rounding!vars
    BY <2>3 DEF Rounding!vars, RoundingInv
  <2> QED
    BY <2>1, <2>2, <2>3 DEF Rounding!Next
<1> QED
  BY <1>1, <1>2, PTL DEF Rounding!Spec

(* Adding up to gamma2 keeps the high bits or moves them to the neighbour that
   UseHint moves to. *)
LEMMA MovedByHintIsTheSum ==
  ASSUME NEW p, NEW m, Dividing(p, m), NEW x \in Int, NEW y \in -p.gamma2 .. p.gamma2
  PROVE  \/ Rounding!HighBits(p, x + y) = Rounding!HighBits(p, x)
         \/ Rounding!HighBits(p, x + y)
              = Rounding!PositiveMod(Rounding!MovedByHint(p, x), Rounding!HighBitsModulus(p))
<1>1. PICK high, low : Splits(p, m, x, high, low)
  BY SomeSplit
<1>2. /\ m \in Nat /\ m >= 3 /\ high \in 0 .. m - 1 /\ Rounding!HighBitsModulus(p) = m
      /\ p.gamma2 \in Nat /\ x + y \in Int /\ low \in Int
  BY <1>1 DEF Splits, Dividing
<1>3. Rounding!HighBits(p, x) = high /\ Rounding!LowBits(p, x) = low
  BY <1>1, SplitIsDecompose DEF Rounding!HighBits, Rounding!LowBits
<1>4. ASSUME NEW h, NEW l, Splits(p, m, x + y, h, l)
      PROVE  Rounding!HighBits(p, x + y) = h
  BY <1>2, <1>4, SplitIsDecompose DEF Rounding!HighBits
<1>5. CASE Splits(p, m, x + y, high, low + y)
  BY <1>3, <1>4, <1>5
<1>6. CASE low > 0 /\ \E l : Splits(p, m, x + y, IF high = m - 1 THEN 0 ELSE high + 1, l)
  <2> DEFINE h == IF high = m - 1 THEN 0 ELSE high + 1
  <2>1. Rounding!HighBits(p, x + y) = h
    BY <1>4, <1>6
  <2>2. Rounding!MovedByHint(p, x) = high + 1
    BY <1>3, <1>6 DEF Rounding!MovedByHint
  <2>3. (high + 1) % m = h
    <3> DEFINE x1 == high + 1
               k == IF high = m - 1 THEN 1 ELSE 0
    <3>1. h \in 0 .. m - 1 /\ x1 \in Int /\ k \in Int /\ m \in Nat \ {0} /\ x1 = m * k + h
      BY <1>2
    <3> HIDE DEF h, x1, k
    <3>2. x1 % m = h
      BY <3>1, QuotientIsUnique
    <3> QED
      BY <3>2 DEF x1
  <2> QED
    BY <1>2, <2>1, <2>2, <2>3 DEF Rounding!PositiveMod
<1>7. CASE low <= 0 /\ \E l : Splits(p, m, x + y, IF high = 0 THEN m - 1 ELSE high - 1, l)
  <2> DEFINE h == IF high = 0 THEN m - 1 ELSE high - 1
  <2>1. Rounding!HighBits(p, x + y) = h
    BY <1>4, <1>7
  <2>2. Rounding!MovedByHint(p, x) = high - 1
    BY <1>2, <1>3, <1>7 DEF Rounding!MovedByHint
  <2>3. (high - 1) % m = h
    <3> DEFINE x1 == high - 1
               k == IF high = 0 THEN (-1) ELSE 0
    <3>1. h \in 0 .. m - 1 /\ x1 \in Int /\ k \in Int /\ m \in Nat \ {0} /\ x1 = m * k + h
      BY <1>2
    <3> HIDE DEF h, x1, k
    <3>2. x1 % m = h
      BY <3>1, QuotientIsUnique
    <3> QED
      BY <3>2 DEF x1
  <2> QED
    BY <1>2, <2>1, <2>2, <2>3 DEF Rounding!PositiveMod
<1> QED
  BY <1>1, <1>5, <1>6, <1>7, SplitOfSum

(* The verifier recovers the high bits the signer had. *)
THEOREM HintIsRecovered ==
  Rounding!ParametersAssumption => (Rounding!Spec => []HintRecovers)
<1> SUFFICES ASSUME Rounding!ParametersAssumption
             PROVE  Rounding!Spec => []HintRecovers
  OBVIOUS
<1>1. RoundingInv => HintRecovers
  <2> SUFFICES ASSUME RoundingInv, phase = "done", Rounding!Abs(z) <= selected.gamma2
               PROVE  recovered = Rounding!HighBits(selected, r + z)
    BY DEF HintRecovers, Rounding!HintRecovers
  <2>1. selected \in RoundingSets /\ r \in Int /\ z \in Int
    BY DEF RoundingInv
  <2>2. PICK m \in Nat : Dividing(selected, m)
    BY <2>1, ParametersDivide
  <2>3. selected.gamma2 \in Nat /\ z \in -selected.gamma2 .. selected.gamma2
    BY <2>1, <2>2 DEF Rounding!Abs, Dividing
  <2>4. hint <=> Rounding!HighBits(selected, r) # Rounding!HighBits(selected, r + z)
    BY DEF RoundingInv, Rounding!HintOf
  <2>5. recovered = IF hint THEN Rounding!PositiveMod(Rounding!MovedByHint(selected, r),
                                                      Rounding!HighBitsModulus(selected))
                    ELSE Rounding!HighBits(selected, r)
    BY DEF RoundingInv, Rounding!UseHint
  <2> QED
    BY <2>1, <2>2, <2>3, <2>4, <2>5, MovedByHintIsTheSum
<1> QED
  BY <1>1, RoundingHolds, PTL

(* A change smaller than the room the low part has left keeps the high bits. *)
THEOREM SmallChangesNeedNoHint ==
  Rounding!ParametersAssumption => (Rounding!Spec => []SmallChangesKeepHighBits)
<1> SUFFICES ASSUME Rounding!ParametersAssumption
             PROVE  Rounding!Spec => []SmallChangesKeepHighBits
  OBVIOUS
<1>1. RoundingInv => SmallChangesKeepHighBits
  <2> DEFINE p == selected
             g == selected.gamma2
  <2> SUFFICES ASSUME RoundingInv, Rounding!Abs(Rounding!LowBits(p, r)) + Rounding!Abs(z) < g
               PROVE  Rounding!HighBits(p, r + z) = Rounding!HighBits(p, r)
    BY DEF SmallChangesKeepHighBits, Rounding!SmallChangesKeepHighBits
  <2>1. p \in RoundingSets /\ r \in Int /\ z \in Int
    BY DEF RoundingInv
  <2>2. PICK m \in Nat : Dividing(p, m)
    BY <2>1, ParametersDivide
  <2>3. PICK high, low : Splits(p, m, r, high, low)
    BY <2>1, <2>2, SomeSplit
  <2>4. Rounding!HighBits(p, r) = high /\ Rounding!LowBits(p, r) = low
    BY <2>1, <2>2, <2>3, SplitIsDecompose DEF Rounding!HighBits, Rounding!LowBits
  <2>5. g \in Nat /\ low \in -g .. g
    BY <2>2, <2>3 DEF Dividing, Splits
  <2>6. Rounding!Abs(low) + Rounding!Abs(z) < g
    BY <2>4
  <2>7. z \in -g .. g /\ low + z < g /\ low + z > -g
    BY <2>1, <2>5, <2>6 DEF Rounding!Abs
  <2>8. Splits(p, m, r + z, high, low + z)
    BY <2>1, <2>2, <2>3, <2>5, <2>7, SplitOfSum
  <2>9. Rounding!HighBits(p, r + z) = high
    BY <2>1, <2>2, <2>8, SplitIsDecompose DEF Rounding!HighBits
  <2> QED
    BY <2>4, <2>9
<1> QED
  BY <1>1, RoundingHolds, PTL

(* Both splittings put a coefficient together again, within their bounds. *)
THEOREM SplittingsRecompose ==
  Rounding!ParametersAssumption => (Rounding!Spec => []Recomposes)
<1> SUFFICES ASSUME Rounding!ParametersAssumption
             PROVE  Rounding!Spec => []Recomposes
  OBVIOUS
<1>1. RoundingInv => Recomposes
  <2> DEFINE p == selected
             e == Rounding!Decompose(p, r)
             t == Rounding!Power2Round(p, r)
             base == 2^p.d
             q == p.q
  <2> SUFFICES ASSUME RoundingInv
               PROVE  Recomposes
    OBVIOUS
  <2>1. p \in RoundingSets /\ r \in Int
    BY DEF RoundingInv
  <2>2. PICK m \in Nat : Dividing(p, m)
    BY <2>1, ParametersDivide
  <2>3. PICK high, low : Splits(p, m, r, high, low)
    BY <2>1, <2>2, SomeSplit
  <2>4. e.high = high /\ e.low = low
    BY <2>1, <2>2, <2>3, SplitIsDecompose
  <2>5. /\ p.gamma2 \in Nat \ {0} /\ q \in Nat \ {0} /\ m \in Nat
        /\ high \in 0 .. m - 1 /\ low \in -p.gamma2 .. p.gamma2
        /\ Rounding!HighBitsModulus(p) = m /\ Rounding!DecomposeBase(p) = 2 * p.gamma2
    BY <2>2, <2>3 DEF Dividing, Splits
  <2>6. PICK s \in Int : r = 2 * p.gamma2 * high + low + q * s
    BY <2>3 DEF Splits
  <2>7. (e.high * Rounding!DecomposeBase(p) + e.low - r) % q = 0
    <3> DEFINE c == high * (2 * p.gamma2) + low - r
               k == -s
    <3>1. q * (-s) = -(q * s) /\ high * (2 * p.gamma2) = 2 * p.gamma2 * high
      BY <2>5, <2>6
    <3>2. c = -(q * s) /\ c \in Int
      <4> DEFINE qs == q * s
                 ah == 2 * p.gamma2 * high
      <4>1. r = ah + low + qs /\ ah \in Int /\ qs \in Int /\ low \in Int /\ c = ah + low - r
        BY <2>5, <2>6, <3>1
      <4> HIDE DEF qs, ah, c
      <4>2. c = -qs /\ c \in Int
        BY <4>1
      <4> QED
        BY <4>2 DEF qs
    <3>3. c = q * k + 0 /\ k \in Int /\ 0 \in 0 .. q - 1
      BY <2>5, <2>6, <3>1, <3>2
    <3> HIDE DEF c, k, q
    <3>4. c % q = 0
      BY <2>5, <3>2, <3>3, QuotientIsUnique
    <3> QED
      BY <2>4, <2>5, <3>4 DEF c
  <2>8. Rounding!Abs(e.low) <= p.gamma2 /\ e.high \in 0 .. Rounding!HighBitsModulus(p) - 1
    BY <2>4, <2>5 DEF Rounding!Abs
  <2>9. /\ t.high * base + t.low = r % q
        /\ 2 * t.low \in 1 - base .. base
    <3> DEFINE plus == r % q
               rest == plus % base
               k == plus \div base
               low0 == IF rest > base \div 2 THEN rest - base ELSE rest
               j == IF rest > base \div 2 THEN k + 1 ELSE k
    <3>1. base \in Nat \ {0} /\ plus \in Int
      BY <2>1, <2>5 DEF Rounding!ParametersAssumption
    <3>2. t = [high |-> (plus - low0) \div base, low |-> low0]
      BY DEF Rounding!Power2Round, Rounding!Power2RoundBase, Rounding!CenteredMod,
             Rounding!PositiveMod
    <3> HIDE DEF base, plus
    <3>3. k \in Int /\ rest \in 0 .. base - 1 /\ plus = base * k + rest
      BY <3>1, DivisionFacts
    <3> HIDE DEF k, rest
    <3>4. base * (k + 1) = base * k + base
      BY <3>1, <3>3, OneMore
    <3>5. /\ j \in Int /\ low0 \in Int /\ plus = base * j + low0
          /\ 2 * low0 \in 1 - base .. base
      BY <3>1, <3>3, <3>4
    <3> HIDE DEF j, low0
    <3>6. (plus - low0) \div base = j
      <4> DEFINE w == plus - low0
      <4>1. w = base * j + 0 /\ w \in Int /\ 0 \in 0 .. base - 1
        BY <3>1, <3>5
      <4> HIDE DEF w
      <4> QED
        BY <3>1, <3>5, <4>1, QuotientIsUnique DEF w
    <3>7. t.high = j /\ t.low = low0
      BY <3>2, <3>6
    <3>8. j * base = base * j
      BY <3>1, <3>5
    <3> HIDE DEF t
    <3> QED
      BY <3>5, <3>7, <3>8 DEF plus
  <2> HIDE DEF e, t
  <2> QED
    BY <2>7, <2>8, <2>9 DEF Recomposes, Rounding!Recomposes, Rounding!Power2RoundBase, e, t
<1> QED
  BY <1>1, RoundingHolds, PTL
=============================================================================

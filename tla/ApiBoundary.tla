----------------------------- MODULE ApiBoundary -----------------------------
(***************************************************************************)
(* What a caller can get out of the library, in a build with the test      *)
(* hooks (PQCORE_ENABLE_TEST_SAMPLING) and in a release build: the public  *)
(* functions of kem.hpp and dsa.hpp, entropy requests, the vector harness, *)
(* and the internal hooks with the layout of the keys, ciphertexts and     *)
(* signatures they make and take apart.  Callers keep all they are given   *)
(* and pass it on, to the right function but for any parameter set.        *)
(***************************************************************************)
EXTENDS PublicApi, TestHooks, FiniteSets

CONSTANTS
  Seeds,    \* seeds a caller may use
  MaxMade   \* bound on the strings kept before a call

ASSUME BoundaryAssumption == MaxMade \in Nat

VARIABLES
  build,   \* "test" or "release"
  made,    \* strings that hooks returned: [role, set, parts]
  last     \* the last call: [call, set, given, outcome, reads]

vars == <<build, made, last>>

Placeholders ==
  (UNION {{Zeros("public_key", set, MlKem[set].public_key),
           Zeros("secret_key", set, MlKem[set].secret_key),
           Zeros("ciphertext", set, MlKem[set].ciphertext),
           Zeros("pke_key", set, MlKem[set].k * EncodedBytes(12))} : set \in KemSets}) \cup
  (UNION {{Zeros("public_key", set, MlDsa[set].public_key),
           Zeros("secret_key", set, MlDsa[set].secret_key),
           Zeros("signature", set, MlDsa[set].signature)} : set \in DsaSets})

Held(role) == {s \in made \cup Placeholders : s.role = role}

-----------------------------------------------------------------------------
NoCall == [call |-> "none", set |-> "none", given |-> {}, outcome |-> "none", reads |-> {}]

Init == build \in {"test", "release"} /\ made = {} /\ last = NoCall

Called(call, set, given, outcome, reads) ==
  last' = [call |-> call, set |-> set, given |-> {s.set : s \in given},
           outcome |-> outcome, reads |-> reads]

(* A call of the public API, the entropy source or the harness. *)
Call(call, set, given, outcome) ==
  Called(call, set, given, outcome, {}) /\ UNCHANGED <<build, made>>

KemKeygen(set) == Call("kem keygen", set, {}, ml_kem_keygen(set))

Encapsulate(set, pk) == Call("encapsulate", set, {pk}, ml_kem_encapsulate(set, pk))

Decapsulate(set, sk, ct) == Call("decapsulate", set, {sk, ct}, ml_kem_decapsulate(set, sk, ct))

DsaKeygen(set) == Call("dsa keygen", set, {}, ml_dsa_keygen(set))

Sign(set, sk, context_bytes) ==
  Call("sign", set, {sk}, ml_dsa_sign(set, sk, context_bytes))

Verify(set, pk, signature, context_bytes) ==
  Call("verify", set, {pk, signature}, ml_dsa_verify(set, pk, signature, context_bytes))

RequestEntropy(scheme, set, purpose) ==
  Call("entropy", set, {}, EntropyRequested(scheme, set, purpose))

RandomBytes(bytes) == Call("entropy", "none", {}, ProductionRandomBytes(bytes, 1))

RunPlaceholder(c) == Call("harness", c.set, {}, run_placeholder_vector_case(c))

ValidateMetadata(c) == Call("harness", c.set, {}, validate_official_vector_case_metadata(c))

-----------------------------------------------------------------------------
(* The hooks.  In a release build each is a stub that throws, whatever it is
   given; in a test build it makes strings or answers.  Messages and formatted
   messages are left out: MlKemPke and MlDsa have them. *)
Throws(call, set, given) ==
  build = "release" /\ Called(call, set, given, "logic_error", {}) /\ UNCHANGED <<build, made>>

Makes(call, set, given, reads, strings) ==
  /\ build = "test" /\ Cardinality(made) < MaxMade
  /\ made' = made \cup strings
  /\ Called(call, set, given, "made", reads) /\ UNCHANGED build

Answers(call, set, given, outcome, reads) ==
  build = "test" /\ Called(call, set, given, outcome, reads) /\ UNCHANGED <<build, made>>

(* ml_kem_hash_h_test, ml_kem_g_test, ml_kem_j_test and ml_dsa_hash_tr_test hash
   whatever they are given. *)
HashHook(call) == Throws(call, "none", {}) \/ Answers(call, "none", {}, "digest", {})

PkeKeygenHook(seed) ==
  \/ Throws("pke keygen hook", "kem512", {})
  \/ Makes("pke keygen hook", "kem512", {}, {},
           {Bytes("public_key", "kem512", EncapsulationKey(seed)),
            Bytes("pke_key", "kem512", DecryptionKey(seed))})

(* Encapsulation checks the key, and encryption under it checks it again. *)
Encrypts(call, pk) ==
  \/ Throws(call, "kem512", {pk})
  \/ IF Size(pk.parts) = kMlKem512PublicKeyBytes
     THEN Makes(call, "kem512", {pk}, EncapsulationReads(pk.parts),
                {Bytes("ciphertext", "kem512", Ciphertext(pk.parts))})
     ELSE Answers(call, "kem512", {pk}, "invalid_argument", {})

PkeEncryptHook(pk) == Encrypts("pke encrypt hook", pk)

PkeDecryptHook(key, ct) ==
  \/ Throws("pke decrypt hook", "kem512", {key, ct})
  \/ IF /\ Size(key.parts) = kMlKem512SecretKeyBytes
        /\ Size(ct.parts) = kMlKem512CiphertextBytes
     THEN Answers("pke decrypt hook", "kem512", {key, ct}, "message",
                  DecryptionReads(key.parts, ct.parts))
     ELSE Answers("pke decrypt hook", "kem512", {key, ct}, "invalid_argument", {})

KemKeygenHook(seed) ==
  \/ Throws("kem keygen hook", "kem512", {})
  \/ Makes("kem keygen hook", "kem512", {}, {},
           {Bytes("public_key", "kem512", EncapsulationKey(seed)),
            Bytes("secret_key", "kem512", DecapsulationKey(seed))})

EncapsulateHook(pk) == Encrypts("encapsulate hook", pk)

DecapsulateHook(sk, ct) ==
  \/ Throws("decapsulate hook", "kem512", {sk, ct})
  \/ IF /\ Size(sk.parts) = kMlKem512DecapsulationKeyBytes
        /\ Size(ct.parts) = kMlKem512CiphertextBytes
     THEN Answers("decapsulate hook", "kem512", {sk, ct}, "shared secret",
                  DecapsulationReads(sk.parts, ct.parts))
     ELSE Answers("decapsulate hook", "kem512", {sk, ct}, "invalid_argument", {})

DsaKeygenHook(set, seed) ==
  \/ Throws("dsa keygen hook", set, {})
  \/ Makes("dsa keygen hook", set, {}, {},
           {Bytes("public_key", set, DsaPublicKey(set, seed)),
            Bytes("secret_key", set, DsaSecretKey(set, seed))})

SignHook(set, sk) ==
  \/ Throws("sign hook", set, {sk})
  \/ IF Size(sk.parts) = MlDsa[set].secret_key
     THEN Makes("sign hook", set, {sk}, SigningReads(sk.parts),
                {Bytes("signature", set, SignatureOf(set, sk.parts[1].of))})
     ELSE Answers("sign hook", set, {sk}, "invalid_argument", {})

(* A wrong length is a signature that does not verify. *)
VerifyHook(set, pk, signature) ==
  \/ Throws("verify hook", set, {pk, signature})
  \/ IF /\ Size(pk.parts) = MlDsa[set].public_key
        /\ Size(signature.parts) = MlDsa[set].signature
     THEN Answers("verify hook", set, {pk, signature}, "verdict",
                  VerificationReads(set, signature.parts))
     ELSE Answers("verify hook", set, {pk, signature}, "false", {})

-----------------------------------------------------------------------------
(* Contexts at the limit and over it. *)
ContextSizes == {0, 255, 256}

Sets == KemSets \cup DsaSets \cup {"other"}

PlaceholderCases ==
  [scheme : Schemes \cup {"other"}, set : Sets, expected : {"not_implemented"},
   operation : {"keyGen", "encap", "decap", "sign", "verify", "other"}] \cup
  [scheme : {"ML-KEM"}, set : {"kem512"}, expected : {"shared_secret"}, operation : {"decap"}]

OfficialCases ==
  [id : {"case"}, scheme : Schemes \cup {"other"}, set : Sets, ids : {{1}}, answered : {TRUE},
   mode : {"keyGen", "encapDecap", "sigGen", "sigVer"}] \cup
  [id : {"", "case"}, scheme : {"ML-DSA"}, set : {"dsa65"}, ids : {{0, 1}, {1}},
   answered : BOOLEAN, mode : {"sigVer"}]

CallPublic ==
  \/ \E set \in KemSets :
       \/ KemKeygen(set)
       \/ \E pk \in Held("public_key") : Encapsulate(set, pk)
       \/ \E sk \in Held("secret_key"), ct \in Held("ciphertext") : Decapsulate(set, sk, ct)
  \/ \E set \in DsaSets :
       \/ DsaKeygen(set)
       \/ \E sk \in Held("secret_key"), n \in ContextSizes : Sign(set, sk, n)
       \/ \E pk \in Held("public_key"), s \in Held("signature"), n \in ContextSizes :
            Verify(set, pk, s, n)

CallEntropy ==
  \/ \E scheme \in Schemes, purpose \in UNION {Purposes[s] : s \in Schemes} :
       \E set \in SetsOf(scheme) : RequestEntropy(scheme, set, purpose)
  \/ \E bytes \in {0, 32} : RandomBytes(bytes)

CallHarness ==
  \/ \E c \in PlaceholderCases : RunPlaceholder(c)
  \/ \E c \in OfficialCases : ValidateMetadata(c)

CallHook ==
  \/ \E call \in {"hash_h", "g", "j", "hash_tr"} : HashHook(call)
  \/ \E seed \in Seeds : \/ PkeKeygenHook(seed) \/ KemKeygenHook(seed)
                         \/ \E set \in DsaSets : DsaKeygenHook(set, seed)
  \/ \E pk \in Held("public_key") : PkeEncryptHook(pk) \/ EncapsulateHook(pk)
  \/ \E key \in Held("pke_key"), ct \in Held("ciphertext") : PkeDecryptHook(key, ct)
  \/ \E sk \in Held("secret_key"), ct \in Held("ciphertext") : DecapsulateHook(sk, ct)
  \/ \E set \in DsaSets :
       \/ \E sk \in Held("secret_key") : SignHook(set, sk)
       \/ \E pk \in Held("public_key"), s \in Held("signature") : VerifyHook(set, pk, s)

Next == CallPublic \/ CallEntropy \/ CallHarness \/ CallHook

Spec == Init /\ [][Next]_vars

-----------------------------------------------------------------------------
(* Sizes tell parameter sets apart.  What was made for one set is refused by the
   public functions and the hooks of every other before anything is read of it;
   and what was made for a set is never refused by that set, whichever of the
   sizes it meets: those of the tables, those pke.hpp writes out a second time,
   or those that are computed.  (Signing and verifying refuse long contexts.) *)
SetsKeptApart ==
  last.given # {} =>
    /\ last.outcome \in {"not_implemented", "made", "message", "shared secret", "verdict"} =>
         last.given = {last.set}
    /\ last.outcome \in {"invalid_argument", "false"} /\ last.call \notin {"sign", "verify"} =>
         last.given # {last.set}

(* What a hook made is taken apart where it was put together: each part a
   later call reads is, whole and alone, the part that was stored for it. *)
PartsComeBack ==
  \A r \in last.reads :
    (\A i \in DOMAIN r.from : r.from[i].what # "zeros") => IsAllOf(r.got, r.from, r.want)
=============================================================================

----------------------------- MODULE PublicApi -----------------------------
(***************************************************************************)
(* The functions that are the same in every build: the public API (kem.hpp *)
(* and dsa.hpp), entropy requests (entropy.hpp) and the vector harness     *)
(* (vector_harness.hpp), each by what a call of it ends in.                *)
(***************************************************************************)
EXTENDS Parameters, ByteStrings

Bytes(role, set, parts) == [role |-> role, set |-> set, parts |-> parts]

(* std::vector(n): what the harness passes, and what a caller has of sets
   no hook serves. *)
Zeros(role, set, size) == Bytes(role, set, <<Part("zeros", "none", size)>>)

Thrown == {"invalid_argument", "not_implemented", "logic_error"}

-----------------------------------------------------------------------------
(* The public functions: sizes are checked in this order, then all throw. *)
Checked(wellSized) == IF wellSized THEN "not_implemented" ELSE "invalid_argument"

ml_kem_keygen(set) == "not_implemented"

ml_kem_encapsulate(set, public_key) ==
  Checked(Size(public_key.parts) = MlKem[set].public_key)

ml_kem_decapsulate(set, secret_key, ciphertext) ==
  Checked(/\ Size(secret_key.parts) = MlKem[set].secret_key
          /\ Size(ciphertext.parts) = MlKem[set].ciphertext)

ml_dsa_keygen(set) == "not_implemented"

ml_dsa_sign(set, secret_key, context_bytes) ==
  Checked(Size(secret_key.parts) = MlDsa[set].secret_key /\ context_bytes <= 255)

ml_dsa_verify(set, public_key, signature, context_bytes) ==
  Checked(/\ Size(public_key.parts) = MlDsa[set].public_key
          /\ Size(signature.parts) = MlDsa[set].signature
          /\ context_bytes <= 255)

-----------------------------------------------------------------------------
Schemes == {"ML-KEM", "ML-DSA"}
Purposes ==   \* EntropyPurpose, by scheme
  [scheme \in Schemes |->
     IF scheme = "ML-KEM"
     THEN {"ml-kem-keygen-seed", "ml-kem-implicit-rejection-seed", "ml-kem-encapsulation-seed"}
     ELSE {"ml-dsa-keygen-seed", "ml-dsa-signing-random"}]

(* production_random_bytes *)
ProductionRandomBytes(bytes, strength) ==
  IF bytes = 0 \/ strength = 0 THEN "invalid_argument" ELSE "logic_error"

(* ml_kem_entropy_request and ml_dsa_entropy_request, and the source. *)
EntropyRequested(scheme, set, purpose) ==
  IF purpose \notin Purposes[scheme] THEN "invalid_argument"
  ELSE ProductionRandomBytes(32, IF scheme = "ML-KEM" THEN MlKem[set].strength
                                 ELSE MlDsa[set].strength)

-----------------------------------------------------------------------------
(* vector_harness.hpp.  A case is a record [id, scheme, operation, set, expected]
   for the placeholder runner, [id, scheme, mode, set, ids, answered] for the
   official metadata. *)
KemOperation(operation, set) ==
  CASE operation = "keyGen" -> ml_kem_keygen(set)
    [] operation = "encap"  -> ml_kem_encapsulate(set, Zeros("", set, MlKem[set].public_key))
    [] operation = "decap"  -> ml_kem_decapsulate(set, Zeros("", set, MlKem[set].secret_key),
                                                  Zeros("", set, MlKem[set].ciphertext))
    [] OTHER -> "invalid_argument"

DsaOperation(operation, set) ==
  CASE operation = "keyGen" -> ml_dsa_keygen(set)
    [] operation = "sign"   -> ml_dsa_sign(set, Zeros("", set, MlDsa[set].secret_key), 0)
    [] operation = "verify" -> ml_dsa_verify(set, Zeros("", set, MlDsa[set].public_key),
                                             Zeros("", set, MlDsa[set].signature), 0)
    [] OTHER -> "invalid_argument"

SetsOf(scheme) == CASE scheme = "ML-KEM" -> KemSets [] scheme = "ML-DSA" -> DsaSets [] OTHER -> {}

run_placeholder_vector_case(c) ==
  IF c.expected # "not_implemented" \/ c.set \notin SetsOf(c.scheme) THEN "invalid_argument"
  ELSE LET outcome == IF c.scheme = "ML-KEM" THEN KemOperation(c.operation, c.set)
                      ELSE DsaOperation(c.operation, c.set)
       IN  IF outcome = "not_implemented" THEN "Pending"
           ELSE IF outcome \in Thrown THEN outcome ELSE "Passed"

known_official_mode(scheme, mode) ==
  CASE scheme = "ML-KEM" -> mode \in {"keyGen", "encapDecap"}
    [] scheme = "ML-DSA" -> mode \in {"keyGen", "sigGen", "sigVer"}
    [] OTHER -> FALSE

validate_official_vector_case_metadata(c) ==
  IF /\ c.id # "" /\ known_official_mode(c.scheme, c.mode) /\ c.set \in SetsOf(c.scheme)
     /\ \A id \in c.ids : id > 0
     /\ c.answered
  THEN "Pending" ELSE "invalid_argument"
=============================================================================

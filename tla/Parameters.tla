----------------------------- MODULE Parameters -----------------------------
(***************************************************************************)
(* The parameter sets (cpp/include/pqcore/params.hpp), by the fields that  *)
(* sizes and entropy depend on, the sizes that are written out a second     *)
(* time for ML-KEM-512 (pke.hpp), and those that the code computes.        *)
(***************************************************************************)
EXTENDS Integers

KemRow(k, du, dv, strength, public_key, secret_key, ciphertext) ==
  [k |-> k, du |-> du, dv |-> dv, strength |-> strength,
   public_key |-> public_key, secret_key |-> secret_key, ciphertext |-> ciphertext]

MlKem ==
  [kem512  |-> KemRow(2, 10, 4, 128,  800, 1632,  768),
   kem768  |-> KemRow(3, 10, 4, 192, 1184, 2400, 1088),
   kem1024 |-> KemRow(4, 11, 5, 256, 1568, 3168, 1568)]

DsaRow(k, l, lambda, gamma1, omega, public_key, secret_key, signature) ==
  [k |-> k, l |-> l, strength |-> lambda, gamma1 |-> gamma1, omega |-> omega,
   public_key |-> public_key, secret_key |-> secret_key, signature |-> signature]

MlDsa ==
  [dsa44 |-> DsaRow(4, 4, 128, 2^17, 80, 1312, 2560, 2420),
   dsa65 |-> DsaRow(6, 5, 192, 2^19, 55, 1952, 4032, 3309),
   dsa87 |-> DsaRow(8, 7, 256, 2^19, 75, 2592, 4896, 4627)]

KemSets == DOMAIN MlKem
DsaSets == DOMAIN MlDsa

-----------------------------------------------------------------------------
SeedBytes          == 32   \* kMlKemSeedBytes, kMlDsaSeedBytes, kMlDsaSigningRandomBytes
PublicKeyHashBytes == 64   \* kMlDsaPublicKeyHashBytes

(* ml_kem_byte_encoded_length, of 256 coefficients. *)
EncodedBytes(width) == 32 * width

(* The internal functions of ML-KEM-512 do not look at the table: pke.hpp
   writes the set's sizes out once more. *)
PublicKeyBytesWithoutRho == 768

kMlKem512K               == 2
kMlKem512PublicKeyBytes  == 800
kMlKem512SecretKeyBytes  == 768   \* of the key that decrypts, without the rest of the KEM's
kMlKem512CiphertextBytes == 768

kMlKem512DecapsulationKeyBytes ==
  kMlKem512SecretKeyBytes + kMlKem512PublicKeyBytes + 2 * SeedBytes

BitLength(value) == CHOOSE bits \in 1 .. 30 : value < 2^bits /\ (bits = 1 \/ value >= 2^(bits - 1))

ChallengeBytes(p) == p.strength \div 4
ResponseBytes(p)  == p.l * 32 * (1 + BitLength(p.gamma1 - 1))
HintBytes(p)      == p.omega + p.k
WitnessBytes(p)   == ResponseBytes(p) + HintBytes(p)
=============================================================================

------------------------------ MODULE TestHooks ------------------------------
(***************************************************************************)
(* The layout of what the internal hooks make (kem_internal.hpp,           *)
(* dsa_internal.hpp, pke.hpp) and where they look for its parts.           *)
(***************************************************************************)
EXTENDS Parameters, ByteStrings

(* Keys are made of parts in the order of the inserts. *)
EncapsulationKey(seed) ==
  <<Part("t", seed, kMlKem512K * EncodedBytes(12)), Part("rho", seed, SeedBytes)>>

DecryptionKey(seed) == <<Part("s", seed, kMlKem512K * EncodedBytes(12))>>

DecapsulationKey(seed) ==
  DecryptionKey(seed) \o EncapsulationKey(seed)
    \o <<Part("h", seed, SeedBytes), Part("z", seed, SeedBytes)>>

Ciphertext(ek) ==
  <<Part("u", ek[1].of, kMlKem512K * EncodedBytes(10)), Part("v", ek[1].of, EncodedBytes(4))>>

(* 128 bytes, of which rho and the signing key are taken. *)
Expanded(seed) ==
  <<Part("rho", seed, 32), Part("unused", seed, 64), Part("key", seed, 32)>>

DsaPublicKey(set, seed) ==
  Slice(Expanded(seed), 0, SeedBytes)
    \o <<Part("body", seed, MlDsa[set].public_key - SeedBytes)>>

DsaSecretKey(set, seed) ==
  Slice(Expanded(seed), 0, SeedBytes) \o Slice(Expanded(seed), 96, SeedBytes)
    \o <<Part("tr", seed, PublicKeyHashBytes),
         Part("body", seed, MlDsa[set].secret_key - (2 * SeedBytes + PublicKeyHashBytes))>>

SignatureOf(set, seed) ==
  LET p == MlDsa[set]
  IN  <<Part("challenge", seed, ChallengeBytes(p)), Part("response", seed, ResponseBytes(p)),
        Part("hint", seed, HintBytes(p))>>

(* What the hooks read, as records of what is wanted, where and what was got. *)
Read(want, from, got) == [want |-> want, from |-> from, got |-> got]

EncapsulationReads(ek) ==
  LET t_bytes == kMlKem512K * 384
  IN  {Read({"t"}, ek, Slice(ek, 0, t_bytes)), Read({"rho"}, ek, Slice(ek, t_bytes, SeedBytes))}

CiphertextReads(c) ==
  LET u_bytes == kMlKem512K * EncodedBytes(10)
  IN  {Read({"u"}, c, Slice(c, 0, u_bytes)), Read({"v"}, c, Slice(c, u_bytes, EncodedBytes(4)))}

DecryptionReads(key, c) ==
  {Read({"s"}, key, Slice(key, 0, kMlKem512K * EncodedBytes(12)))} \cup CiphertextReads(c)

DecapsulationReadsHashTwice(dk, c) ==
  LET s_bytes  == kMlKem512SecretKeyBytes
      ek_bytes == kMlKem512PublicKeyBytes
  IN  {Read({"s"}, dk, Slice(dk, 0, s_bytes)), Read({"t", "rho"}, dk, Slice(dk, s_bytes, ek_bytes)),
       Read({"h"}, dk, Slice(dk, s_bytes + ek_bytes, SeedBytes)),
       Read({"z"}, dk, Slice(dk, s_bytes + ek_bytes, SeedBytes))}

DecapsulationReads(dk, c) ==
  LET s_bytes  == kMlKem512SecretKeyBytes
      ek_bytes == kMlKem512PublicKeyBytes
  IN  {Read({"s"}, dk, Slice(dk, 0, s_bytes)),
       Read({"t", "rho"}, dk, Slice(dk, s_bytes, ek_bytes)),
       Read({"h"}, dk, Slice(dk, s_bytes + ek_bytes, SeedBytes)),
       Read({"z"}, dk, Slice(dk, s_bytes + ek_bytes + SeedBytes, SeedBytes))}
        \cup CiphertextReads(c)

SigningReads(sk) ==
  {Read({"key"}, sk, Slice(sk, SeedBytes, SeedBytes)),
   Read({"tr"}, sk, Slice(sk, 2 * SeedBytes, PublicKeyHashBytes))}

VerificationReads(set, signature) ==
  LET p       == MlDsa[set]
      witness == Slice(signature, ChallengeBytes(p), WitnessBytes(p))
  IN  {Read({"challenge"}, signature, Slice(signature, 0, ChallengeBytes(p))),
       Read({"response", "hint"}, signature, witness),
       Read({"response"}, signature, Slice(witness, 0, ResponseBytes(p))),
       Read({"hint"}, signature, Slice(witness, ResponseBytes(p), HintBytes(p)))}
=============================================================================

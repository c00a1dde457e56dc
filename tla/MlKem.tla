------------------------------- MODULE MlKem -------------------------------
(***************************************************************************)
(* ML-KEM-512 key generation, encapsulation and decapsulation with         *)
(* implicit rejection (cpp/include/pqcore/kem_internal.hpp), between any   *)
(* number of key holders and senders over a network that loses, repeats,   *)
(* redirects, truncates and replaces what it carries.                      *)
(*                                                                         *)
(* Byte strings are terms: the hashes H, G and J and the deterministic     *)
(* encryption are free constructors, so equality of terms stands for       *)
(* equality of bytes.  A public key may be re-encoded with coefficients    *)
(* not below q, which decode to the same key (encoding.hpp reduces them):  *)
(* that is the form "alias" of the same seed.                              *)
(***************************************************************************)
EXTENDS Integers, FiniteSets

CONSTANTS
  Seeds,        \* key generation seeds d
  Rejections,   \* implicit rejection seeds z
  Messages,     \* encapsulation seeds m
  ForgedCoins,  \* coins a third party encrypts with; never an output of G
  MaxKeys, MaxSent, MaxOpened, MaxErrors,   \* bounds on the calls made
  MaxTampered   \* bound on what the network changes or makes up

ASSUME BoundsAssumption ==
  MaxKeys \in Nat /\ MaxSent \in Nat /\ MaxOpened \in Nat
  /\ MaxErrors \in Nat /\ MaxTampered \in Nat

VARIABLES
  keys,    \* key pairs generated: records [ek, dk]
  eks,     \* encapsulation keys in circulation, as byte strings
  sent,    \* encapsulations made: records [ek, message, ciphertext, secret]
  wire,    \* ciphertexts in circulation
  tampered,  \* how often the network changed or made up a string
  opened,  \* decapsulations that returned: records [dk, ciphertext, secret]
  errors   \* exceptions thrown: pairs <<call, argument>>

vars == <<keys, eks, sent, wire, tampered, opened, errors>>

-----------------------------------------------------------------------------
(* ml_kem_hash_h, ml_kem_g and ml_kem_j (the _test hooks have their shape). *)
H(ek) == <<"H", ek>>

GWithoutHash(m, h) == [secret |-> <<"K", m, m>>, coins |-> <<"r", m, h>>]

G(m, h) == [secret |-> <<"K", m, h>>, coins |-> <<"r", m, h>>]

JWithoutCiphertext(z, c) == <<"J", z, c.seed>>

J(z, c) == <<"J", z, c>>

(* ml_kem_pke_encrypt_512_test: decodes the key, then is a function of the
   decoded key, the message and the coins.  ml_kem_pke_decrypt_512: the
   message when the key matches, an unpredictable one otherwise. *)
Encrypt(ek, m, coins) ==
  [seed |-> ek.seed, message |-> m, coins |-> coins, size |-> "full"]

Junk(seed, c) == <<"junk", seed, c>>

Decrypt(seed, c) == IF c.seed = seed THEN c.message ELSE Junk(seed, c)

Sizes == {"full", "short"}
EncapsulationKeys == [seed : Seeds, form : {"canonical", "alias"}, size : Sizes]

(* Where a ciphertext's coins come from: G on its message and the hash of the
   key it was made with, or a third party. *)
HonestCoins(c) == {G(c.message, H(ek)).coins : ek \in {k \in EncapsulationKeys : k.seed = c.seed}}

Coins == ForgedCoins \cup {G(m, H(ek)).coins : m \in Messages, ek \in EncapsulationKeys}
Ciphertexts == [seed : Seeds, message : Messages, coins : Coins, size : Sizes]

(* A third party, who does not know a sender's message, does not hit the coins
   G derives from it; nor does decryption under a wrong key hit a message. *)
ASSUME TermsAssumption ==
  /\ \A m \in Messages, ek \in EncapsulationKeys : G(m, H(ek)).coins \notin ForgedCoins
  /\ \A d \in Seeds, c \in Ciphertexts : Junk(d, c) \notin Messages

EncapsulationKey(d) == [seed |-> d, form |-> "canonical", size |-> "full"]

(* dkPKE || ek || H(ek) || z *)
DecapsulationKey(d, z) ==
  [pke |-> d, ek |-> EncapsulationKey(d), h |-> H(EncapsulationKey(d)), z |-> z,
   size |-> "full"]

(* ml_kem_constant_time_equal_mask and ml_kem_select_shared_secret; module
   MaskSelect has them byte by byte. *)
SelectCandidate(c, reencryption, candidate, fallback) == candidate

SelectInverted(c, reencryption, candidate, fallback) ==
  IF c = reencryption THEN fallback ELSE candidate

Select(c, reencryption, candidate, fallback) ==
  IF c = reencryption THEN candidate ELSE fallback

(* What ml_kem_decaps_internal_512_test returns on arguments of full size. *)
Decapsulated(dk, c) ==
  LET recovered == Decrypt(dk.pke, c)
      g         == G(recovered, dk.h)
  IN  Select(c, Encrypt(dk.ek, recovered, g.coins), g.secret, J(dk.z, c))

-----------------------------------------------------------------------------
Init ==
  /\ keys = {} /\ eks = {} /\ sent = {} /\ wire = {} /\ tampered = 0
  /\ opened = {} /\ errors = {}

KeyGen(d, z) ==
  /\ Cardinality(keys) < MaxKeys
  /\ keys' = keys \cup {[ek |-> EncapsulationKey(d), dk |-> DecapsulationKey(d, z)]}
  /\ eks' = eks \cup {EncapsulationKey(d)}
  /\ UNCHANGED <<sent, wire, tampered, opened, errors>>

(* On its way to a sender a public key is cut short or re-encoded. *)
CorruptKey(ek) ==
  /\ tampered < MaxTampered /\ tampered' = tampered + 1
  /\ \/ eks' = eks \cup {[ek EXCEPT !.size = "short"]}
     \/ eks' = eks \cup {[ek EXCEPT !.form = "alias"]}
  /\ UNCHANGED <<keys, sent, wire, opened, errors>>

Encapsulate(ek, m) ==
  /\ ek.size = "full" /\ Cardinality(sent) < MaxSent
  /\ LET g == G(m, H(ek))
         c == Encrypt(ek, m, g.coins)
     IN  /\ sent' = sent \cup {[ek |-> ek, message |-> m, ciphertext |-> c,
                                secret |-> g.secret]}
         /\ wire' = wire \cup {c}
  /\ UNCHANGED <<keys, eks, tampered, opened, errors>>

EncapsulateRefused(ek) ==
  /\ ek.size # "full" /\ Cardinality(errors) < MaxErrors
  /\ errors' = errors \cup {<<"encaps", "key">>}
  /\ UNCHANGED <<keys, eks, sent, wire, tampered, opened>>

(* A third party encrypts a message, perhaps a sender's, with its own coins,
   or cuts a ciphertext short. *)
Forge(ek, m, coins) ==
  /\ tampered < MaxTampered /\ ek.size = "full"
  /\ wire' = wire \cup {Encrypt(ek, m, coins)} /\ tampered' = tampered + 1
  /\ UNCHANGED <<keys, eks, sent, opened, errors>>

Truncate(c) ==
  /\ tampered < MaxTampered
  /\ wire' = wire \cup {[c EXCEPT !.size = "short"]} /\ tampered' = tampered + 1
  /\ UNCHANGED <<keys, eks, sent, opened, errors>>

(* Stored decapsulation keys: the parts may come from different key pairs. *)
Stored ==
  {[pke |-> k1.dk.pke, ek |-> k2.dk.ek, h |-> k3.dk.h, z |-> k4.dk.z, size |-> sz] :
     k1 \in keys, k2 \in keys, k3 \in keys, k4 \in keys, sz \in {"full", "short"}}

Decapsulate(dk, c) ==
  /\ dk.size = "full" /\ c.size = "full" /\ Cardinality(opened) < MaxOpened
  /\ opened' = opened \cup {[dk |-> dk, ciphertext |-> c, secret |-> Decapsulated(dk, c)]}
  /\ UNCHANGED <<keys, eks, sent, wire, tampered, errors>>

(* The key's length is checked before the ciphertext's. *)
DecapsulateRefused(dk, c) ==
  /\ dk.size # "full" \/ c.size # "full"
  /\ Cardinality(errors) < MaxErrors
  /\ errors' = errors \cup {<<"decaps", IF dk.size # "full" THEN "key" ELSE "ciphertext">>}
  /\ UNCHANGED <<keys, eks, sent, wire, tampered, opened>>

Next ==
  \/ \E d \in Seeds, z \in Rejections : KeyGen(d, z)
  \/ \E ek \in eks : CorruptKey(ek)
  \/ \E ek \in eks, m \in Messages : Encapsulate(ek, m)
  \/ \E ek \in eks : EncapsulateRefused(ek)
  \/ \E ek \in eks, m \in Messages, coins \in ForgedCoins : Forge(ek, m, coins)
  \/ \E c \in wire : Truncate(c)
  \/ \E dk \in Stored, c \in wire : Decapsulate(dk, c)
  \/ \E dk \in Stored, c \in wire : DecapsulateRefused(dk, c)

Spec == Init /\ [][Next]_vars

-----------------------------------------------------------------------------
(* A decapsulation key that hangs together, in whatever way it was stored. *)
Consistent(dk, ek) == dk.pke = ek.seed /\ dk.ek.seed = ek.seed /\ dk.h = H(ek)

(* Types of what circulates, down to the terms inside a ciphertext: its
   message is a sender's or a third party's, its coins G's or forged. *)
TypeOK ==
  /\ \A k \in keys : /\ k.dk.pke \in Seeds /\ k.dk.z \in Rejections
                     /\ k.ek = EncapsulationKey(k.dk.pke) /\ Consistent(k.dk, k.ek)
  /\ eks \subseteq EncapsulationKeys
  /\ wire \subseteq Ciphertexts
  /\ \A c \in wire : c.coins \in ForgedCoins \cup HonestCoins(c)
  /\ \A s \in sent : s.ek \in eks /\ s.message \in Messages /\ s.ciphertext \in wire
  /\ \A o \in opened : o.dk \in Stored /\ o.ciphertext \in wire
  /\ tampered \in 0 .. MaxTampered
  /\ errors \subseteq {"encaps", "decaps"} \X {"key", "ciphertext"}

(* Sender and key holder agree: a ciphertext that arrives as it was sent, at
   the holder of the key it was made with, opens to the sender's secret. *)
Agreement ==
  \A s \in sent, o \in opened :
    o.ciphertext = s.ciphertext /\ Consistent(o.dk, s.ek) => o.secret = s.secret

(* Nothing else opens to a sender's secret: not a ciphertext of the same
   message under other coins, not one sent to another key, not a key whose
   parts were mixed up in storage, and not the key a sender was handed in a
   re-encoded form. *)
OnlyTheCiphertextOpens ==
  \A s \in sent, o \in opened :
    o.secret = s.secret => o.ciphertext = s.ciphertext /\ Consistent(o.dk, s.ek)

(* A secret commits to the key and the message it was made for, so a message
   seed used towards two keys gives two secrets. *)
SecretsBoundToKey ==
  \A s, t \in sent : s.secret = t.secret => s.ek = t.ek /\ s.message = t.message

(* Rejected ciphertexts get secrets of their own: two ciphertexts never open
   to the same secret under the same key, rejected or not, and one ciphertext
   always opens to the same secret. *)
OpeningsDistinct ==
  \A o, p \in opened :
    o.dk = p.dk => (o.secret = p.secret <=> o.ciphertext = p.ciphertext)
=============================================================================

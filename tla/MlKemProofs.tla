---------------------------- MODULE MlKemProofs ----------------------------
(***************************************************************************)
(* What module MlKem promises, for every set of seeds and messages and     *)
(* however many calls are made.  The inductive invariant says where each   *)
(* string in circulation came from: a ciphertext from one encryption with  *)
(* coins of its own key or of a third party, a secret from one call.       *)
(***************************************************************************)
EXTENDS MlKem, MaskSelect, TLAPS

(* What a record of an encapsulation holds. *)
SentInv ==
  \A s \in sent :
    /\ s.secret = <<"K", s.message, H(s.ek)>>
    /\ s.ciphertext = [seed |-> s.ek.seed, message |-> s.message,
                       coins |-> <<"r", s.message, H(s.ek)>>, size |-> "full"]

(* What a record of a decapsulation holds. *)
OpenedInv == \A o \in opened : o.secret = Decapsulated(o.dk, o.ciphertext)

IInv == TypeOK /\ SentInv /\ OpenedInv

-----------------------------------------------------------------------------
(* The coins of an encapsulation are honest ones. *)
LEMMA EncryptIsCiphertext ==
  ASSUME NEW ek \in EncapsulationKeys, NEW m \in Messages
  PROVE  /\ Encrypt(ek, m, G(m, H(ek)).coins) \in Ciphertexts
         /\ G(m, H(ek)).coins \in HonestCoins(Encrypt(ek, m, G(m, H(ek)).coins))
<1>1. Encrypt(ek, m, G(m, H(ek)).coins).message = m
  BY DEF Encrypt
<1>2. Encrypt(ek, m, G(m, H(ek)).coins).seed = ek.seed
  BY DEF Encrypt
<1>3. G(m, H(ek)).coins \in Coins
  BY DEF Coins
<1>4. ek.seed \in Seeds
  BY DEF EncapsulationKeys
<1>5. Encrypt(ek, m, G(m, H(ek)).coins) \in Ciphertexts
  <2> DEFINE r == G(m, H(ek)).coins
  <2>1. r \in Coins
    BY <1>3
  <2> HIDE DEF r
  <2> QED
    BY <2>1, <1>4 DEF Encrypt, Ciphertexts, Sizes, r
<1>6. G(m, H(ek)).coins \in HonestCoins(Encrypt(ek, m, G(m, H(ek)).coins))
  <2> DEFINE c == Encrypt(ek, m, G(m, H(ek)).coins)
  <2>1. c.message = m /\ ek \in {k \in EncapsulationKeys : k.seed = c.seed}
    BY <1>1, <1>2
  <2> HIDE DEF c
  <2>2. G(m, H(ek)).coins \in HonestCoins(c)
    BY <2>1 DEF HonestCoins
  <2> QED
    BY <2>2 DEF c
<1> QED
  BY <1>5, <1>6

(* A re-encryption that meets a ciphertext in circulation used the message
   inside it, the right decryption key, and the hash of that very key. *)
LEMMA ValidOpening ==
  ASSUME NEW dk, NEW ek \in EncapsulationKeys, NEW c \in Ciphertexts,
         dk.pke \in Seeds, dk.h = H(ek),
         c.coins \in ForgedCoins \cup HonestCoins(c),
         c = Encrypt(dk.ek, Decrypt(dk.pke, c), G(Decrypt(dk.pke, c), dk.h).coins)
  PROVE  /\ dk.pke = c.seed /\ dk.ek.seed = c.seed /\ ek.seed = c.seed
         /\ Decrypt(dk.pke, c) = c.message
         /\ c.coins = <<"r", c.message, H(ek)>>
         /\ c.size = "full"
<1>1. /\ c.seed = dk.ek.seed /\ c.message = Decrypt(dk.pke, c) /\ c.size = "full"
      /\ c.coins = G(Decrypt(dk.pke, c), dk.h).coins
  BY DEF Encrypt
<1>2. c.message \in Messages
  BY DEF Ciphertexts
<1>3. dk.pke = c.seed
  <2>1. Junk(dk.pke, c) \notin Messages
    BY TermsAssumption
  <2> QED
    BY <2>1, <1>1, <1>2 DEF Decrypt
<1>4. c.coins = G(c.message, H(ek)).coins
  BY <1>1
<1>5. c.coins \notin ForgedCoins
  BY <1>2, <1>4, TermsAssumption
<1>6. PICK k \in EncapsulationKeys : k.seed = c.seed /\ c.coins = G(c.message, H(k)).coins
  BY <1>5 DEF HonestCoins
<1>7. k = ek
  BY <1>4, <1>6 DEF G, H
<1>8. c.coins = <<"r", c.message, H(ek)>>
  BY <1>4 DEF G
<1> QED
  BY <1>1, <1>3, <1>6, <1>7, <1>8

(* Stored keys come from generated ones. *)
LEMMA StoredIsTyped ==
  ASSUME TypeOK, NEW dk \in Stored
  PROVE  /\ dk.pke \in Seeds
         /\ \E ek \in EncapsulationKeys : dk.h = H(ek)
<1>1. PICK k1 \in keys, k2 \in keys, k3 \in keys, k4 \in keys, sz \in {"full", "short"} :
        dk = [pke |-> k1.dk.pke, ek |-> k2.dk.ek, h |-> k3.dk.h, z |-> k4.dk.z, size |-> sz]
  BY DEF Stored
<1>2. dk.pke = k1.dk.pke /\ dk.h = k3.dk.h
  BY <1>1
<1>3. k1.dk.pke \in Seeds /\ k3.dk.pke \in Seeds
  BY DEF TypeOK
<1>4. k3.dk.h = H(k3.ek) /\ k3.ek = EncapsulationKey(k3.dk.pke)
  BY DEF TypeOK, Consistent
<1>5. k3.ek \in EncapsulationKeys
  BY <1>3, <1>4 DEF EncapsulationKey, EncapsulationKeys, Sizes
<1> QED
  BY <1>2, <1>3, <1>4, <1>5

(* Keys that are stored stay stored. *)
LEMMA StoredGrows ==
  ASSUME keys \subseteq keys'
  PROVE  Stored \subseteq Stored'
BY DEF Stored

-----------------------------------------------------------------------------
(* The invariant holds at first; then one lemma per action keeps it. *)
LEMMA InitInv == Init => IInv
BY BoundsAssumption DEF Init, IInv, TypeOK, SentInv, OpenedInv

(* Key generation keeps it: a new key brings both its halves. *)
LEMMA KeyGenInv ==
  ASSUME IInv, NEW d \in Seeds, NEW z \in Rejections, KeyGen(d, z)
  PROVE  IInv'
<1> DEFINE new == [ek |-> EncapsulationKey(d), dk |-> DecapsulationKey(d, z)]
<1>1. /\ keys' = keys \cup {new} /\ eks' = eks \cup {EncapsulationKey(d)}
      /\ UNCHANGED <<sent, wire, tampered, opened, errors>>
  BY DEF KeyGen
<1>2. /\ new.dk.pke \in Seeds /\ new.dk.z \in Rejections
      /\ new.ek = EncapsulationKey(new.dk.pke) /\ Consistent(new.dk, new.ek)
  BY DEF DecapsulationKey, EncapsulationKey, Consistent
<1>3. EncapsulationKey(d) \in EncapsulationKeys
  BY DEF EncapsulationKey, EncapsulationKeys, Sizes
<1>4. Stored \subseteq Stored'
  BY <1>1, StoredGrows
<1> HIDE DEF new
<1>5. TypeOK'
  BY <1>1, <1>2, <1>3, <1>4 DEF IInv, TypeOK
<1> QED
  BY <1>1, <1>5 DEF IInv, SentInv, OpenedInv

(* So does an encapsulation key damaged on the way. *)
LEMMA CorruptKeyInv ==
  ASSUME IInv, NEW ek \in eks, CorruptKey(ek)
  PROVE  IInv'
<1>1. ek \in EncapsulationKeys
  BY DEF IInv, TypeOK
<1>2. /\ [ek EXCEPT !.size = "short"] \in EncapsulationKeys
      /\ [ek EXCEPT !.form = "alias"] \in EncapsulationKeys
  BY <1>1 DEF EncapsulationKeys, Sizes
<1>3. eks \subseteq eks' /\ eks' \subseteq EncapsulationKeys
  BY <1>2 DEF CorruptKey, IInv, TypeOK
<1>4. tampered' \in 0 .. MaxTampered
  BY BoundsAssumption DEF CorruptKey, IInv, TypeOK
<1>5. UNCHANGED <<keys, sent, wire, opened, errors>>
  BY DEF CorruptKey
<1>6. Stored' = Stored
  BY <1>5 DEF Stored
<1>7. TypeOK'
  BY <1>3, <1>4, <1>5, <1>6 DEF IInv, TypeOK
<1> QED
  BY <1>5, <1>7 DEF IInv, SentInv, OpenedInv

(* So does encapsulation: its coins are those G derives. *)
LEMMA EncapsulateInv ==
  ASSUME IInv, NEW ek \in eks, NEW m \in Messages, Encapsulate(ek, m)
  PROVE  IInv'
<1> DEFINE c   == Encrypt(ek, m, G(m, H(ek)).coins)
           new == [ek |-> ek, message |-> m, ciphertext |-> c, secret |-> G(m, H(ek)).secret]
<1>1. /\ sent' = sent \cup {new} /\ wire' = wire \cup {c}
      /\ UNCHANGED <<keys, eks, tampered, opened, errors>>
  BY DEF Encapsulate
<1>2. ek \in EncapsulationKeys
  BY DEF IInv, TypeOK
<1>3. c \in Ciphertexts /\ c.coins \in HonestCoins(c)
  <2>1. c.coins = G(m, H(ek)).coins
    BY DEF Encrypt
  <2> QED
    BY <1>2, <2>1, EncryptIsCiphertext
<1>4. /\ new.secret = <<"K", new.message, H(new.ek)>>
      /\ new.ciphertext = [seed |-> new.ek.seed, message |-> new.message,
                           coins |-> <<"r", new.message, H(new.ek)>>, size |-> "full"]
      /\ new.ek \in eks /\ new.message \in Messages /\ new.ciphertext = c
  BY DEF G, Encrypt
<1>5. Stored' = Stored
  BY <1>1 DEF Stored
<1> HIDE DEF c, new
<1>6. TypeOK'
  BY <1>1, <1>3, <1>4, <1>5 DEF IInv, TypeOK
<1>7. SentInv'
  BY <1>1, <1>4 DEF IInv, SentInv
<1> QED
  BY <1>1, <1>6, <1>7 DEF IInv, OpenedInv

(* So does a ciphertext made with a third party's coins. *)
LEMMA ForgeInv ==
  ASSUME IInv, NEW ek \in eks, NEW m \in Messages, NEW r \in ForgedCoins, Forge(ek, m, r)
  PROVE  IInv'
<1> DEFINE c == Encrypt(ek, m, r)
<1>1. wire' = wire \cup {c} /\ UNCHANGED <<keys, eks, sent, opened, errors>>
  BY DEF Forge
<1>2. ek.seed \in Seeds /\ r \in Coins
  BY DEF IInv, TypeOK, EncapsulationKeys, Coins
<1>3. c \in Ciphertexts /\ c.coins \in ForgedCoins
  BY <1>2 DEF Encrypt, Ciphertexts, Sizes
<1>4. tampered' \in 0 .. MaxTampered
  BY BoundsAssumption DEF Forge, IInv, TypeOK
<1>5. Stored' = Stored
  BY <1>1 DEF Stored
<1> HIDE DEF c
<1>6. TypeOK'
  BY <1>1, <1>3, <1>4, <1>5 DEF IInv, TypeOK
<1> QED
  BY <1>1, <1>6 DEF IInv, SentInv, OpenedInv

(* So does a ciphertext cut short on the way. *)
LEMMA TruncateInv ==
  ASSUME IInv, NEW c \in wire, Truncate(c)
  PROVE  IInv'
<1> DEFINE short == [c EXCEPT !.size = "short"]
<1>1. wire' = wire \cup {short} /\ UNCHANGED <<keys, eks, sent, opened, errors>>
  BY DEF Truncate
<1>2. c \in Ciphertexts /\ c.coins \in ForgedCoins \cup HonestCoins(c)
  BY DEF IInv, TypeOK
<1>3. /\ short \in Ciphertexts /\ short.coins = c.coins
      /\ short.seed = c.seed /\ short.message = c.message
  BY <1>2 DEF Ciphertexts, Sizes
<1>4. tampered' \in 0 .. MaxTampered
  BY BoundsAssumption DEF Truncate, IInv, TypeOK
<1>5. Stored' = Stored
  BY <1>1 DEF Stored
<1> HIDE DEF short
<1>6. short.coins \in ForgedCoins \cup HonestCoins(short)
  BY <1>2, <1>3 DEF HonestCoins
<1>7. TypeOK'
  BY <1>1, <1>3, <1>4, <1>5, <1>6 DEF IInv, TypeOK
<1> QED
  BY <1>1, <1>7 DEF IInv, SentInv, OpenedInv

(* So does decapsulation: the secret it records is the one for its call. *)
LEMMA DecapsulateInv ==
  ASSUME IInv, NEW dk \in Stored, NEW c \in wire, Decapsulate(dk, c)
  PROVE  IInv'
<1> DEFINE new == [dk |-> dk, ciphertext |-> c, secret |-> Decapsulated(dk, c)]
<1>1. opened' = opened \cup {new} /\ UNCHANGED <<keys, eks, sent, wire, tampered, errors>>
  BY DEF Decapsulate
<1>2. /\ new.dk \in Stored /\ new.ciphertext \in wire
      /\ new.secret = Decapsulated(new.dk, new.ciphertext)
  OBVIOUS
<1>3. Stored' = Stored
  BY <1>1 DEF Stored
<1> HIDE DEF new
<1>4. TypeOK'
  BY <1>1, <1>2, <1>3 DEF IInv, TypeOK
<1> QED
  BY <1>1, <1>2, <1>4 DEF IInv, SentInv, OpenedInv

(* So do the calls refused for their sizes. *)
LEMMA RefusedInv ==
  ASSUME IInv,
         \/ \E ek \in eks : EncapsulateRefused(ek)
         \/ \E dk \in Stored, c \in wire : DecapsulateRefused(dk, c)
  PROVE  IInv'
<1>1. UNCHANGED <<keys, eks, sent, wire, tampered, opened>>
  BY DEF EncapsulateRefused, DecapsulateRefused
<1>2. errors' \subseteq {"encaps", "decaps"} \X {"key", "ciphertext"}
  BY DEF EncapsulateRefused, DecapsulateRefused, IInv, TypeOK
<1>3. Stored' = Stored
  BY <1>1 DEF Stored
<1>4. TypeOK'
  BY <1>1, <1>2, <1>3 DEF IInv, TypeOK
<1> QED
  BY <1>1, <1>4 DEF IInv, SentInv, OpenedInv

(* And so does a step that changes nothing. *)
LEMMA StutterInv ==
  ASSUME IInv, UNCHANGED vars
  PROVE  IInv'
<1>1. Stored' = Stored
  BY DEF vars, Stored
<1> QED
  BY <1>1 DEF vars, IInv, TypeOK, SentInv, OpenedInv

(* The invariant holds of every reachable state. *)
LEMMA Inductive == Spec => []IInv
<1>1. ASSUME IInv, [Next]_vars PROVE IInv'
  <2>1. CASE \E d \in Seeds, z \in Rejections : KeyGen(d, z)
    BY <1>1, <2>1, KeyGenInv
  <2>2. CASE \E ek \in eks : CorruptKey(ek)
    BY <1>1, <2>2, CorruptKeyInv
  <2>3. CASE \E ek \in eks, m \in Messages : Encapsulate(ek, m)
    BY <1>1, <2>3, EncapsulateInv
  <2>4. CASE \E ek \in eks : EncapsulateRefused(ek)
    BY <1>1, <2>4, RefusedInv
  <2>5. CASE \E ek \in eks, m \in Messages, coins \in ForgedCoins : Forge(ek, m, coins)
    BY <1>1, <2>5, ForgeInv
  <2>6. CASE \E c \in wire : Truncate(c)
    BY <1>1, <2>6, TruncateInv
  <2>7. CASE \E dk \in Stored, c \in wire : Decapsulate(dk, c)
    BY <1>1, <2>7, DecapsulateInv
  <2>8. CASE \E dk \in Stored, c \in wire : DecapsulateRefused(dk, c)
    BY <1>1, <2>8, RefusedInv
  <2>9. CASE UNCHANGED vars
    BY <1>1, <2>9, StutterInv
  <2> QED
    BY <1>1, <2>1, <2>2, <2>3, <2>4, <2>5, <2>6, <2>7, <2>8, <2>9 DEF Next
<1> QED
  BY <1>1, InitInv, PTL DEF Spec

-----------------------------------------------------------------------------
(* The strings in circulation are those the calls produce: in particular every
   ciphertext's coins are a third party's or G's for a key of its own seed. *)
THEOREM TypeCorrect == Spec => []TypeOK
<1>1. IInv => TypeOK
  BY DEF IInv
<1> QED
  BY <1>1, Inductive, PTL

(* The sender's ciphertext opens, under any stored key that is consistent with
   the sender's encapsulation key, to the sender's secret. *)
THEOREM SenderAndHolderAgree == Spec => []Agreement
<1>1. ASSUME IInv PROVE Agreement
  <2> SUFFICES ASSUME NEW s \in sent, NEW o \in opened,
                      o.ciphertext = s.ciphertext, Consistent(o.dk, s.ek)
               PROVE  o.secret = s.secret
    BY DEF Agreement
  <2> DEFINE c == o.ciphertext
  <2>1. c = [seed |-> s.ek.seed, message |-> s.message,
             coins |-> <<"r", s.message, H(s.ek)>>, size |-> "full"]
    BY <1>1 DEF IInv, SentInv
  <2>2. s.secret = <<"K", s.message, H(s.ek)>> /\ o.secret = Decapsulated(o.dk, c)
    BY <1>1 DEF IInv, SentInv, OpenedInv
  <2>3. Decrypt(o.dk.pke, c) = s.message
    BY <2>1 DEF Decrypt, Consistent
  <2>4. /\ G(s.message, o.dk.h).coins = <<"r", s.message, H(s.ek)>>
        /\ G(s.message, o.dk.h).secret = <<"K", s.message, H(s.ek)>>
    BY DEF G, Consistent
  <2>5. Encrypt(o.dk.ek, s.message, G(s.message, o.dk.h).coins) = c
    BY <2>1, <2>4 DEF Encrypt, Consistent
  <2> HIDE DEF c
  <2> QED
    BY <2>2, <2>3, <2>4, <2>5 DEF Decapsulated, Select
<1> QED
  BY <1>1, Inductive, PTL

(* No other ciphertext and no other key opens to a sender's secret. *)
THEOREM SecretsAreTheSenders == Spec => []OnlyTheCiphertextOpens
<1>1. ASSUME IInv PROVE OnlyTheCiphertextOpens
  <2> SUFFICES ASSUME NEW s \in sent, NEW o \in opened, o.secret = s.secret
               PROVE  o.ciphertext = s.ciphertext /\ Consistent(o.dk, s.ek)
    BY DEF OnlyTheCiphertextOpens
  <2> DEFINE c == o.ciphertext
             m == Decrypt(o.dk.pke, c)
  <2>1. /\ s.secret = <<"K", s.message, H(s.ek)>>
        /\ s.ciphertext = [seed |-> s.ek.seed, message |-> s.message,
                           coins |-> <<"r", s.message, H(s.ek)>>, size |-> "full"]
        /\ o.secret = Decapsulated(o.dk, c)
    BY <1>1 DEF IInv, SentInv, OpenedInv
  <2>2. /\ c \in Ciphertexts /\ c.coins \in ForgedCoins \cup HonestCoins(c)
        /\ o.dk \in Stored /\ s.ek \in EncapsulationKeys
    BY <1>1 DEF IInv, TypeOK
  <2>3. o.secret # J(o.dk.z, c)
    BY <2>1 DEF J
  <2>4. /\ c = Encrypt(o.dk.ek, m, G(m, o.dk.h).coins)
        /\ o.secret = G(m, o.dk.h).secret
    BY <2>1, <2>3 DEF Decapsulated, Select
  <2>5. m = s.message /\ o.dk.h = H(s.ek)
    BY <2>1, <2>4 DEF G
  <2>6. o.dk.pke \in Seeds
    BY <1>1, <2>2, StoredIsTyped DEF IInv
  <2>7. /\ o.dk.pke = c.seed /\ o.dk.ek.seed = c.seed /\ s.ek.seed = c.seed
        /\ m = c.message /\ c.coins = <<"r", c.message, H(s.ek)>> /\ c.size = "full"
    BY <2>2, <2>4, <2>5, <2>6, ValidOpening
  <2>8. c = s.ciphertext
    BY <2>1, <2>2, <2>5, <2>7 DEF Ciphertexts
  <2> QED
    BY <2>5, <2>7, <2>8 DEF Consistent
<1> QED
  BY <1>1, Inductive, PTL

(* Equal triples have equal parts. *)
LEMMA TripleInjective ==
  ASSUME NEW x, NEW y, NEW z, NEW u, NEW v, NEW w, <<x, y, z>> = <<u, v, w>>
  PROVE  x = u /\ y = v /\ z = w
OBVIOUS

(* Every secret names its key and its message. *)
THEOREM SecretsAreBound == Spec => []SecretsBoundToKey
<1>1. ASSUME IInv PROVE SecretsBoundToKey
  <2> SUFFICES ASSUME NEW s \in sent, NEW t \in sent, s.secret = t.secret
               PROVE  s.ek = t.ek /\ s.message = t.message
    BY DEF SecretsBoundToKey
  <2>1. /\ s.secret = <<"K", s.message, H(s.ek)>>
        /\ t.secret = <<"K", t.message, H(t.ek)>>
    BY <1>1 DEF IInv, SentInv
  <2>2. <<"K", s.message, H(s.ek)>> = <<"K", t.message, H(t.ek)>>
    BY <2>1
  <2>3. s.message = t.message /\ H(s.ek) = H(t.ek)
    BY <2>2, TripleInjective
  <2> QED
    BY <2>3 DEF H
<1> QED
  BY <1>1, Inductive, PTL

(* The two ways a decapsulation returns. *)
LEMMA SecretOfEitherKind ==
  ASSUME NEW dk, NEW c
  PROVE  \/ /\ c = Encrypt(dk.ek, Decrypt(dk.pke, c), <<"r", Decrypt(dk.pke, c), dk.h>>)
            /\ Decapsulated(dk, c) = <<"K", Decrypt(dk.pke, c), dk.h>>
         \/ Decapsulated(dk, c) = <<"J", dk.z, c>>
BY DEF Decapsulated, Select, G, J

(* Under one key, different ciphertexts open to different secrets, also when
   one or both of them are rejected. *)
THEOREM OpeningsDiffer == Spec => []OpeningsDistinct
<1>1. ASSUME IInv PROVE OpeningsDistinct
  <2> SUFFICES ASSUME NEW o \in opened, NEW p \in opened, o.dk = p.dk
               PROVE  o.secret = p.secret <=> o.ciphertext = p.ciphertext
    BY DEF OpeningsDistinct
  <2> DEFINE c == o.ciphertext
             e == p.ciphertext
             m == Decrypt(o.dk.pke, c)
             n == Decrypt(o.dk.pke, e)
             h == o.dk.h
  <2>1. o.secret = Decapsulated(o.dk, c) /\ p.secret = Decapsulated(o.dk, e)
    BY <1>1 DEF IInv, OpenedInv
  <2>2. \/ c = Encrypt(o.dk.ek, m, <<"r", m, h>>) /\ o.secret = <<"K", m, h>>
        \/ o.secret = <<"J", o.dk.z, c>>
    BY <2>1, SecretOfEitherKind
  <2>3. \/ e = Encrypt(o.dk.ek, n, <<"r", n, h>>) /\ p.secret = <<"K", n, h>>
        \/ p.secret = <<"J", o.dk.z, e>>
    BY <2>1, SecretOfEitherKind
  <2>4. c = e => o.secret = p.secret
    BY <2>1
  <2>5. ASSUME o.secret = p.secret PROVE c = e
    <3> HIDE DEF c, e, m, n, h
    <3>1. CASE /\ c = Encrypt(o.dk.ek, m, <<"r", m, h>>) /\ o.secret = <<"K", m, h>>
               /\ e = Encrypt(o.dk.ek, n, <<"r", n, h>>) /\ p.secret = <<"K", n, h>>
      <4>1. <<"K", m, h>> = <<"K", n, h>>
        BY <2>5, <3>1
      <4>2. m = n
        BY <4>1
      <4> QED
        BY <3>1, <4>2
    <3>2. CASE o.secret = <<"J", o.dk.z, c>> /\ p.secret = <<"J", o.dk.z, e>>
      <4>1. <<"J", o.dk.z, c>> = <<"J", o.dk.z, e>>
        BY <2>5, <3>2
      <4>2. \A x, y, u, v, w : <<"J", x, y>> = <<u, v, w>> => y = w
        BY TripleInjective
      <4> QED
        BY <4>1, <4>2
    <3>3. CASE o.secret = <<"K", m, h>> /\ p.secret = <<"J", o.dk.z, e>>
      <4>1. <<"K", m, h>> = <<"J", o.dk.z, e>>
        BY <2>5, <3>3
      <4> QED
        BY <4>1
    <3>4. CASE o.secret = <<"J", o.dk.z, c>> /\ p.secret = <<"K", n, h>>
      <4>1. <<"J", o.dk.z, c>> = <<"K", n, h>>
        BY <2>5, <3>4
      <4> QED
        BY <4>1
    <3> QED
      BY <2>2, <2>3, <3>1, <3>2, <3>3, <3>4
  <2> QED
    BY <2>4, <2>5
<1> QED
  BY <1>1, Inductive, PTL

-----------------------------------------------------------------------------
(* The comparison and the selection inside a decapsulation (module MaskSelect),
   byte by byte: for every byte and word width and every length, the mask and
   the two loops are one selection.  The inductive invariant adds to the
   checked ones what each loop has done so far. *)
LoopsSoFar ==
  /\ pc = "lengths" => index = 0 /\ diff = {} /\ selected = <<>>
  /\ pc = "compare" => diff = Differences(index) /\ selected = <<>>
  /\ pc \in {"select", "returned"} =>
       Len(selected) = index /\ \A i \in 1 .. index : selected[i] = Chosen[i]
  /\ pc = "returned" => index = SecretBytes

ComparisonInv == ComparisonTypeOK /\ MaskDecides /\ NoEarlyExit /\ LoopsSoFar

-----------------------------------------------------------------------------
(* The arithmetic of the mask: all bits for an empty word, none for another. *)
LEMMA MaskOfNoDifference == EqualMask({}) = 0 .. ByteBits - 1
<1>1. Negate({}, WordBits) = {}
  BY DEF Negate
<1>2. ShiftRight({} \cup Negate({}, WordBits), WordBits - 1) = {}
  BY <1>1 DEF ShiftRight
<1>3. Xor({}, {0}) = {0}
  BY DEF Xor
<1>4. Negate({0}, WordBits) = 0 .. WordBits - 1
  BY WidthsAssumption DEF Negate
<1>5. (0 .. WordBits - 1) \cap (0 .. ByteBits - 1) = 0 .. ByteBits - 1
  BY WidthsAssumption
<1>6. EqualMask({}) = Negate({0}, WordBits) \cap (0 .. ByteBits - 1)
  BY <1>2, <1>3, Zenon DEF EqualMask
<1> QED
  BY <1>4, <1>5, <1>6

(* A nonzero difference has its own sign bit or that of its negation. *)
LEMMA MaskOfDifference ==
  ASSUME NEW word \in Bytes, word # {}
  PROVE  EqualMask(word) = {}
<1> DEFINE top == WordBits - 1
<1> DEFINE signed == word \cup Negate(word, WordBits)
<1>1. top \in signed
  <2>1. PICK a \in word : TRUE
    OBVIOUS
  <2>2. a \in 0 .. top
    BY <2>1, WidthsAssumption DEF Bytes
  <2>3. CASE top \in word
    BY <2>3
  <2>4. CASE top \notin word
    BY <2>1, <2>2, <2>4, WidthsAssumption DEF Negate
  <2> QED
    BY <2>3, <2>4
<1>2. signed \subseteq 0 .. top
  <2>1. word \subseteq 0 .. ByteBits - 1 /\ 0 .. ByteBits - 1 \subseteq 0 .. top
    BY WidthsAssumption DEF Bytes
  <2>2. Negate(word, WordBits) \subseteq 0 .. top
    BY DEF Negate
  <2> QED
    BY <2>1, <2>2
<1>3. ShiftRight(word \cup Negate(word, WordBits), WordBits - 1) = {0}
  BY <1>1, <1>2, WidthsAssumption DEF ShiftRight
<1>4. Xor({0}, {0}) = {}
  BY DEF Xor
<1>5. Negate({}, WordBits) = {}
  BY DEF Negate
<1>6. EqualMask(word) = {} \cap (0 .. ByteBits - 1)
  BY <1>3, <1>4, <1>5, Zenon DEF EqualMask
<1> QED
  BY <1>6

(* Two bytes differ in no bit exactly when they are equal. *)
LEMMA XorEmpty ==
  ASSUME NEW x, NEW y
  PROVE  Xor(x, y) = {} <=> x = y
BY DEF Xor

(* Two strings of one length differ somewhere or are equal. *)
LEMMA NoDifferences ==
  ASSUME ComparisonTypeOK, Len(lhs) = Len(rhs)
  PROVE  Differences(Len(lhs)) = {} <=> lhs = rhs
<1>1. lhs \in Seq(Bytes) /\ rhs \in Seq(Bytes)
  BY WidthsAssumption DEF ComparisonTypeOK
<1>2. lhs = rhs <=> \A i \in 1 .. Len(lhs) : lhs[i] = rhs[i]
  BY <1>1
<1>3. Differences(Len(lhs)) = {} <=> \A i \in 1 .. Len(lhs) : Xor(lhs[i], rhs[i]) = {}
  <2> DEFINE n == Len(lhs)
             D(i) == Xor(lhs[i], rhs[i])
  <2>1. Differences(n) = UNION {D(i) : i \in 1 .. n}
    BY DEF Differences
  <2> HIDE DEF n, D
  <2>2. UNION {D(i) : i \in 1 .. n} = {} <=> \A i \in 1 .. n : D(i) = {}
    OBVIOUS
  <2> QED
    BY <2>1, <2>2 DEF n, D
<1> QED
  BY <1>2, <1>3, XorEmpty

(* One more byte adds its own differing bits. *)
LEMMA DifferencesGrow ==
  ASSUME NEW n \in Nat
  PROVE  Differences(n + 1) = Differences(n) \cup Xor(lhs[n + 1], rhs[n + 1])
<1>1. 1 .. n + 1 = (1 .. n) \cup {n + 1}
  OBVIOUS
<1> QED
  BY <1>1 DEF Differences

(* A byte selected with the mask is the chosen secret's. *)
LEMMA SelectedByte ==
  ASSUME ComparisonTypeOK, mask = (IF lhs = rhs THEN 0 .. ByteBits - 1 ELSE {}),
         NEW i \in 1 .. SecretBytes
  PROVE  /\ (candidate[i] \cap mask) \cup (fallback[i] \cap ((0 .. ByteBits - 1) \ mask)) = Chosen[i]
         /\ Chosen[i] \in Bytes
<1>1. candidate[i] \in Bytes /\ fallback[i] \in Bytes
  BY WidthsAssumption DEF ComparisonTypeOK
<1> QED
  BY <1>1 DEF Bytes, Chosen

-----------------------------------------------------------------------------
(* The invariant of the comparison holds when it starts, *)
LEMMA ComparisonStarts == ComparisonInit => ComparisonInv
<1> SUFFICES ASSUME ComparisonInit PROVE ComparisonInv
  OBVIOUS
<1>1. lhs \in Seq(Bytes) /\ rhs \in Seq(Bytes)
  BY WidthsAssumption DEF ComparisonInit
<1> QED
  BY <1>1, WidthsAssumption
  DEF ComparisonInit, ComparisonInv, ComparisonTypeOK, MaskDecides, NoEarlyExit, LoopsSoFar, Bytes

(* every step of its two loops keeps it, *)
LEMMA ComparisonKept == ComparisonInv /\ [ComparisonNext]_comparisonVars => ComparisonInv'
<1> SUFFICES ASSUME ComparisonInv, [ComparisonNext]_comparisonVars PROVE ComparisonInv'
  OBVIOUS
<1>0. lhs \in Seq(Bytes) /\ rhs \in Seq(Bytes) /\ ComparisonTypeOK
  BY WidthsAssumption DEF ComparisonInv, ComparisonTypeOK
<1>1. CASE CheckLengths
  <2>1. Differences(0) = {}
    BY DEF Differences
  <2>2. ComparisonTypeOK'
    BY <1>0, <1>1 DEF ComparisonInv, ComparisonTypeOK, CheckLengths, args, LoopsSoFar
  <2>3. (MaskDecides /\ NoEarlyExit)'
    BY <1>1 DEF MaskDecides, NoEarlyExit, CheckLengths
  <2>4. LoopsSoFar'
    BY <2>1, <1>0, <1>1 DEF ComparisonInv, LoopsSoFar, CheckLengths, args, Differences
  <2> QED
    BY <2>2, <2>3, <2>4 DEF ComparisonInv
<1>2. CASE CompareByte
  <2>1. index \in Nat /\ Len(lhs) = Len(rhs) /\ diff \in Bytes
    BY <1>0, <1>2 DEF ComparisonTypeOK, CompareByte
  <2>2. lhs[index + 1] \in Bytes /\ rhs[index + 1] \in Bytes
    BY <1>0, <1>2, <2>1 DEF CompareByte
  <2>3. diff' \in Bytes
    BY <1>2, <2>1, <2>2 DEF CompareByte, Bytes, Xor
  <2>4. ComparisonTypeOK'
    BY <1>0, <1>2, <2>1, <2>3 DEF ComparisonTypeOK, CompareByte, args
  <2>5. (MaskDecides /\ NoEarlyExit)'
    BY <1>2 DEF MaskDecides, NoEarlyExit, CompareByte
  <2>6. diff' = Differences(index + 1)
    BY <1>2, <2>1, DifferencesGrow DEF ComparisonInv, LoopsSoFar, CompareByte
  <2>7. LoopsSoFar'
    BY <1>2, <2>6 DEF ComparisonInv, LoopsSoFar, CompareByte, args, Differences
  <2> QED
    BY <2>4, <2>5, <2>7 DEF ComparisonInv
<1>3. CASE FinishMask
  <2>1. Len(lhs) = Len(rhs) /\ diff \in Bytes /\ diff = Differences(Len(lhs))
    BY <1>0, <1>3 DEF ComparisonInv, ComparisonTypeOK, LoopsSoFar, FinishMask
  <2>2. diff = {} <=> lhs = rhs
    BY <1>0, <2>1, NoDifferences
  <2>3. mask' = IF lhs = rhs THEN 0 .. ByteBits - 1 ELSE {}
    BY <1>3, <2>1, <2>2, MaskOfNoDifference, MaskOfDifference DEF FinishMask
  <2>4. ComparisonTypeOK'
    BY <1>0, <1>3, <2>3, WidthsAssumption DEF ComparisonTypeOK, FinishMask, args, Bytes
  <2>5. MaskDecides' /\ NoEarlyExit'
    BY <1>3, <2>1, <2>3 DEF MaskDecides, NoEarlyExit, FinishMask, args, Differences
  <2>6. LoopsSoFar'
    BY <1>3 DEF ComparisonInv, LoopsSoFar, FinishMask, args
  <2> QED
    BY <2>4, <2>5, <2>6 DEF ComparisonInv
<1>4. CASE SelectByte
  <2>1. mask = IF lhs = rhs THEN 0 .. ByteBits - 1 ELSE {}
    BY <1>4 DEF ComparisonInv, MaskDecides, SelectByte
  <2>2. index \in Nat /\ index + 1 \in 1 .. SecretBytes /\ selected \in Seq(Bytes)
    BY <1>0, <1>4, WidthsAssumption DEF ComparisonTypeOK, SelectByte
  <2>3. selected' = Append(selected, Chosen[index + 1]) /\ Chosen[index + 1] \in Bytes
    BY <1>0, <1>4, <2>1, <2>2, SelectedByte DEF SelectByte
  <2>4. ComparisonTypeOK'
    <3>1. selected' \in Seq(Bytes)
      BY <2>2, <2>3
    <3>2. index' \in Nat /\ index' <= SecretBytes
      BY <1>4, <2>2, WidthsAssumption DEF SelectByte
    <3> QED
      BY <1>0, <1>4, <3>1, <3>2 DEF ComparisonTypeOK, SelectByte, args
  <2>5. MaskDecides' /\ NoEarlyExit'
    BY <1>4 DEF ComparisonInv, MaskDecides, NoEarlyExit, SelectByte, args, Differences
  <2>6. Len(selected) = index /\ \A i \in 1 .. index : selected[i] = Chosen[i]
    BY <1>4 DEF ComparisonInv, LoopsSoFar, SelectByte
  <2>7. Chosen' = Chosen
    BY <1>4 DEF SelectByte, args, Chosen
  <2>8. Len(selected') = index + 1 /\ \A i \in 1 .. index + 1 : selected'[i] = Chosen[i]
    BY <2>2, <2>3, <2>6
  <2>9. LoopsSoFar'
    BY <1>4, <2>7, <2>8 DEF LoopsSoFar, SelectByte
  <2> QED
    BY <2>4, <2>5, <2>9 DEF ComparisonInv
<1>5. CASE Return
  <2>1. ComparisonTypeOK'
    BY <1>0, <1>5 DEF ComparisonTypeOK, Return, args
  <2>2. MaskDecides' /\ NoEarlyExit' /\ LoopsSoFar'
    BY <1>5 DEF ComparisonInv, MaskDecides, NoEarlyExit, LoopsSoFar, Return, args, Differences,
        Chosen
  <2> QED
    BY <2>1, <2>2 DEF ComparisonInv
<1>6. CASE UNCHANGED comparisonVars
  BY <1>6 DEF ComparisonInv, ComparisonTypeOK, MaskDecides, NoEarlyExit, LoopsSoFar,
      comparisonVars, args, Differences, Chosen
<1> QED
  BY <1>1, <1>2, <1>3, <1>4, <1>5, <1>6 DEF ComparisonNext

(* and so it holds all along. *)
LEMMA ComparisonHolds == ComparisonSpec => []ComparisonInv
BY ComparisonStarts, ComparisonKept, PTL DEF ComparisonSpec

(* ml_kem_constant_time_equal_mask and ml_kem_select_shared_secret stay within
   their types: the word of differences never outgrows a byte. *)
THEOREM ComparisonIsTyped == ComparisonSpec => []ComparisonTypeOK
BY ComparisonHolds, PTL DEF ComparisonInv

(* The mask has all its bits when the ciphertexts are equal and none otherwise,
   whatever the widths of bytes and words. *)
THEOREM MaskIsWhole == ComparisonSpec => []MaskDecides
BY ComparisonHolds, PTL DEF ComparisonInv

(* The comparison has read both strings to the end before anything is
   selected. *)
THEOREM ComparisonIsComplete == ComparisonSpec => []NoEarlyExit
BY ComparisonHolds, PTL DEF ComparisonInv

-----------------------------------------------------------------------------
(* What has been selected when the loop ends is one of the two secrets. *)
LEMMA SelectedSecret ==
  ASSUME ComparisonInv, pc = "select", index = SecretBytes
  PROVE  selected = Chosen
<1>1. Chosen \in [1 .. SecretBytes -> Bytes]
  BY WidthsAssumption DEF ComparisonInv, ComparisonTypeOK, Chosen
<1>2. /\ selected \in Seq(Bytes) /\ Len(selected) = SecretBytes
      /\ \A i \in 1 .. SecretBytes : selected[i] = Chosen[i]
  BY DEF ComparisonInv, ComparisonTypeOK, LoopsSoFar
<1> QED
  BY <1>1, <1>2

(* The masks and loops of kem_internal.hpp implement one-step selection: they
   return the candidate secret exactly when the ciphertexts are equal. *)
THEOREM SelectionImplemented == ComparisonSpec => Implements
<1>1. ComparisonInit => Promised!Init
  BY DEF ComparisonInit, Promised!Init, outcome
<1>2. ComparisonInv /\ ComparisonInv' /\ [ComparisonNext]_comparisonVars
        => [Promised!Return]_<<lhs, rhs, candidate, fallback, outcome>>
  <2> SUFFICES ASSUME ComparisonInv, ComparisonInv', [ComparisonNext]_comparisonVars
               PROVE  [Promised!Return]_<<lhs, rhs, candidate, fallback, outcome>>
    OBVIOUS
  <2>1. CASE CheckLengths
    BY <2>1 DEF CheckLengths, args, outcome, Promised!Return
  <2>2. CASE CompareByte \/ FinishMask \/ SelectByte
    BY <2>2 DEF CompareByte, FinishMask, SelectByte, args, outcome
  <2>3. CASE Return
    <3>1. Len(lhs) = Len(rhs)
      BY <2>3 DEF ComparisonInv, ComparisonTypeOK, Return
    <3>2. selected = Chosen
      BY <2>3, SelectedSecret DEF Return
    <3>3. outcome = <<"running">> /\ outcome' = <<"selected", selected>>
      BY <2>3 DEF Return, outcome
    <3> QED
      BY <2>3, <3>1, <3>2, <3>3 DEF Return, args, Chosen, Promised!Return
  <2>4. CASE UNCHANGED comparisonVars
    BY <2>4 DEF comparisonVars, args, outcome
  <2> QED
    BY <2>1, <2>2, <2>3, <2>4 DEF ComparisonNext
<1> QED
  BY <1>1, <1>2, ComparisonHolds, PTL DEF ComparisonSpec, Implements, Promised!Spec, Promised!vars
=============================================================================

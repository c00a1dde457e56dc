------------------------------ MODULE MlKemPke ------------------------------
(***************************************************************************)
(* K-PKE of ML-KEM-512 (cpp/include/pqcore/pke.hpp): the lattice           *)
(* arithmetic that module MlKem takes as a term.  Polynomials are held by  *)
(* their coefficients, since module Ntt shows that multiplying transforms  *)
(* is multiplying in Z_q[X]/(X^N + 1).  Byte strings are sequences of      *)
(* fields, one per coefficient or seed: module ByteCodec packs them.  The  *)
(* seeded expansion is a random oracle on exactly the bytes it absorbs.    *)
(***************************************************************************)
EXTENDS Field, Sequences, FiniteSets, Functions

CONSTANTS
  N,              \* coefficients of a polynomial; 256 in the code
  Eta1, Eta2,     \* noise widths; 3 and 2
  Du, Dv,         \* widths of compressed coefficients; 10 and 4
  Stream(_, _),   \* Stream(input, i): the i-th number expanded from absorbed bytes
  KeygenSeeds, Coins, Messages,
  MaxKeys, MaxSent, MaxDecrypted   \* bounds on the calls made

K == 2   \* kMlKem512K

ASSUME PkeAssumption ==
  /\ N \in Nat \ {0} /\ Q \in Nat \ {0} /\ Eta1 \in Nat /\ Eta2 \in Nat
  /\ Messages \subseteq Seq({0, 1})

VARIABLES
  keys,        \* key pairs made: records [ek, dk, drawn]
  sent,        \* encryptions made: records [ek, message, ciphertext, drawn]
  decrypted,   \* decryptions made: records [dk, ciphertext, message]
  refused      \* what the last call refused: "none", "key", "message" or "ciphertext"

vars == <<keys, sent, decrypted, refused>>

Index   == 0 .. N - 1
Ranks   == 0 .. K - 1

-----------------------------------------------------------------------------
(* deterministic_test_expand absorbs a domain name, a zero byte, the seed and
   a nonce of two bytes.  Domain names are numbers other than zero. *)
GDomain   == 1
PrfDomain == 2
XofDomain == 3

GInput(d) == <<GDomain, 0, d, K, 0>>

(* ml_kem_prf_test: the nonce arrives as one byte, eta only as a length. *)
PrfInput(seed, nonce) == <<PrfDomain, 0, seed, nonce % 256, 0>>

(* ml_kem_xof_test on ml_kem_pke_matrix_seed: column and row twice. *)
XofInputRowOnly(rho, column, row) == <<XofDomain, 0, rho, row, row, row, row>>

XofInput(rho, column, row) == <<XofDomain, 0, rho, column, row, column, row>>

(* The two halves of G's output. *)
ExpandedSeeds(d) == [rho |-> Stream(GInput(d), 0), sigma |-> Stream(GInput(d), 1)]

(* ml_kem_sample_ntt and ml_kem_sample_poly_cbd on an expanded stream. *)
Uniform(input) == [i \in Index |-> Stream(input, i) % Q]

Noise(input, eta) == [i \in Index |-> ((Stream(input, i) % (2 * eta + 1)) - eta) % Q]

MatrixInputs(rho) == [at \in Ranks \X Ranks |-> XofInput(rho, at[2], at[1])]

NoiseInputs(seed, first_nonce, count) ==
  [i \in 0 .. count - 1 |-> PrfInput(seed, first_nonce + i)]

NoiseVector(inputs, eta) == [i \in DOMAIN inputs |-> Noise(inputs[i], eta)]

-----------------------------------------------------------------------------
(* Polynomial::add, sub, schoolbook_mul_negacyclic; ml_kem_ntt_add. *)
Add(p, r) == [i \in Index |-> Plus(p[i], r[i])]

Sub(p, r) == [i \in Index |-> Minus(p[i], r[i])]

Mul(p, r) ==
  [k \in Index |->
     Normalize(SumFunction([i \in Index |->
       IF i <= k THEN Times(p[i], r[k - i]) ELSE -Times(p[i], r[N + k - i])]))]

(* The accumulating loops over one row or column of a matrix and a vector. *)
Dot(x, y) == Add(Mul(x[0], y[0]), Mul(x[1], y[1]))

Row(matrix, row)       == [column \in Ranks |-> matrix[row, column]]
Column(matrix, column) == [row \in Ranks |-> matrix[row, column]]

(* Which entries encryption takes for coefficient `column' of u. *)
TransposedRow(matrix, column) == Row(matrix, column)

Transposed(matrix, column) == Column(matrix, column)

Matrix(rho) == [at \in Ranks \X Ranks |-> Uniform(MatrixInputs(rho)[at])]

-----------------------------------------------------------------------------
(* byte_slice, with an offset from 0; encodings are concatenated fields. *)
Slice(s, offset, length) == SubSeq(s, offset + 1, offset + length)

EncodeNttVector(x) == [k \in 1 .. K * N |-> x[(k - 1) \div N][(k - 1) % N]]

DecodeNttVector(s) ==
  [r \in Ranks |-> [i \in Index |-> Slice(s, r * N, N)[i + 1] % Q]]

CompressPoly(p, d) == [i \in 1 .. N |-> Compress(p[i - 1], d)]

DecompressPoly(s, d) == [i \in Index |-> Decompress(s[i + 1], d)]

EncodeCompressed(x, d) == CompressPoly(x[0], d) \o CompressPoly(x[1], d)

DecodeCompressed(s, d) == [r \in Ranks |-> DecompressPoly(Slice(s, r * N, N), d)]

MessageToPolynomial(m) == DecompressPoly(m, 1)
PolynomialToMessage(p) == CompressPoly(p, 1)

PublicKeyFields  == K * N + 1
SecretKeyFields  == K * N
CiphertextFields == (K + 1) * N

-----------------------------------------------------------------------------
(* ml_kem_pke_keygen_512_test. *)
KeyPair(d) ==
  LET seeds  == ExpandedSeeds(d)
      inputs == <<NoiseInputs(seeds.sigma, 0, K), NoiseInputs(seeds.sigma, 2, K)>>
      matrix == Matrix(seeds.rho)
      secret == NoiseVector(inputs[1], Eta1)
      error  == NoiseVector(inputs[2], Eta1)
      public == [row \in Ranks |-> Add(error[row], Dot(Row(matrix, row), secret))]
  IN  [ek |-> EncodeNttVector(public) \o <<seeds.rho>>, dk |-> EncodeNttVector(secret),
       drawn |-> [matrix |-> MatrixInputs(seeds.rho), noise |-> inputs]]

(* The PRF inputs of y, e1 and e2. *)
EncryptionInputsByRank(coins) ==
  <<NoiseInputs(coins, 0, K), NoiseInputs(coins, 1, K), NoiseInputs(coins, 2, 1)>>

EncryptionInputs(coins) ==
  <<NoiseInputs(coins, 0, K), NoiseInputs(coins, 2, K), NoiseInputs(coins, 4, 1)>>

(* ml_kem_pke_encrypt_512_test, after the length checks. *)
Encryption(ek, message, coins) ==
  LET public == DecodeNttVector(Slice(ek, 0, K * N))
      rho    == ek[K * N + 1]
      inputs == EncryptionInputs(coins)
      matrix == Matrix(rho)
      y      == NoiseVector(inputs[1], Eta1)
      e1     == NoiseVector(inputs[2], Eta2)
      e2     == NoiseVector(inputs[3], Eta2)[0]
      u      == [column \in Ranks |-> Add(Dot(Transposed(matrix, column), y), e1[column])]
      v      == Add(Add(Dot(public, y), e2), MessageToPolynomial(message))
  IN  [ciphertext |-> EncodeCompressed(u, Du) \o CompressPoly(v, Dv),
       drawn |-> [matrix |-> MatrixInputs(rho), noise |-> inputs]]

(* ml_kem_pke_decrypt_512, after the length checks. *)
Decryption(dk, c) ==
  LET u == DecodeCompressed(Slice(c, 0, K * N), Du)
      v == DecompressPoly(Slice(c, K * N, N), Dv)
  IN  PolynomialToMessage(Sub(v, Dot(DecodeNttVector(dk), u)))

-----------------------------------------------------------------------------
Init == keys = {} /\ sent = {} /\ decrypted = {} /\ refused = "none"

KeyGen(d) ==
  /\ Cardinality(keys) < MaxKeys
  /\ keys' = keys \cup {KeyPair(d)} /\ refused' = "none"
  /\ UNCHANGED <<sent, decrypted>>

Encrypt(ek, message, coins) ==
  /\ Cardinality(sent) < MaxSent
  /\ Len(ek) = PublicKeyFields /\ Len(message) = N
  /\ LET made == Encryption(ek, message, coins)
     IN  sent' = sent \cup {[ek |-> ek, message |-> message, coins |-> coins,
                             ciphertext |-> made.ciphertext, drawn |-> made.drawn]}
  /\ refused' = "none" /\ UNCHANGED <<keys, decrypted>>

(* The key is looked at before the message. *)
EncryptRefused(ek, message) ==
  /\ \/ Len(ek) # PublicKeyFields /\ refused' = "key"
     \/ Len(ek) = PublicKeyFields /\ Len(message) # N /\ refused' = "message"
  /\ UNCHANGED <<keys, sent, decrypted>>

Decrypt(dk, c) ==
  /\ Cardinality(decrypted) < MaxDecrypted
  /\ Len(dk) = SecretKeyFields /\ Len(c) = CiphertextFields
  /\ decrypted' = decrypted \cup {[dk |-> dk, ciphertext |-> c, message |-> Decryption(dk, c)]}
  /\ refused' = "none" /\ UNCHANGED <<keys, sent>>

DecryptRefused(dk, c) ==
  /\ \/ Len(dk) # SecretKeyFields /\ refused' = "key"
     \/ Len(dk) = SecretKeyFields /\ Len(c) # CiphertextFields /\ refused' = "ciphertext"
  /\ UNCHANGED <<keys, sent, decrypted>>

(* A string as it was made, or cut short where it was kept. *)
Kept(s) == {s, SubSeq(s, 1, Len(s) - 1)}

Next ==
  \/ \E d \in KeygenSeeds : KeyGen(d)
  \/ \E k \in keys : \E ek \in Kept(k.ek), message \in Messages :
       \/ \E coins \in Coins : Encrypt(ek, message, coins)
       \/ EncryptRefused(ek, message)
  \/ \E k \in keys, s \in sent : \E dk \in Kept(k.dk), c \in Kept(s.ciphertext) :
       Decrypt(dk, c) \/ DecryptRefused(dk, c)

Spec == Init /\ [][Next]_vars

-----------------------------------------------------------------------------
(* Decryption finds the message that was encrypted, whatever the key, message
   and coins: the products with the matrix and its transpose cancel, and what is
   left, noise times noise and both compressions, is at most 42 * N + 106 and so
   below q / 4 up to N = 17; at N = 256 only noise of negligible odds exceeds it. *)
DecryptionFindsMessage ==
  \A k \in keys, s \in sent, o \in decrypted :
    s.ek = k.ek /\ o.dk = k.dk /\ o.ciphertext = s.ciphertext => o.message = s.message

(* No call reads one expanded stream for two things.  Streams of noise differ
   in length only, not in content, between the two values of eta, so the nonces
   of secret and error, and of y, e1 and e2, have to differ; matrix entries have
   inputs of their own, and never those of noise. *)
StreamsApart(drawn) ==
  /\ \A a, b \in Ranks \X Ranks : drawn.matrix[a] = drawn.matrix[b] => a = b
  /\ \A v, w \in DOMAIN drawn.noise :
       \A i \in DOMAIN drawn.noise[v], j \in DOMAIN drawn.noise[w] :
         drawn.noise[v][i] = drawn.noise[w][j] => v = w /\ i = j
  /\ \A a \in Ranks \X Ranks, v \in DOMAIN drawn.noise :
       \A i \in DOMAIN drawn.noise[v] : drawn.matrix[a] # drawn.noise[v][i]

NoStreamReused == \A call \in keys \cup sent : StreamsApart(call.drawn)
=============================================================================

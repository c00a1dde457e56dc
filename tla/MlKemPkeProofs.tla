--------------------------- MODULE MlKemPkeProofs ---------------------------
(***************************************************************************)
(* K-PKE and its byte strings: no key generation and no encryption reads   *)
(* one expanded stream for two purposes, compression errs by half an       *)
(* interval and keeps every code, and byte encoding loses nothing but the  *)
(* aliases of canonical strings.                                           *)
(***************************************************************************)
EXTENDS MlKemPke, Coefficients, NaturalFacts, SequenceTheorems, TLAPS

(* Different matrix entries absorb different inputs. *)
LEMMA MatrixInputsApart ==
  ASSUME NEW rho, NEW a \in Ranks \X Ranks, NEW b \in Ranks \X Ranks,
         MatrixInputs(rho)[a] = MatrixInputs(rho)[b]
  PROVE  a = b
<1>1. XofInput(rho, a[2], a[1]) = XofInput(rho, b[2], b[1])
  BY DEF MatrixInputs
<1>2. a[2] = b[2] /\ a[1] = b[1]
  BY <1>1 DEF XofInput
<1> QED
  BY <1>2

(* Noise inputs differ whenever their nonces, below 256, do. *)
LEMMA NoncesApart ==
  ASSUME NEW seed, NEW m \in 0 .. 255, NEW n \in 0 .. 255,
         PrfInput(seed, m) = PrfInput(seed, n)
  PROVE  m = n
<1>1. m % 256 = n % 256
  BY DEF PrfInput
<1>2. \A x \in 0 .. 255 : x % 256 = x
  BY SMT
<1> QED
  BY <1>1, <1>2

(* Matrix entries and noise absorb names of different domains. *)
LEMMA DomainsApart ==
  ASSUME NEW rho, NEW column, NEW row, NEW seed, NEW nonce
  PROVE  XofInput(rho, column, row) # PrfInput(seed, nonce)
BY DEF XofInput, PrfInput, XofDomain, PrfDomain

(* The streams of one key pair. *)
LEMMA KeyPairApart ==
  ASSUME NEW d
  PROVE  StreamsApart(KeyPair(d).drawn)
<1> DEFINE rho    == ExpandedSeeds(d).rho
           sigma  == ExpandedSeeds(d).sigma
           noise  == <<NoiseInputs(sigma, 0, K), NoiseInputs(sigma, 2, K)>>
           drawn  == [matrix |-> MatrixInputs(rho), noise |-> noise]
           First(v) == IF v = 1 THEN 0 ELSE 2
<1>1. KeyPair(d).drawn = drawn
  BY DEF KeyPair
<1>2. DOMAIN noise = {1, 2}
  OBVIOUS
<1>3. ASSUME NEW v \in DOMAIN noise
      PROVE  noise[v] = [i \in 0 .. 1 |-> PrfInput(sigma, First(v) + i)]
  BY <1>2 DEF NoiseInputs, K
<1>4. ASSUME NEW v \in DOMAIN noise, NEW w \in DOMAIN noise,
             NEW i \in DOMAIN noise[v], NEW j \in DOMAIN noise[w], noise[v][i] = noise[w][j]
      PROVE  v = w /\ i = j
  <2>1. i \in 0 .. 1 /\ j \in 0 .. 1 /\ v \in {1, 2} /\ w \in {1, 2}
    BY <1>2, <1>3
  <2>2. /\ noise[v][i] = PrfInput(sigma, First(v) + i)
        /\ noise[w][j] = PrfInput(sigma, First(w) + j)
    <3> HIDE DEF noise, sigma, First
    <3> QED
      BY <1>3, <2>1
  <2>4. PrfInput(sigma, First(v) + i) = PrfInput(sigma, First(w) + j)
    BY <1>4, <2>2
  <2>5. First(v) + i \in 0 .. 255 /\ First(w) + j \in 0 .. 255
    BY <2>1
  <2>6. First(v) + i = First(w) + j
    BY <2>4, <2>5, NoncesApart
  <2> QED
    BY <2>1, <2>6
<1>5. ASSUME NEW a \in Ranks \X Ranks, NEW v \in DOMAIN noise, NEW i \in DOMAIN noise[v]
      PROVE  MatrixInputs(rho)[a] # noise[v][i]
  <2>1. MatrixInputs(rho)[a] = XofInput(rho, a[2], a[1])
    BY DEF MatrixInputs
  <2>2. noise[v][i] = PrfInput(sigma, First(v) + i)
    BY <1>3
  <2> QED
    BY <2>1, <2>2, DomainsApart
<1>6. \A a, b \in Ranks \X Ranks : MatrixInputs(rho)[a] = MatrixInputs(rho)[b] => a = b
  BY MatrixInputsApart
<1>7. drawn.matrix = MatrixInputs(rho) /\ drawn.noise = noise
  OBVIOUS
<1> HIDE DEF rho, sigma, noise, drawn, First
<1> QED
  BY <1>1, <1>4, <1>5, <1>6, <1>7 DEF StreamsApart

(* The streams of one encryption. *)
LEMMA EncryptionApart ==
  ASSUME NEW ek, NEW message, NEW coins
  PROVE  StreamsApart(Encryption(ek, message, coins).drawn)
<1> DEFINE rho    == ek[K * N + 1]
           noise  == EncryptionInputs(coins)
           drawn  == [matrix |-> MatrixInputs(rho), noise |-> noise]
           First(v) == 2 * (v - 1)
<1>1. Encryption(ek, message, coins).drawn = drawn
  BY DEF Encryption
<1>2. DOMAIN noise = {1, 2, 3}
  BY DEF EncryptionInputs
<1>3. ASSUME NEW v \in DOMAIN noise
      PROVE  /\ DOMAIN noise[v] = 0 .. (IF v = 3 THEN 0 ELSE 1)
             /\ \A i \in DOMAIN noise[v] : noise[v][i] = PrfInput(coins, First(v) + i)
  <2>1. ASSUME NEW first, NEW count
        PROVE  /\ DOMAIN NoiseInputs(coins, first, count) = 0 .. count - 1
               /\ \A i \in 0 .. count - 1 :
                    NoiseInputs(coins, first, count)[i] = PrfInput(coins, first + i)
    BY DEF NoiseInputs
  <2>2. CASE v = 1
    <3>1. noise[v] = NoiseInputs(coins, 0, 2)
      BY <2>2 DEF EncryptionInputs, K
    <3>2. First(v) = 0
      BY <2>2
    <3>3. 2 - 1 = IF v = 3 THEN 0 ELSE 1
      BY <2>2
    <3> HIDE DEF noise, First
    <3> QED
      BY <2>1, <3>1, <3>2, <3>3
  <2>3. CASE v = 2
    <3>1. noise[v] = NoiseInputs(coins, 2, 2)
      BY <2>3 DEF EncryptionInputs, K
    <3>2. First(v) = 2
      BY <2>3
    <3>3. 2 - 1 = IF v = 3 THEN 0 ELSE 1
      BY <2>3
    <3> HIDE DEF noise, First
    <3> QED
      BY <2>1, <3>1, <3>2, <3>3
  <2>4. CASE v = 3
    <3>1. noise[v] = NoiseInputs(coins, 4, 1)
      BY <2>4 DEF EncryptionInputs, K
    <3>2. First(v) = 4
      BY <2>4
    <3>3. 1 - 1 = IF v = 3 THEN 0 ELSE 1
      BY <2>4
    <3> HIDE DEF noise, First
    <3> QED
      BY <2>1, <3>1, <3>2, <3>3
  <2> QED
    BY <1>2, <2>2, <2>3, <2>4
<1>4. ASSUME NEW v \in DOMAIN noise, NEW w \in DOMAIN noise,
             NEW i \in DOMAIN noise[v], NEW j \in DOMAIN noise[w], noise[v][i] = noise[w][j]
      PROVE  v = w /\ i = j
  <2>1. i \in 0 .. 1 /\ j \in 0 .. 1 /\ v \in {1, 2, 3} /\ w \in {1, 2, 3}
    BY <1>2, <1>3
  <2>2. noise[v][i] = PrfInput(coins, First(v) + i)
    BY <1>3
  <2>3. noise[w][j] = PrfInput(coins, First(w) + j)
    BY <1>3
  <2>4. PrfInput(coins, First(v) + i) = PrfInput(coins, First(w) + j)
    BY <2>2, <2>3, <1>4
  <2>5. First(v) + i \in 0 .. 255 /\ First(w) + j \in 0 .. 255
    BY <2>1
  <2>6. First(v) + i = First(w) + j
    BY <2>4, <2>5, NoncesApart
  <2> QED
    BY <2>1, <2>6
<1>5. ASSUME NEW a \in Ranks \X Ranks, NEW v \in DOMAIN noise, NEW i \in DOMAIN noise[v]
      PROVE  MatrixInputs(rho)[a] # noise[v][i]
  <2>1. MatrixInputs(rho)[a] = XofInput(rho, a[2], a[1])
    BY DEF MatrixInputs
  <2>2. noise[v][i] = PrfInput(coins, First(v) + i)
    BY <1>3
  <2> QED
    BY <2>1, <2>2, DomainsApart
<1>6. \A a, b \in Ranks \X Ranks : MatrixInputs(rho)[a] = MatrixInputs(rho)[b] => a = b
  BY MatrixInputsApart
<1>7. drawn.matrix = MatrixInputs(rho) /\ drawn.noise = noise
  OBVIOUS
<1> HIDE DEF rho, noise, drawn, First
<1> QED
  BY <1>1, <1>4, <1>5, <1>6, <1>7 DEF StreamsApart

(* No run of the component reads one expanded stream for two things, for every
   degree, modulus, expansion and set of seeds, coins and messages. *)
THEOREM StreamsNeverReused == Spec => []NoStreamReused
<1>1. Init => NoStreamReused
  BY DEF Init, NoStreamReused
<1>2. NoStreamReused /\ [Next]_vars => NoStreamReused'
  <2> SUFFICES ASSUME NoStreamReused, [Next]_vars PROVE NoStreamReused'
    OBVIOUS
  <2>1. ASSUME NEW d, KeyGen(d) PROVE NoStreamReused'
    <3>1. keys' = keys \cup {KeyPair(d)} /\ sent' = sent
      BY <2>1 DEF KeyGen
    <3>2. StreamsApart(KeyPair(d).drawn)
      BY KeyPairApart
    <3> QED
      BY <3>1, <3>2 DEF NoStreamReused
  <2>2. ASSUME NEW ek, NEW message, NEW coins, Encrypt(ek, message, coins) PROVE NoStreamReused'
    <3> DEFINE made == Encryption(ek, message, coins)
               call == [ek |-> ek, message |-> message, coins |-> coins,
                        ciphertext |-> made.ciphertext, drawn |-> made.drawn]
    <3>1. sent' = sent \cup {call} /\ keys' = keys
      BY <2>2 DEF Encrypt
    <3>2. StreamsApart(made.drawn)
      BY EncryptionApart
    <3>3. call.drawn = made.drawn
      OBVIOUS
    <3> HIDE DEF made, call
    <3> QED
      BY <3>1, <3>2, <3>3 DEF NoStreamReused
  <2>3. CASE UNCHANGED <<keys, sent>>
    BY <2>3 DEF NoStreamReused
  <2>4. ASSUME NEW dk, NEW c, Decrypt(dk, c) \/ DecryptRefused(dk, c) PROVE NoStreamReused'
    BY <2>3, <2>4 DEF Decrypt, DecryptRefused
  <2>5. ASSUME NEW ek, NEW message, EncryptRefused(ek, message) PROVE NoStreamReused'
    BY <2>3, <2>5 DEF EncryptRefused
  <2>6. CASE UNCHANGED vars
    BY <2>3, <2>6 DEF vars
  <2> QED
    BY <2>1, <2>2, <2>4, <2>5, <2>6 DEF Next
<1> QED
  BY <1>1, <1>2, PTL DEF Spec

-----------------------------------------------------------------------------
(* Compression (module Compression), for every odd Q and all widths whose
   codes are fewer than Q. *)

(* The numbers of a width: m codes, and the halves that rounding adds. *)
Halved(d, m, half, h) ==
  /\ m \in Nat \ {0} /\ half \in Nat \ {0} /\ h \in Nat \ {0}
  /\ Q = 2 * h + 1 /\ m = 2 * half /\ m < Q
  /\ 2^d = m /\ 2^(d + 1) = 2 * m /\ Q \div 2 = h /\ m \div 2 = half

(* The two halves a width is rounded by. *)
LEMMA WidthsAreHalved ==
  ASSUME Coefficient!CompressionAssumption, NEW d \in CodeWidths
  PROVE  \E m, half, h : Halved(d, m, half, h)
<1> DEFINE m == 2^d
           half == m \div 2
           h == Q \div 2
<1>1. /\ Q \in Nat /\ Q % 2 = 1 /\ m \in 1 .. Q - 1 /\ m % 2 = 0 /\ 2^(d + 1) = 2 * m
  <2>1. Q \in Nat /\ Q % 2 = 1 /\ d \in Nat /\ d - 1 \in Nat /\ 2^d < Q
    BY DEF Coefficient!CompressionAssumption
  <2>2. 2^d \in Nat \ {0} /\ 2^(d + 1) = 2 * 2^d /\ 2^(d - 1) \in Nat /\ 2^((d - 1) + 1) = 2 * 2^(d - 1)
    BY <2>1, PowersDouble, Zenon
  <2>3. (d - 1) + 1 = d
    BY <2>1
  <2>4. m = 2 * 2^(d - 1)
    BY <2>2, <2>3
  <2> HIDE DEF m
  <2>5. m % 2 = 0
    BY <2>2, <2>4
  <2> QED
    BY <2>1, <2>2, <2>5 DEF m
<1>2. 2^d = m
  OBVIOUS
<1> HIDE DEF m
<1>3. m = 2 * half /\ Q = 2 * h + 1 /\ half \in Nat \ {0} /\ h \in Nat \ {0} /\ m \in Nat \ {0}
  BY <1>1
<1>4. half = m \div 2 /\ h = Q \div 2
  OBVIOUS
<1> HIDE DEF half, h
<1>5. Halved(d, m, half, h)
  BY <1>1, <1>2, <1>3, <1>4 DEF Halved
<1> QED
  BY <1>5

(* Compress takes the nearest multiple of Q to x * m: at most h away, since Q
   is odd. *)
LEMMA CompressIsNearest ==
  ASSUME NEW d, NEW m, NEW half, NEW h, Halved(d, m, half, h), NEW x \in Int
  PROVE  \E c \in Int, e \in -h .. h : x * m = Q * c + e /\ Coefficient!Compress(x, d) = c % m
<1> DEFINE a == x * m + h
           c == a \div Q
           e == (a % Q) - h
<1>1. Q \in Nat \ {0} /\ Q = 2 * h + 1 /\ h \in Nat /\ m \in Nat /\ a \in Int
  BY DEF Halved
<1>2. c \in Int /\ a % Q \in 0 .. Q - 1 /\ a = Q * c + (a % Q)
  <2> HIDE DEF a
  <2> QED
    BY <1>1, DivisionFacts
<1>3. Coefficient!Compress(x, d) = c % m
  BY DEF Halved, Coefficient!Compress
<1>4. e \in -h .. h
  BY <1>1, <1>2
<1>5. x * m = Q * c + e
  <2> DEFINE xm == x * m
             qc == Q * c
             rest == a % Q
  <2>1. xm \in Int /\ qc \in Int /\ rest \in Int /\ xm + h = qc + rest /\ e = rest - h
    BY <1>1, <1>2
  <2> HIDE DEF xm, qc, rest, e, a, c
  <2>2. xm = qc + e
    BY <1>1, <2>1
  <2> QED
    BY <2>2 DEF xm, qc
<1> HIDE DEF a, c, e
<1> QED
  BY <1>2, <1>3, <1>4, <1>5

(* No other multiple of Q is as near. *)
LEMMA NearestIsUnique ==
  ASSUME NEW d, NEW m, NEW half, NEW h, Halved(d, m, half, h),
         NEW x \in Int, NEW c \in Int, NEW e \in -h .. h, x * m = Q * c + e
  PROVE  Coefficient!Compress(x, d) = c % m
<1> DEFINE a == x * m + h
           s == e + h
<1>1. Q \in Nat \ {0} /\ Q = 2 * h + 1 /\ h \in Nat /\ m \in Nat /\ a \in Int
  BY DEF Halved
<1>2. s \in 0 .. Q - 1 /\ a = Q * c + s
  <2> DEFINE xm == x * m
             qc == Q * c
  <2>1. xm \in Int /\ qc \in Int /\ xm = qc + e /\ a = xm + h
    BY <1>1
  <2> HIDE DEF xm, qc, a
  <2>2. a = qc + s /\ s \in 0 .. Q - 1
    BY <1>1, <2>1
  <2> QED
    BY <2>2 DEF qc
<1> HIDE DEF s, a
<1>3. a \div Q = c
  BY <1>1, <1>2, QuotientIsUnique
<1>4. Coefficient!Compress(x, d) = (a \div Q) % m
  BY DEF Halved, Coefficient!Compress, a
<1> QED
  BY <1>3, <1>4

(* Decompress takes the nearest multiple of m to y * Q, which stays below Q. *)
LEMMA DecompressIsNearest ==
  ASSUME NEW d, NEW m, NEW half, NEW h, Halved(d, m, half, h), NEW y \in 0 .. m - 1
  PROVE  /\ Coefficient!Decompress(y, d) \in 0 .. Q - 1
         /\ \E e \in -half .. half - 1 : Q * y = Coefficient!Decompress(y, d) * m + e
<1> DEFINE a == y * Q + half
           x == a \div m
           rest == a % m
           e == rest - half
<1>1. /\ Q \in Nat \ {0} /\ m \in Nat \ {0} /\ half \in Nat \ {0} /\ m = 2 * half /\ m < Q
      /\ a \in Int /\ y \in Int
  BY DEF Halved
<1>2. x \in Int /\ rest \in 0 .. m - 1 /\ a = m * x + rest
  <2> HIDE DEF a
  <2> QED
    BY <1>1, DivisionFacts
<1>3. Coefficient!Decompress(y, d) = x
  BY DEF Halved, Coefficient!Decompress
<1> DEFINE yq == Q * y
           mx == m * x
           mq == m * Q
<1>4. yq \in Int /\ mx \in Int /\ mq \in Int /\ a = yq + half /\ x * m = mx
  BY <1>1, <1>2
<1>5. yq >= 0 /\ yq <= mq - Q
  <2>1. Q * y >= 0 /\ Q * y <= Q * (m - 1)
    BY <1>1
  <2>2. Q * (m - 1) = mq - Q
    BY <1>1
  <2> QED
    BY <1>4, <2>1, <2>2
<1> HIDE DEF a, rest, x
<1>6. x >= 0 /\ x <= Q - 1
  <2>1. x <= -1 => mx <= -m
    BY <1>1, <1>2
  <2>2. x >= Q => mx >= mq
    BY <1>1, <1>2
  <2> HIDE DEF yq, mx, mq
  <2>3. a = mx + rest
    BY <1>2 DEF mx
  <2> QED
    BY <1>1, <1>2, <1>4, <1>5, <2>1, <2>2, <2>3
<1>7. e \in -half .. half - 1 /\ yq = x * m + e
  <2> HIDE DEF yq, mx, mq
  <2>1. a = mx + rest
    BY <1>2 DEF mx
  <2>2. e \in -half .. half - 1 /\ yq = mx + e
    BY <1>1, <1>2, <1>4, <2>1
  <2> QED
    BY <1>4, <2>2
<1>8. x \in 0 .. Q - 1
  BY <1>1, <1>2, <1>6
<1> HIDE DEF e
<1> QED
  BY <1>3, <1>7, <1>8

(* The distance around the circle is no more than either way round. *)
LEMMA DistanceIsShortest ==
  ASSUME NEW h \in Nat \ {0}, Q = 2 * h + 1, NEW x \in 0 .. Q - 1, NEW y \in 0 .. Q - 1
  PROVE  /\ Coefficient!Distance(x, y) \in Nat
         /\ x >= y => Coefficient!Distance(x, y) <= x - y
                      /\ Coefficient!Distance(x, y) <= Q - (x - y)
         /\ y >= x => Coefficient!Distance(x, y) <= y - x
<1> DEFINE delta == x - y
           d == delta % Q
<1>1. Q \in Nat \ {0} /\ delta \in Int /\ Q \div 2 = h
  OBVIOUS
<1>2. CASE x >= y
  <2>1. delta \in 0 .. Q - 1
    BY <1>2
  <2> HIDE DEF delta
  <2>2. d = delta
    BY <1>1, <2>1, SmallRemainder
  <2> QED
    BY <1>1, <1>2, <2>1, <2>2 DEF Coefficient!Distance, delta
<1>3. CASE y > x
  <2> DEFINE s == delta + Q
  <2>1. s \in 0 .. Q - 1 /\ delta = Q * (-1) + s
    BY <1>3
  <2> HIDE DEF s, delta
  <2>2. d = s
    BY <1>1, <2>1, QuotientIsUnique
  <2> HIDE DEF d
  <2>3. Coefficient!Distance(x, y) = IF s <= h THEN s ELSE Q - s
    BY <1>1, <2>2 DEF Coefficient!Distance, d, delta
  <2> QED
    BY <1>1, <1>3, <2>1, <2>3 DEF s, delta
<1> QED
  BY <1>2, <1>3

(* There and back: at most half an interval and half a unit away. *)
LEMMA ErrorIsSmall ==
  ASSUME NEW d, NEW m, NEW half, NEW h, Halved(d, m, half, h), NEW x \in 0 .. Q - 1,
         NEW y \in 0 .. m - 1, y = Coefficient!Compress(x, d)
  PROVE  2^(d + 1) * Coefficient!Distance(x, Coefficient!Decompress(y, d)) <= Q + 2^d
<1>1. /\ Q \in Nat \ {0} /\ Q = 2 * h + 1 /\ h \in Nat \ {0}
      /\ m \in Nat \ {0} /\ half \in Nat \ {0} /\ m = 2 * half /\ m < Q /\ x \in Int /\ y \in Int
      /\ 2^d = m /\ 2^(d + 1) = 2 * m
  BY DEF Halved
<1> DEFINE w == Coefficient!Decompress(y, d)
           dist == Coefficient!Distance(x, w)
<1>2. PICK c \in Int, e \in -h .. h : x * m = Q * c + e /\ y = c % m
  <2>1. \E c \in Int, e \in -h .. h :
          x * m = Q * c + e /\ Coefficient!Compress(x, d) = c % m
    <3>1. x \in Int
      BY <1>1
    <3> QED
      BY <3>1, CompressIsNearest
  <2> QED
    BY <2>1
<1>3. w \in 0 .. Q - 1 /\ \E f \in -half .. half - 1 : Q * y = w * m + f
  BY DecompressIsNearest
<1>4. PICK f \in -half .. half - 1 : Q * y = w * m + f
  BY <1>3
<1> HIDE DEF w
<1>5. dist \in Nat /\ (x >= w => dist <= x - w /\ dist <= Q - (x - w)) /\ (w >= x => dist <= w - x)
  BY <1>1, <1>3, DistanceIsShortest
<1> HIDE DEF dist
<1> DEFINE xm == x * m
           wm == w * m
           qc == Q * c
           qy == Q * y
           qm == Q * m
           dm == dist * m
<1>6. /\ xm \in Int /\ wm \in Int /\ qc \in Int /\ qy \in Int /\ qm \in Int /\ dm \in Int
      /\ xm = qc + e /\ qy = wm + f
  BY <1>1, <1>2, <1>3, <1>4, <1>5
<1>7. 0 <= c /\ c <= m
  <2>1. c <= -1 => qc <= -Q
    BY <1>1, <1>2
  <2>2. c >= m + 1 => qc >= qm + Q
    <3>1. c >= m + 1 => Q * c >= Q * (m + 1)
      BY <1>1, <1>2
    <3>2. Q * (m + 1) = qm + Q
      BY <1>1
    <3> QED
      BY <3>1, <3>2
  <2>3. xm >= 0 /\ xm <= qm - m
    <3>1. x * m >= 0 /\ x * m <= (Q - 1) * m
      BY <1>1
    <3>2. (Q - 1) * m = qm - m
      BY <1>1
    <3> QED
      BY <3>1, <3>2
  <2> HIDE DEF xm, qc, qm
  <2> QED
    BY <1>1, <1>2, <1>6, <2>1, <2>2, <2>3
<1>8. (x >= w => dm <= xm - wm /\ dm <= qm - (xm - wm)) /\ (w >= x => dm <= wm - xm)
  <2>1. (x - w) * m = xm - wm /\ (w - x) * m = wm - xm /\ (Q - (x - w)) * m = qm - (xm - wm)
    BY <1>1, <1>3
  <2>2. ASSUME NEW a \in Int, dist <= a
        PROVE  dm <= a * m
    BY <1>1, <1>5, <2>2
  <2>3. x - w \in Int /\ w - x \in Int /\ Q - (x - w) \in Int
    BY <1>1, <1>3
  <2> HIDE DEF dm, xm, wm, qm
  <2> QED
    BY <1>5, <2>1, <2>2, <2>3
<1>9. 2 * dm <= Q + m
  <2>1. CASE c < m
    <3>1. y = c
      BY <1>1, <1>2, <1>7, <2>1, SmallRemainder
    <3>2. qy = qc
      BY <3>1
    <3>3. x >= w \/ w >= x
      BY <1>1, <1>3
    <3> HIDE DEF xm, wm, qc, qy, qm, dm
    <3> QED
      BY <1>1, <1>2, <1>4, <1>6, <1>8, <3>2, <3>3
  <2>2. CASE c = m
    <3>1. y = 0
      <4>1. c = m * 1 + 0 /\ 0 \in 0 .. m - 1
        BY <1>1, <2>2
      <4> QED
        BY <1>1, <1>2, <4>1, QuotientIsUnique
    <3>2. qy = 0 /\ qc = qm
      BY <1>1, <2>2, <3>1
    <3>3. wm = -f /\ w = 0
      <4>1. wm = -f
        BY <1>6, <3>2
      <4>2. w >= 1 => wm >= m
        BY <1>1, <1>3
      <4> HIDE DEF wm
      <4> QED
        BY <1>1, <1>3, <1>4, <4>1, <4>2
    <3>4. x >= w /\ wm = 0
      BY <1>1, <3>3
    <3> HIDE DEF xm, wm, qc, qy, qm, dm
    <3> QED
      BY <1>1, <1>2, <1>6, <1>8, <3>2, <3>4
  <2> QED
    BY <1>1, <1>2, <1>7, <2>1, <2>2
<1>10. 2^(d + 1) * dist = 2 * dm
  BY <1>1, <1>5
<1> QED
  BY <1>1, <1>9, <1>10 DEF dist, w

(* The tolerance is no negative number: no noise is always tolerated. *)
LEMMA ToleranceIsNatural ==
  ASSUME NEW d, NEW m, NEW half, NEW h, Halved(d, m, half, h)
  PROVE  Coefficient!Tolerance(d) \in Nat
<1> DEFINE b == 2 * m
           t == Q \div b
           rest == Q % b
<1>1. b \in Nat \ {0} /\ Q \in Nat
  BY DEF Halved
<1>2. Coefficient!Tolerance(d) = IF t = 0 THEN 0 ELSE t - 1
  BY DEF Halved, Coefficient!Tolerance
<1> HIDE DEF b
<1>3. t \in Int /\ rest \in 0 .. b - 1 /\ Q = b * t + rest
  BY <1>1, DivisionFacts
<1> HIDE DEF t, rest
<1>4. t >= 0
  <2>1. t <= -1 => b * t <= -b
    BY <1>1, <1>3
  <2> DEFINE bt == b * t
  <2>2. bt \in Int /\ Q = bt + rest /\ (t <= -1 => bt <= -b)
    BY <1>1, <1>3, <2>1
  <2> HIDE DEF bt
  <2> QED
    BY <1>1, <1>3, <2>2
<1> QED
  BY <1>2, <1>3, <1>4

(* A code comes back from its value disturbed within the tolerance. *)
LEMMA CodeComesBack ==
  ASSUME NEW d, NEW m, NEW half, NEW h, Halved(d, m, half, h), NEW y \in 0 .. m - 1,
         NEW noise \in -Coefficient!Tolerance(d) .. Coefficient!Tolerance(d)
  PROVE  /\ (Coefficient!Decompress(y, d) + noise) % Q \in 0 .. Q - 1
         /\ Coefficient!Compress((Coefficient!Decompress(y, d) + noise) % Q, d) = y
<1>1. /\ Q \in Nat \ {0} /\ Q = 2 * h + 1 /\ h \in Nat \ {0}
      /\ m \in Nat \ {0} /\ half \in Nat \ {0} /\ m = 2 * half /\ m < Q /\ y \in Int
      /\ 2^(d + 1) = 2 * m
  BY DEF Halved
<1> DEFINE w == Coefficient!Decompress(y, d)
           t == Q \div (2 * m)
           tolerance == IF t = 0 THEN 0 ELSE t - 1
<1>2. w \in 0 .. Q - 1 /\ \E f \in -half .. half - 1 : Q * y = w * m + f
  BY DecompressIsNearest
<1>3. PICK f \in -half .. half - 1 : Q * y = w * m + f
  BY <1>2
<1> HIDE DEF w
<1>4. Coefficient!Tolerance(d) = tolerance
  BY <1>1 DEF Coefficient!Tolerance
<1>5. t \in Int /\ (2 * m) * t <= Q /\ t >= 0
  <2> DEFINE b == 2 * m
             rest == Q % b
             bt == b * t
  <2>1. b \in Nat \ {0} /\ Q \in Int
    BY <1>1
  <2>2. t \in Int /\ rest \in 0 .. b - 1 /\ Q = bt + rest
    <3>1. t = Q \div b
      OBVIOUS
    <3> HIDE DEF b, t
    <3> QED
      BY <2>1, <3>1, DivisionFacts
  <2> HIDE DEF t
  <2>3. t <= -1 => bt <= -b
    BY <2>1, <2>2
  <2> HIDE DEF b, rest, bt
  <2>4. bt <= Q /\ t >= 0
    <3>1. bt \in Int
      BY <2>1, <2>2 DEF bt, b
    <3> QED
      BY <1>1, <2>1, <2>2, <2>3, <3>1
  <2> QED
    BY <2>2, <2>4 DEF bt, b
<1> HIDE DEF t
<1> DEFINE tm == t * m
           nm == noise * m
<1>6. tm \in Int /\ tm <= h /\ tolerance \in Nat
  <2>1. (2 * m) * t = 2 * tm /\ tm \in Int
    BY <1>1, <1>5
  <2> HIDE DEF tm
  <2> QED
    BY <1>1, <1>5, <2>1
<1>7. noise \in Int /\ nm \in Int /\ nm - f \in -h .. h
  <2>1. noise \in Int /\ nm \in Int
    BY <1>1, <1>4, <1>6
  <2>2. CASE t = 0
    <3>1. noise = 0 /\ nm = 0
      BY <1>1, <1>4, <2>2
    <3> QED
      BY <1>1, <1>3, <2>1, <3>1
  <2>3. CASE t >= 1
    <3>1. noise <= t - 1 /\ noise >= -(t - 1)
      BY <1>4, <1>5, <2>3
    <3>2. noise * m <= (t - 1) * m /\ noise * m >= (-(t - 1)) * m
      BY <1>1, <1>5, <2>1, <3>1
    <3>3. (t - 1) * m = tm - m /\ (-(t - 1)) * m = m - tm
      BY <1>1, <1>5
    <3> HIDE DEF tm, nm
    <3>4. nm <= tm - m /\ nm >= m - tm
      BY <3>2, <3>3 DEF nm
    <3> QED
      BY <1>1, <1>3, <1>6, <2>1, <3>4
  <2> QED
    BY <1>5, <2>1, <2>2, <2>3
<1> DEFINE v == w + noise
           heard == v % Q
           k == -(v \div Q)
           e == nm - f
           c == y + k * m
<1>8. v \in Int /\ heard \in 0 .. Q - 1 /\ k \in Int /\ heard = v + Q * k
  <2>1. v \in Int
    BY <1>2, <1>7
  <2> HIDE DEF v
  <2> DEFINE u == v \div Q
  <2>2. u \in Int /\ heard \in 0 .. Q - 1 /\ v = Q * u + heard /\ k = -u
    BY <1>1, <2>1, DivisionFacts
  <2> HIDE DEF heard, u, k
  <2>3. Q * (-u) = -(Q * u)
    BY <1>1, <2>2
  <2> QED
    BY <1>1, <2>1, <2>2, <2>3
<1> HIDE DEF heard, k
<1>9. heard * m = Q * c + e
  <2>1. heard * m = w * m + noise * m + (Q * k) * m
    BY <1>1, <1>2, <1>7, <1>8
  <2>2. Q * (y + k * m) = Q * y + (Q * k) * m
    BY <1>1, <1>8
  <2> DEFINE wm == w * m
             qkm == (Q * k) * m
             qy == Q * y
             qc == Q * c
             rm == heard * m
  <2>3. /\ wm \in Int /\ qkm \in Int /\ qy \in Int /\ qy = wm + f /\ qc = qy + qkm
        /\ rm = wm + nm + qkm
    BY <1>1, <1>2, <1>3, <1>8, <2>1, <2>2
  <2> HIDE DEF wm, qkm, qy, nm, qc, rm
  <2>4. rm = qc + e
    BY <1>3, <1>7, <2>3
  <2> QED
    BY <2>4 DEF rm, qc
<1>10. c \in Int /\ e \in -h .. h /\ heard \in Int
  BY <1>1, <1>7, <1>8
<1> HIDE DEF e
<1>11. Coefficient!Compress(heard, d) = c % m
  <2> HIDE DEF c
  <2> QED
    BY <1>9, <1>10, NearestIsUnique
<1>12. c % m = y
  <2>1. c = m * k + y
    BY <1>1, <1>8
  <2> HIDE DEF c
  <2> QED
    BY <1>1, <1>8, <1>10, <2>1, QuotientIsUnique
<1> QED
  BY <1>8, <1>11, <1>12 DEF heard, w

(* The stages of a coefficient's way, and what is known at each. *)
CompressionInv ==
  LET Codes(d) == 0 .. 2^d - 1
      Received == Coefficient!Decompress(code, width)
      Disturbances    == -Coefficient!Tolerance(width) .. Coefficient!Tolerance(width)
  IN  /\ width \in CodeWidths /\ stage \in {"value", "code", "received", "noisy", "recoded"}
      /\ stage = "value" => value \in 0 .. Q - 1
      /\ stage # "value" =>
           /\ code \in Codes(width)
           /\ value # Coefficient!NoValue =>
                value \in 0 .. Q - 1 /\ code = Coefficient!Compress(value, width)
      /\ stage = "received" => received = Received
      /\ stage = "noisy" =>
           /\ value = Coefficient!NoValue
           /\ \E noise \in Disturbances : received = (Received + noise) % Q
      /\ stage = "recoded" =>
           /\ recoded = code
           /\ value # Coefficient!NoValue => received = Received

(* Every code compared in the run is right. *)
LEMMA CompressionHolds ==
  Coefficient!CompressionAssumption => (Coefficient!Spec => []CompressionInv)
<1> SUFFICES ASSUME Coefficient!CompressionAssumption
             PROVE  Coefficient!Spec => []CompressionInv
  OBVIOUS
<1>1. Coefficient!Init => CompressionInv
  BY DEF Coefficient!Init, CompressionInv
<1>2. CompressionInv /\ [Coefficient!Next]_(Coefficient!vars) => CompressionInv'
  <2> SUFFICES ASSUME CompressionInv, [Coefficient!Next]_(Coefficient!vars)
               PROVE  CompressionInv'
    OBVIOUS
  <2>1. width \in CodeWidths
    BY DEF CompressionInv
  <2>2. PICK m, half, h : Halved(width, m, half, h)
    BY <2>1, WidthsAreHalved
  <2>3. /\ Q \in Nat \ {0} /\ h \in Nat /\ m \in Nat \ {0} /\ 2^width = m
        /\ 2^width \in Nat
    BY <2>2 DEF Halved
  <2>4. CASE Coefficient!Send
    <3>1. /\ stage = "value" /\ stage' = "code" /\ code' = Coefficient!Compress(value, width)
          /\ width' = width /\ value' = value
      BY <2>4 DEF Coefficient!Send
    <3>2. value \in 0 .. Q - 1
      BY <3>1 DEF CompressionInv
    <3>3. code' \in 0 .. m - 1
      <4>1. \E c \in Int, e \in -h .. h :
              value * m = Q * c + e /\ Coefficient!Compress(value, width) = c % m
        BY <2>2, <3>2, CompressIsNearest
      <4>2. PICK c \in Int : Coefficient!Compress(value, width) = c % m
        BY <4>1
      <4> QED
        BY <2>3, <3>1, <4>2, DivisionFacts
    <3> QED
      BY <2>1, <2>3, <3>1, <3>2, <3>3 DEF CompressionInv
  <2>5. CASE Coefficient!Receive
    BY <2>5 DEF Coefficient!Receive, CompressionInv
  <2>6. ASSUME NEW noise \in -Coefficient!Tolerance(width) .. Coefficient!Tolerance(width),
               Coefficient!Disturb(noise)
        PROVE  CompressionInv'
    BY <2>6 DEF Coefficient!Disturb, CompressionInv
  <2>7. CASE Coefficient!Recode
    <3>1. /\ stage \in {"received", "noisy"} /\ stage' = "recoded"
          /\ recoded' = Coefficient!Compress(received, width)
          /\ width' = width /\ value' = value /\ code' = code /\ received' = received
      BY <2>7 DEF Coefficient!Recode
    <3>2. code \in 0 .. m - 1
      BY <2>3, <3>1 DEF CompressionInv
    <3>3. CASE stage = "received"
      <4> DEFINE w == Coefficient!Decompress(code, width)
                 zero == 0
      <4>1. received = w
        BY <3>3 DEF CompressionInv
      <4>2. w \in 0 .. Q - 1
        BY <2>2, <3>2, DecompressIsNearest
      <4>3. (w + 0) % Q = w
        <5> HIDE DEF w
        <5> QED
          BY <2>3, <4>2, SmallRemainder
      <4>4. 0 \in -Coefficient!Tolerance(width) .. Coefficient!Tolerance(width)
        BY <2>2, ToleranceIsNatural
      <4>5. Coefficient!Compress((w + 0) % Q, width) = code
        BY <2>2, <3>2, <4>4, CodeComesBack
      <4>6. recoded' = code
        BY <3>1, <4>1, <4>3, <4>5
      <4> QED
        BY <3>1, <3>3, <4>6 DEF CompressionInv
    <3>4. CASE stage = "noisy"
      <4>1. value = Coefficient!NoValue
        BY <3>4 DEF CompressionInv
      <4>2. PICK noise \in -Coefficient!Tolerance(width) .. Coefficient!Tolerance(width) :
              received = (Coefficient!Decompress(code, width) + noise) % Q
        BY <3>4 DEF CompressionInv
      <4>3. recoded' = code
        BY <2>2, <3>1, <3>2, <4>2, CodeComesBack
      <4> QED
        BY <3>1, <3>4, <4>1, <4>3 DEF CompressionInv
    <3> QED
      BY <3>1, <3>3, <3>4
  <2>8. CASE UNCHANGED Coefficient!vars
    BY <2>8 DEF Coefficient!vars, CompressionInv
  <2> QED
    BY <2>4, <2>5, <2>6, <2>7, <2>8 DEF Coefficient!Next
<1> QED
  BY <1>1, <1>2, PTL DEF Coefficient!Spec

(* Compression loses at most half an interval of a value, for every odd
   modulus and every width below it. *)
THEOREM CompressionErrorIsSmall ==
  Coefficient!CompressionAssumption => (Coefficient!Spec => []SmallError)
<1> SUFFICES ASSUME Coefficient!CompressionAssumption
             PROVE  Coefficient!Spec => []SmallError
  OBVIOUS
<1>1. CompressionInv => SmallError
  <2> SUFFICES ASSUME CompressionInv, stage \in {"received", "recoded"},
                      value # Coefficient!NoValue
               PROVE  2^(width + 1) * Coefficient!Distance(value, received) <= Q + 2^width
    BY DEF SmallError, Coefficient!SmallError
  <2>1. width \in CodeWidths
    BY DEF CompressionInv
  <2>2. PICK m, half, h : Halved(width, m, half, h)
    BY <2>1, WidthsAreHalved
  <2>3. 2^width = m
    BY <2>2 DEF Halved
  <2>4. /\ code \in 0 .. m - 1 /\ value \in 0 .. Q - 1
        /\ code = Coefficient!Compress(value, width)
        /\ received = Coefficient!Decompress(code, width)
    BY <2>3 DEF CompressionInv
  <2> QED
    BY <2>2, <2>4, ErrorIsSmall
<1> QED
  BY <1>1, CompressionHolds, PTL

(* Every code survives decompression, tolerated noise and compression. *)
THEOREM CodesComeBack ==
  Coefficient!CompressionAssumption => (Coefficient!Spec => []CodesSurvive)
<1>1. CompressionInv => CodesSurvive
  BY DEF CompressionInv, CodesSurvive, Coefficient!CodesSurvive
<1> QED
  BY <1>1, CompressionHolds, PTL

-----------------------------------------------------------------------------
(* A bit is 0 or 1, and the numbers it is computed from are naturals. *)
LEMMA BitsAreBits ==
  ASSUME NEW v \in Nat, NEW i \in Nat
  PROVE  Codec!BitOf(v, i) \in {0, 1} /\ 2^i \in Nat \ {0} /\ v \div 2^i \in Nat
<1>1. 2^i \in Nat \ {0}
  BY PowersDouble, Zenon
<1> DEFINE m == 2^i
<1> HIDE DEF m
<1>2. v \div m \in Nat
  BY <1>1 DEF m
<1>3. (v \div m) % 2 \in {0, 1}
  BY <1>2
<1> QED
  BY <1>1, <1>2, <1>3 DEF m, Codec!BitOf

(* Multiples of a higher power leave a bit alone. *)
LEMMA LowBitsStay ==
  ASSUME NEW v \in Nat, NEW c \in Nat, NEW j \in Nat, NEW p \in Nat, j < p
  PROVE  Codec!BitOf(v + c * 2^p, j) = Codec!BitOf(v, j)
<1>1. PICK k \in Nat \ {0} : 2^p = 2^j * (2 * k) /\ 2^j \in Nat \ {0}
  BY HigherPower
<1> DEFINE m == 2^j
           d == v \div m
           ck == c * k
<1>2. d \in Int
  BY BitsAreBits
<1>3. c * 2^p = m * (2 * ck)
  <2> HIDE DEF m
  <2>1. 2^p = m * (2 * k) /\ m \in Nat
    BY <1>1 DEF m
  <2>2. c * (m * (2 * k)) = m * (2 * (c * k))
    BY <2>1
  <2> QED
    BY <2>1, <2>2
<1>4. m \in Nat \ {0} /\ ck \in Nat /\ 2 * ck \in Int
  BY <1>1
<1> HIDE DEF m, ck, d
<1>5. (v + m * (2 * ck)) \div m = d + 2 * ck
  BY <1>4, AddMultiple DEF d
<1>6. (d + 2 * ck) % 2 = d % 2
  BY <1>2, <1>4
<1>7. (v + c * 2^p) \div 2^j = d + 2 * ck
  BY <1>3, <1>5 DEF m
<1> QED
  BY <1>6, <1>7 DEF Codec!BitOf, m, d

(* Adding a power flips its own bit. *)
LEMMA OwnBitFlips ==
  ASSUME NEW v \in Nat, NEW p \in Nat
  PROVE  Codec!BitOf(v + 2^p, p) = 1 - Codec!BitOf(v, p)
<1> DEFINE m == 2^p
           d == v \div m
<1>1. m \in Nat \ {0} /\ d \in Nat
  BY BitsAreBits
<1> HIDE DEF m, d
<1>2. (v + m * 1) \div m = d + 1 /\ m * 1 = m
  BY <1>1, AddMultiple DEF d
<1>3. (d + 1) % 2 = 1 - (d % 2)
  BY <1>1
<1>4. Codec!BitOf(v, p) = d % 2
  BY DEF Codec!BitOf, m, d
<1>5. Codec!BitOf(v + 2^p, p) = ((v + m) \div m) % 2
  BY DEF Codec!BitOf, m
<1>6. (v + m) \div m = d + 1
  BY <1>2
<1> QED
  BY <1>3, <1>4, <1>5, <1>6

(* When the bit was clear, nothing is carried. *)
LEMMA HighBitsStay ==
  ASSUME NEW v \in Nat, NEW j \in Nat, NEW p \in Nat, p < j, Codec!BitOf(v, p) = 0
  PROVE  (v + 2^p) \div 2^j = v \div 2^j
<1>1. PICK k \in Nat \ {0} : 2^j = 2^p * (2 * k) /\ 2^p \in Nat \ {0}
  BY HigherPower
<1> DEFINE m == 2^p
           q == v \div m
           s == v % m
           h == q \div 2
           a == h \div k
           b == h % k
           low == m * (2 * b) + s
<1>2. q \in Nat /\ s \in 0 .. m - 1 /\ v = m * q + s
  <2>1. q \in Nat /\ m \in Nat \ {0}
    BY <1>1, BitsAreBits
  <2> HIDE DEF m
  <2> QED
    BY <2>1, DivisionFacts
<1>3. q = 2 * h /\ h \in Nat
  <2>1. q % 2 = 0
    BY DEF Codec!BitOf
  <2> HIDE DEF q
  <2> QED
    BY <1>2, <2>1
<1>4. a \in Int /\ b \in 0 .. k - 1 /\ h = k * a + b
  <2> HIDE DEF h
  <2> QED
    BY <1>3, DivisionFacts
<1>5. m \in Nat \ {0}
  BY <1>1
<1>0. 2^j = m * (2 * k)
  BY <1>1
<1> HIDE DEF m, q, s, h, a, b, low
<1>6. v = (m * (2 * k)) * a + low
  <2>1. m * q = m * (2 * (k * a + b))
    BY <1>3, <1>4
  <2>2. m * (2 * (k * a + b)) = (m * (2 * k)) * a + m * (2 * b)
    BY <1>4, <1>5
  <2> DEFINE x == (m * (2 * k)) * a
             y == m * (2 * b)
             both == m * q
  <2>3. x \in Int /\ y \in Int /\ both \in Int
    BY <1>2, <1>4, <1>5
  <2>4. v = both + s /\ both = x + y /\ low = y + s
    BY <1>2, <2>1, <2>2 DEF low
  <2> HIDE DEF x, y, both
  <2>5. v = x + low
    BY <1>2, <2>3, <2>4
  <2> QED
    BY <2>5 DEF x
<1>7. low \in Nat /\ low + m <= m * (2 * k) - 1
  <2> DEFINE y == m * (2 * b)
             mk == m * (2 * k)
  <2>1. y \in Int /\ y >= 0 /\ mk \in Int
    BY <1>4, <1>5
  <2>2. mk - y = m * (2 * (k - b))
    BY <1>4, <1>5
  <2>3. m * (2 * (k - b)) >= m * 2
    <3>1. k - b >= 1 /\ k - b \in Int
      BY <1>4
    <3> QED
      BY <1>5, <3>1
  <2>4. low = y + s
    BY DEF low
  <2> HIDE DEF y, mk
  <2>5. mk - y >= m * 2
    BY <2>2, <2>3
  <2>6. low \in Nat /\ low + m <= mk - 1
    BY <1>2, <1>5, <2>1, <2>4, <2>5
  <2> QED
    BY <2>6 DEF mk
<1> DEFINE mk == m * (2 * k)
           mka == mk * a
<1>8. mk \in Nat \ {0} /\ mka \in Int
  BY <1>4, <1>5
<1>9. v = mka + low
  BY <1>6
<1>10. low \in 0 .. mk - 1 /\ low + m \in 0 .. mk - 1
  <2>1. mk \in Int
    BY <1>8
  <2>2. low + m <= mk - 1
    BY <1>7
  <2> HIDE DEF mk
  <2> QED
    BY <1>5, <1>7, <2>1, <2>2
<1> HIDE DEF mk
<1>11. v \div mk = a
  <2>1. v = mk * a + low /\ v \in Int
    BY <1>9
  <2> QED
    BY <1>4, <1>8, <1>10, <2>1, QuotientIsUnique
<1>12. v + m = mk * a + (low + m) /\ v + m \in Int
  BY <1>5, <1>8, <1>9, <1>10
<1>13. (v + m) \div mk = a
  BY <1>4, <1>8, <1>10, <1>12, QuotientIsUnique
<1>14. 2^j = mk
  BY <1>0 DEF mk
<1> QED
  BY <1>11, <1>13, <1>14 DEF m

(* One bit more of a number. *)
LEMMA OneBitMore ==
  ASSUME NEW v \in Nat, NEW n \in Nat
  PROVE  v % 2^(n + 1) = (v % 2^n) + Codec!BitOf(v, n) * 2^n
<1> DEFINE m == 2^n
           d == v \div m
           rest == v % m
           h == d \div 2
           b == d % 2
<1>1. m \in Nat \ {0} /\ 2^(n + 1) = 2 * m
  BY PowersDouble, Zenon
<1>2. d \in Nat /\ rest \in 0 .. m - 1 /\ v = m * d + rest
  <2>1. d \in Nat
    BY BitsAreBits
  <2> HIDE DEF m
  <2> QED
    BY <1>1, <2>1, DivisionFacts
<1>3. h \in Int /\ b \in {0, 1} /\ d = 2 * h + b
  <2> HIDE DEF d
  <2> QED
    BY <1>2
<1>4. Codec!BitOf(v, n) = b
  BY DEF Codec!BitOf
<1> HIDE DEF m, d, rest, h, b
<1>5. v = (2 * m) * h + (rest + b * m)
  <2>1. m * (2 * h + b) = (2 * m) * h + b * m
    BY <1>1, <1>3
  <2> DEFINE x == (2 * m) * h
             y == b * m
  <2>2. x \in Int /\ y \in Int
    BY <1>1, <1>3
  <2>3. v = x + y + rest
    BY <1>2, <1>3, <2>1
  <2> HIDE DEF x, y
  <2>4. v = x + (rest + y)
    BY <1>2, <2>2, <2>3
  <2> QED
    BY <2>4 DEF x, y
<1>6. rest + b * m \in 0 .. 2 * m - 1
  <2>1. CASE b = 0
    BY <1>1, <1>2, <2>1
  <2>2. CASE b = 1
    BY <1>1, <1>2, <2>2
  <2> QED
    BY <1>3, <2>1, <2>2
<1>7. v % (2 * m) = rest + b * m
  <2>1. 2 * m \in Nat \ {0}
    BY <1>1
  <2> QED
    BY <1>3, <1>5, <1>6, <2>1, QuotientIsUnique
<1> QED
  BY <1>1, <1>4, <1>7 DEF m, rest

(* f adds up the n bits of b, each at its weight. *)
Sums(f, n, b) ==
  /\ n \in Nat /\ b \in [0 .. n - 1 -> {0, 1}] /\ f[0] = 0
  /\ \A i \in 1 .. n : f[i] = f[i - 1] + b[i - 1] * 2^(i - 1)

(* A number below a power has no bit there. *)
LEMMA NoBitAbove ==
  ASSUME NEW k \in Nat, NEW v \in 0 .. 2^k - 1
  PROVE  v \div 2^k = 0 /\ Codec!BitOf(v, k) = 0
<1> DEFINE m == 2^k
<1>1. m \in Nat \ {0}
  BY PowersDouble, Zenon
<1>2. v \in 0 .. m - 1
  OBVIOUS
<1>3. v \div 2^k = v \div m
  OBVIOUS
<1> HIDE DEF m
<1>4. v \in Int /\ v = m * 0 + v
  BY <1>1, <1>2
<1>5. v \div m = 0
  BY <1>1, <1>2, <1>4, QuotientIsUnique
<1> QED
  BY <1>3, <1>5 DEF Codec!BitOf

(* One bit more of a sum. *)
LEMMA SumGrows ==
  ASSUME NEW k \in Nat, NEW v \in 0 .. 2^k - 1, NEW bit \in {0, 1}
  PROVE  /\ v + bit * 2^k \in 0 .. 2^(k + 1) - 1
         /\ \A j \in 0 .. k : Codec!BitOf(v + bit * 2^k, j) = IF j = k THEN bit ELSE Codec!BitOf(v, j)
<1> DEFINE m == 2^k
           w == v + bit * m
<1>1. m \in Nat \ {0} /\ 2^(k + 1) = 2 * m
  BY PowersDouble, Zenon
<1>2. v \in 0 .. m - 1
  OBVIOUS
<1>3. v \in Nat
  BY <1>1, <1>2
<1>4. w \in 0 .. 2 * m - 1
  <2> HIDE DEF m
  <2>1. CASE bit = 0
    BY <1>1, <1>2, <2>1
  <2>2. CASE bit = 1
    BY <1>1, <1>2, <2>2
  <2> QED
    BY <2>1, <2>2
<1>5. ASSUME NEW j \in 0 .. k - 1 PROVE Codec!BitOf(w, j) = Codec!BitOf(v, j)
  <2>1. j \in Nat /\ j < k /\ bit \in Nat
    OBVIOUS
  <2> QED
    BY <1>3, <2>1, LowBitsStay
<1>6. Codec!BitOf(v, k) = 0
  BY NoBitAbove
<1>7. Codec!BitOf(w, k) = bit
  <2>1. CASE bit = 0
    <3>1. w = v
      BY <1>1, <1>3, <2>1
    <3> QED
      BY <1>6, <2>1, <3>1, Zenon
  <2>2. CASE bit = 1
    <3>1. w = v + 2^k
      BY <1>1, <2>2
    <3>2. Codec!BitOf(v + 2^k, k) = 1 - Codec!BitOf(v, k)
      BY <1>3, OwnBitFlips
    <3>3. 1 - Codec!BitOf(v, k) = 1
      BY <1>6
    <3> QED
      BY <2>2, <3>1, <3>2, <3>3, Zenon
  <2> QED
    BY <2>1, <2>2
<1> HIDE DEF w
<1>8. \A j \in 0 .. k : j = k \/ j \in 0 .. k - 1
  OBVIOUS
<1>9. \A j \in 0 .. k : Codec!BitOf(w, j) = IF j = k THEN bit ELSE Codec!BitOf(v, j)
  BY <1>5, <1>7, <1>8, Zenon
<1>10. w \in 0 .. 2^(k + 1) - 1
  BY <1>1, <1>4
<1> QED
  BY <1>9, <1>10 DEF w

(* The sum holds the bits. *)
LEMMA SumHoldsBits ==
  ASSUME NEW f, NEW n, NEW b, Sums(f, n, b)
  PROVE  f[n] \in 0 .. 2^n - 1 /\ \A j \in 0 .. n - 1 : Codec!BitOf(f[n], j) = b[j]
<1> DEFINE Held(k) == f[k] \in 0 .. 2^k - 1 /\ \A j \in 0 .. k - 1 : Codec!BitOf(f[k], j) = b[j]
           T == {k \in Nat : k <= n => Held(k)}
<1>0. n \in Nat
  BY DEF Sums
<1>1. 0 \in T
  <2>1. 2^0 = 1 /\ f[0] = 0
    BY PowersDouble DEF Sums
  <2> QED
    BY <2>1
<1>2. ASSUME NEW k \in Nat, k \in T PROVE k + 1 \in T
  <2> SUFFICES ASSUME k + 1 <= n PROVE Held(k + 1)
    OBVIOUS
  <2> HIDE DEF Held
  <2>1. Held(k) /\ k + 1 \in 1 .. n /\ k \in 0 .. n - 1 /\ (k + 1) - 1 = k
    BY <1>0, <1>2
  <2>2. b[k] \in {0, 1} /\ f[k + 1] = f[k] + b[k] * 2^k
    BY <2>1 DEF Sums
  <2>3. f[k] \in 0 .. 2^k - 1
    BY <2>1 DEF Held
  <2>4. /\ f[k + 1] \in 0 .. 2^(k + 1) - 1
        /\ \A j \in 0 .. k : Codec!BitOf(f[k + 1], j) = IF j = k THEN b[k] ELSE Codec!BitOf(f[k], j)
    BY <2>2, <2>3, SumGrows
  <2>5. \A j \in 0 .. k : Codec!BitOf(f[k + 1], j) = b[j]
    <3> TAKE j \in 0 .. k
    <3>1. CASE j = k
      BY <2>4, <3>1
    <3>2. CASE j # k
      <4>1. j \in 0 .. k - 1
        BY <3>2
      <4>2. Codec!BitOf(f[k], j) = b[j]
        BY <2>1, <4>1 DEF Held
      <4> QED
        BY <2>4, <3>2, <4>2
    <3> QED
      BY <3>1, <3>2
  <2> QED
    BY <2>1, <2>4, <2>5 DEF Held
<1> HIDE DEF T
<1>3. n \in T
  BY <1>0, <1>1, <1>2, SetInduction
<1> QED
  BY <1>0, <1>3 DEF T

(* Numbers below a power of two with the same bits are the same. *)
LEMMA BitsTellNumbers ==
  ASSUME NEW n \in Nat, NEW v \in 0 .. 2^n - 1, NEW w \in 0 .. 2^n - 1,
         \A j \in 0 .. n - 1 : Codec!BitOf(v, j) = Codec!BitOf(w, j)
  PROVE  v = w
<1> DEFINE T == {k \in Nat : k <= n => v % 2^k = w % 2^k}
           m == 2^n
<1>0. m \in Nat \ {0}
  BY PowersDouble, Zenon
<1>1. v \in 0 .. m - 1 /\ w \in 0 .. m - 1
  OBVIOUS
<1> HIDE DEF m
<1>2. v \in Nat /\ w \in Nat
  BY <1>0, <1>1
<1>3. 0 \in T
  <2>1. 2^0 = 1 /\ v % 1 = 0 /\ w % 1 = 0
    BY <1>2, PowersDouble
  <2> QED
    BY <2>1
<1>4. ASSUME NEW k \in Nat, k \in T PROVE k + 1 \in T
  <2> SUFFICES ASSUME k + 1 <= n PROVE v % 2^(k + 1) = w % 2^(k + 1)
    OBVIOUS
  <2>1. v % 2^k = w % 2^k
    BY <1>4
  <2>2. k \in 0 .. n - 1
    OBVIOUS
  <2>3. Codec!BitOf(v, k) = Codec!BitOf(w, k)
    BY <2>2
  <2>4. /\ v % 2^(k + 1) = (v % 2^k) + Codec!BitOf(v, k) * 2^k
        /\ w % 2^(k + 1) = (w % 2^k) + Codec!BitOf(w, k) * 2^k
    BY <1>2, OneBitMore
  <2> QED
    BY <2>1, <2>3, <2>4, Zenon
<1> HIDE DEF T
<1>5. n \in T
  BY <1>3, <1>4, SetInduction
<1>6. v % m = w % m
  BY <1>5 DEF T, m
<1>7. v % m = v /\ w % m = w
  BY <1>0, <1>1, SmallRemainder
<1> QED
  BY <1>6, <1>7

(* Setting a bit of a byte leaves its others alone. *)
LEMMA SetBitSets ==
  ASSUME NEW n \in Nat, NEW v \in 0 .. 2^n - 1, NEW i \in 0 .. n - 1
  PROVE  /\ Codec!SetBit(v, i) \in 0 .. 2^n - 1
         /\ \A j \in 0 .. n - 1 :
              Codec!BitOf(Codec!SetBit(v, i), j) = IF j = i THEN 1 ELSE Codec!BitOf(v, j)
<1> DEFINE m == 2^n
           w == v + 2^i
<1>0. m \in Nat \ {0}
  BY PowersDouble, Zenon
<1>1. v \in 0 .. m - 1
  OBVIOUS
<1>2. v \in Nat /\ i \in Nat /\ i < n
  <2> HIDE DEF m
  <2> QED
    BY <1>0, <1>1
<1>3. CASE Codec!BitOf(v, i) = 1
  <2>1. Codec!SetBit(v, i) = v
    BY <1>3 DEF Codec!SetBit
  <2> QED
    BY <1>3, <2>1
<1>4. CASE Codec!BitOf(v, i) # 1
  <2>0. Codec!BitOf(v, i) = 0
    BY <1>2, <1>4, BitsAreBits
  <2>1. Codec!SetBit(v, i) = w
    BY <1>4 DEF Codec!SetBit
  <2>2. w \in Nat
    BY <1>2, BitsAreBits
  <2>3. w \div m = 0
    <3>1. w \div m = v \div m
      BY <1>2, <2>0, HighBitsStay
    <3> QED
      BY <3>1, NoBitAbove
  <2>4. w \in 0 .. m - 1
    <3> HIDE DEF m, w
    <3>1. w = m * (w \div m) + (w % m) /\ w % m \in 0 .. m - 1
      BY <1>0, <2>2, DivisionFacts
    <3>2. m * 0 = 0
      BY <1>0
    <3>3. w = 0 + (w % m)
      BY <2>3, <3>1, <3>2
    <3> QED
      BY <1>0, <3>1, <3>3
  <2>5. ASSUME NEW j \in 0 .. n - 1
        PROVE  Codec!BitOf(w, j) = IF j = i THEN 1 ELSE Codec!BitOf(v, j)
    <3>0. j \in Nat
      OBVIOUS
    <3>1. CASE j < i
      <4>1. 1 * 2^i = 2^i
        BY <1>2, BitsAreBits
      <4>2. Codec!BitOf(v + 1 * 2^i, j) = Codec!BitOf(v, j)
        <5>1. \A c \in Nat : Codec!BitOf(v + c * 2^i, j) = Codec!BitOf(v, j)
          BY <1>2, <3>0, <3>1, LowBitsStay
        <5> QED
          BY <5>1
      <4>3. Codec!BitOf(w, j) = Codec!BitOf(v, j)
        BY <4>1, <4>2
      <4> QED
        BY <1>2, <3>1, <4>3
    <3>2. CASE j = i
      <4>1. Codec!BitOf(w, i) = 1 - Codec!BitOf(v, i)
        BY <1>2, OwnBitFlips
      <4>2. 1 - Codec!BitOf(v, i) = 1
        BY <2>0
      <4> QED
        BY <3>2, <4>1, <4>2, Zenon
    <3>3. CASE i < j
      <4>1. w \div 2^j = v \div 2^j
        BY <1>2, <2>0, <3>0, <3>3, HighBitsStay
      <4>2. Codec!BitOf(w, j) = Codec!BitOf(v, j)
        BY <4>1 DEF Codec!BitOf
      <4> QED
        BY <1>2, <3>3, <4>2
    <3> QED
      BY <1>2, <3>0, <3>1, <3>2, <3>3
  <2> HIDE DEF w
  <2> QED
    BY <2>1, <2>4, <2>5
<1> QED
  BY <1>3, <1>4

(* The byte strings of a length. *)
ByteValues == 0 .. 2^ByteBits - 1
BytesOf(n) == [1 .. n -> ByteValues]

(* n bytes hold the bits of Length coefficients of w bits. *)
Fits(n, w) ==
  /\ ByteBits \in Nat \ {0} /\ Length \in Nat /\ w \in Nat /\ n \in Nat
  /\ Length * w = ByteBits * n

(* Where a bit is in a string of n bytes, and that it is a bit. *)
LEMMA PlacesInBytes ==
  ASSUME NEW n \in Nat, ByteBits \in Nat \ {0}, NEW place \in 0 .. ByteBits * n - 1
  PROVE  /\ place \div ByteBits + 1 \in 1 .. n /\ place % ByteBits \in 0 .. ByteBits - 1
         /\ place \in Nat
         /\ place = ByteBits * (place \div ByteBits) + (place % ByteBits)
<1> DEFINE d == place \div ByteBits
           rest == place % ByteBits
           bn == ByteBits * n
           bd == ByteBits * d
<1>0. bn \in Nat /\ place \in 0 .. bn - 1 /\ place \in Nat
  OBVIOUS
<1>1. d \in Int /\ rest \in 0 .. ByteBits - 1 /\ place = bd + rest
  BY <1>0, DivisionFacts
<1> HIDE DEF d, rest
<1>2. d >= 0
  <2>1. d <= -1 => bd <= -ByteBits
    BY <1>1
  <2>2. bd \in Int
    BY <1>1
  <2> HIDE DEF bd
  <2> QED
    BY <1>0, <1>1, <2>1, <2>2
<1>3. d <= n - 1
  <2>1. d >= n => bd >= bn
    BY <1>1
  <2>2. bd \in Int
    BY <1>1
  <2> HIDE DEF bd, bn
  <2> QED
    BY <1>0, <1>1, <2>1, <2>2
<1>4. d + 1 \in 1 .. n
  BY <1>1, <1>2, <1>3
<1> QED
  BY <1>0, <1>1, <1>4 DEF d, rest

(* The bits of a string are 0 or 1. *)
LEMMA StringBits ==
  ASSUME NEW n \in Nat, ByteBits \in Nat \ {0}, NEW s \in BytesOf(n),
         NEW place \in 0 .. ByteBits * n - 1
  PROVE  Codec!Bit(s, place) \in {0, 1}
<1> DEFINE byte == s[place \div ByteBits + 1]
<1>1. place \div ByteBits + 1 \in 1 .. n /\ place % ByteBits \in Nat
  BY PlacesInBytes
<1>2. byte \in ByteValues
  BY <1>1 DEF BytesOf
<1>3. byte \in Nat
  <2> DEFINE m == 2^ByteBits
  <2>1. m \in Nat
    BY PowersDouble, Zenon
  <2>2. byte \in 0 .. m - 1
    BY <1>2 DEF ByteValues
  <2> HIDE DEF m, byte
  <2> QED
    BY <2>1, <2>2
<1> HIDE DEF byte
<1>4. Codec!BitOf(byte, place % ByteBits) \in {0, 1}
  BY <1>1, <1>3, BitsAreBits
<1> QED
  BY <1>4 DEF byte, Codec!Bit

(* Setting the bit at a place leaves the others alone. *)
LEMMA WithBitSets ==
  ASSUME NEW n \in Nat, ByteBits \in Nat \ {0}, NEW s \in BytesOf(n),
         NEW place \in 0 .. ByteBits * n - 1
  PROVE  /\ Codec!WithBit(s, place) \in BytesOf(n)
         /\ \A p \in 0 .. ByteBits * n - 1 :
              Codec!Bit(Codec!WithBit(s, place), p) = IF p = place THEN 1 ELSE Codec!Bit(s, p)
<1> DEFINE b == place \div ByteBits + 1
           i == place % ByteBits
           w == Codec!WithBit(s, place)
           new == Codec!SetBit(s[b], i)
<1>1. b \in 1 .. n /\ i \in 0 .. ByteBits - 1
  BY PlacesInBytes
<1>2. w = [s EXCEPT ![b] = new]
  BY DEF Codec!WithBit
<1> HIDE DEF b, i, w, new
<1>3. s[b] \in 0 .. 2^ByteBits - 1
  BY <1>1 DEF BytesOf, ByteValues
<1>4. /\ new \in 0 .. 2^ByteBits - 1
      /\ \A j \in 0 .. ByteBits - 1 :
           Codec!BitOf(new, j) = IF j = i THEN 1 ELSE Codec!BitOf(s[b], j)
  BY <1>1, <1>3, SetBitSets DEF new
<1>5. w \in BytesOf(n)
  BY <1>2, <1>4 DEF BytesOf, ByteValues
<1>6. w[b] = new /\ \A c \in 1 .. n : c # b => w[c] = s[c]
  BY <1>1, <1>2 DEF BytesOf
<1>7. ASSUME NEW p \in 0 .. ByteBits * n - 1
      PROVE  Codec!Bit(w, p) = IF p = place THEN 1 ELSE Codec!Bit(s, p)
  <2> DEFINE c == p \div ByteBits + 1
             j == p % ByteBits
  <2>1. c \in 1 .. n /\ j \in 0 .. ByteBits - 1
    BY PlacesInBytes
  <2>2. p = place <=> c = b /\ j = i
    <3>1. p = ByteBits * (c - 1) + j
      <4>1. p = ByteBits * (p \div ByteBits) + j
        BY PlacesInBytes
      <4>2. p \div ByteBits = c - 1
        <5>1. p \in Int /\ p \div ByteBits \in Int
          BY PlacesInBytes, DivisionFacts
        <5> QED
          BY <5>1
      <4> QED
        BY <4>1, <4>2
    <3>2. place = ByteBits * (b - 1) + i
      <4>1. place = ByteBits * (place \div ByteBits) + i
        BY PlacesInBytes DEF i
      <4>2. place \div ByteBits = b - 1
        <5>1. place \in Int /\ place \div ByteBits \in Int
          BY PlacesInBytes, DivisionFacts
        <5> QED
          BY <5>1 DEF b
      <4> QED
        BY <4>1, <4>2
    <3>3. p = place => c = b /\ j = i
      BY DEF b, i
    <3> HIDE DEF c, j
    <3>4. c = b /\ j = i => p = place
      BY <3>1, <3>2
    <3> QED
      BY <3>3, <3>4
  <2>3. Codec!Bit(w, p) = Codec!BitOf(w[c], j) /\ Codec!Bit(s, p) = Codec!BitOf(s[c], j)
    BY DEF Codec!Bit
  <2> HIDE DEF c, j
  <2>4. CASE c = b
    <3>1. Codec!BitOf(w[c], j) = IF j = i THEN 1 ELSE Codec!BitOf(s[b], j)
      BY <1>4, <1>6, <2>1, <2>4
    <3> QED
      BY <2>2, <2>3, <2>4, <3>1
  <2>5. CASE c # b
    BY <1>6, <2>1, <2>2, <2>3, <2>5
  <2> QED
    BY <2>4, <2>5
<1> QED
  BY <1>5, <1>7 DEF w

(* Strings with the same bits are the same. *)
LEMMA BitsTellStrings ==
  ASSUME NEW n \in Nat, ByteBits \in Nat \ {0}, NEW s \in BytesOf(n), NEW t \in BytesOf(n),
         \A p \in 0 .. ByteBits * n - 1 : Codec!Bit(s, p) = Codec!Bit(t, p)
  PROVE  s = t
<1>1. ASSUME NEW b \in 1 .. n PROVE s[b] = t[b]
  <2>1. s[b] \in 0 .. 2^ByteBits - 1 /\ t[b] \in 0 .. 2^ByteBits - 1
    BY DEF BytesOf, ByteValues
  <2>2. ASSUME NEW j \in 0 .. ByteBits - 1 PROVE Codec!BitOf(s[b], j) = Codec!BitOf(t[b], j)
    <3> DEFINE p == ByteBits * (b - 1) + j
               x == ByteBits * (b - 1)
               bn == ByteBits * n
    <3>1. p \in 0 .. bn - 1 /\ p \in Int
      <4>1. x \in Int /\ x >= 0 /\ x + ByteBits <= bn /\ bn \in Int
        <5>1. ByteBits * (n - b) >= 0
          OBVIOUS
        <5>2. ByteBits * (n - b) = bn - (x + ByteBits)
          OBVIOUS
        <5>3. x \in Int /\ x >= 0 /\ bn \in Int
          OBVIOUS
        <5> HIDE DEF x, bn
        <5> QED
          BY <5>1, <5>2, <5>3
      <4> HIDE DEF x, bn
      <4>2. x + j \in 0 .. bn - 1 /\ x + j \in Int
        BY <4>1
      <4>3. p = x + j
        BY DEF x
      <4> HIDE DEF p
      <4> QED
        BY <4>2, <4>3
    <3>2. p \div ByteBits = b - 1 /\ p % ByteBits = j
      <4>1. b - 1 \in Int
        OBVIOUS
      <4>2. p = ByteBits * (b - 1) + j
        OBVIOUS
      <4> HIDE DEF p
      <4> QED
        BY <3>1, <4>1, <4>2, QuotientIsUnique
    <3>3. Codec!Bit(s, p) = Codec!Bit(t, p)
      BY <3>1
    <3>4. p \div ByteBits + 1 = b
      BY <3>2
    <3> HIDE DEF p
    <3> QED
      BY <3>2, <3>3, <3>4 DEF Codec!Bit
  <2> QED
    BY <2>1, <2>2, BitsTellNumbers
<1> QED
  BY <1>1 DEF BytesOf

(* The bits of coefficient c are at places of their own. *)
LEMMA PlacesOfCoefficients ==
  ASSUME NEW n, NEW w, Fits(n, w), NEW c \in 0 .. Length - 1, NEW j \in 0 .. w - 1
  PROVE  /\ c * w + j \in 0 .. ByteBits * n - 1
         /\ (c * w + j) \div w = c /\ (c * w + j) % w = j
<1>1. Length \in Nat /\ w \in Nat \ {0} /\ Length * w = ByteBits * n /\ ByteBits * n \in Nat
  BY DEF Fits
<1> DEFINE cw == c * w
           lw == Length * w
<1>2. cw \in Int /\ cw >= 0 /\ lw \in Int /\ cw + w <= lw
  <2>1. (Length - c - 1) * w >= 0
    BY <1>1
  <2>2. (Length - c - 1) * w = lw - cw - w
    BY <1>1
  <2>3. cw \in Int /\ cw >= 0 /\ lw \in Int
    BY <1>1
  <2> HIDE DEF cw, lw
  <2> QED
    BY <1>1, <2>1, <2>2, <2>3
<1>3. cw + j \in 0 .. lw - 1 /\ cw + j \in Int
  <2> HIDE DEF cw, lw
  <2> QED
    BY <1>1, <1>2
<1>4. cw + j = w * c + j /\ c \in Int
  BY <1>1
<1>5. (cw + j) \div w = c /\ (cw + j) % w = j
  <2> HIDE DEF cw
  <2> QED
    BY <1>1, <1>3, <1>4, QuotientIsUnique
<1> QED
  BY <1>1, <1>3, <1>5

(* Every place is one of them. *)
LEMMA CoefficientsFillStrings ==
  ASSUME NEW n, NEW w, Fits(n, w), NEW p \in 0 .. ByteBits * n - 1
  PROVE  /\ p \div w \in 0 .. Length - 1 /\ p % w \in 0 .. w - 1
         /\ p = (p \div w) * w + (p % w)
<1>1. Length \in Nat /\ w \in Nat /\ Length * w = ByteBits * n
  BY DEF Fits
<1> DEFINE lw == Length * w
<1>2. p \in 0 .. lw - 1 /\ lw \in Nat
  BY <1>1
<1>3. w # 0
  <2>1. w = 0 => lw = 0
    BY <1>1
  <2> HIDE DEF lw
  <2> QED
    BY <1>2, <2>1
<1> DEFINE c == p \div w
           j == p % w
           wc == w * c
<1>4. c \in Int /\ j \in 0 .. w - 1 /\ p = wc + j
  <2>1. p \in Int /\ w \in Nat \ {0}
    BY <1>1, <1>2, <1>3
  <2> QED
    BY <2>1, DivisionFacts
<1> HIDE DEF c, j
<1>5. wc \in Int /\ (c <= -1 => wc <= -w) /\ (c >= Length => wc >= lw) /\ wc = c * w
  BY <1>1, <1>4
<1> HIDE DEF wc, lw
<1>6. c \in 0 .. Length - 1
  BY <1>1, <1>2, <1>4, <1>5
<1>7. p = c * w + j
  BY <1>4, <1>5
<1> QED
  BY <1>4, <1>6, <1>7 DEF c, j

(* v is the number whose w bits lie at coefficient c's places. *)
Reads(s, w, c, v) ==
  v \in 0 .. 2^w - 1 /\ \A j \in 0 .. w - 1 : Codec!BitOf(v, j) = Codec!Bit(s, c * w + j)

(* ByteDecode's inner loop reads it. *)
LEMMA FieldReads ==
  ASSUME NEW n, Fits(n, b_width), NEW s \in BytesOf(n), NEW c \in 0 .. Length - 1
  PROVE  Reads(s, b_width, c, Codec!Field(s, c))
<1> DEFINE w == b_width
           b == [j \in 0 .. w - 1 |-> Codec!Bit(s, c * w + j)]
           step == [i \in 1 .. w |-> [v \in Nat |-> v + b[i - 1] * 2^(i - 1)]]
           Sum(f) == f = [i \in 0 .. w |-> IF i = 0 THEN 0
                                           ELSE f[i - 1] + Codec!Bit(s, c * w + i - 1) * 2^(i - 1)]
           sum == CHOOSE f : Sum(f)
<1>0. w \in Nat /\ ByteBits \in Nat \ {0} /\ n \in Nat /\ c \in Int
  BY DEF Fits
<1>1. b \in [0 .. w - 1 -> {0, 1}]
  <2>1. ASSUME NEW j \in 0 .. w - 1 PROVE Codec!Bit(s, c * w + j) \in {0, 1}
    BY <1>0, PlacesOfCoefficients, StringBits
  <2> QED
    BY <2>1
<1>2. ASSUME NEW i \in 1 .. w
      PROVE  /\ b[i - 1] = Codec!Bit(s, c * w + i - 1) /\ b[i - 1] \in {0, 1}
             /\ 2^(i - 1) \in Nat
  <2>1. i - 1 \in 0 .. w - 1 /\ i - 1 \in Nat
    BY <1>0
  <2>2. c * w + (i - 1) = c * w + i - 1
    <3> DEFINE cw == c * w
    <3>1. cw \in Int
      BY <1>0
    <3> HIDE DEF cw
    <3>2. cw + (i - 1) = cw + i - 1
      BY <3>1
    <3> QED
      BY <3>2 DEF cw
  <2>3. b[i - 1] = Codec!Bit(s, c * w + (i - 1))
    BY <2>1
  <2> QED
    BY <1>1, <2>1, <2>2, <2>3, BitsAreBits
<1>3. step \in [1 .. w -> [Nat -> Nat]]
  <2>1. ASSUME NEW i \in 1 .. w, NEW v \in Nat PROVE v + b[i - 1] * 2^(i - 1) \in Nat
    <3> HIDE DEF b
    <3>1. b[i - 1] \in {0, 1} /\ 2^(i - 1) \in Nat
      BY <1>2
    <3> DEFINE m == 2^(i - 1)
               bit == b[i - 1]
    <3> HIDE DEF m, bit
    <3>2. v + bit * m \in Nat
      BY <3>1 DEF m, bit
    <3> QED
      BY <3>2 DEF m, bit
  <2> HIDE DEF b
  <2> QED
    BY <2>1
<1> HIDE DEF b
<1>4. PICK f \in [0 .. w -> Nat] : f[0] = 0 /\ \A i \in 1 .. w : f[i] = step[i][f[i - 1]]
  <2> HIDE DEF step, w
  <2>1. \E f \in [0 .. w -> Nat] : Recursive(f, w, 0, step)
    BY <1>0, <1>3, RecursionExists
  <2> QED
    BY <2>1 DEF Recursive
<1>5. \A i \in 1 .. w : f[i] = f[i - 1] + b[i - 1] * 2^(i - 1)
  <2> TAKE i \in 1 .. w
  <2>1. f[i - 1] \in Nat
    <3>1. i - 1 \in 0 .. w
      BY <1>0
    <3> HIDE DEF w, step
    <3> QED
      BY <1>4, <3>1
  <2>2. step[i][f[i - 1]] = f[i - 1] + b[i - 1] * 2^(i - 1)
    BY <2>1
  <2> QED
    BY <1>4, <2>2
<1>6. Sum(f)
  <2>1. \A i \in 0 .. w : f[i] = IF i = 0 THEN 0
                                 ELSE f[i - 1] + Codec!Bit(s, c * w + i - 1) * 2^(i - 1)
    <3> TAKE i \in 0 .. w
    <3>1. CASE i = 0
      BY <1>4, <3>1
    <3>2. CASE i # 0
      <4>1. i \in 1 .. w
        BY <1>0, <3>2
      <4> QED
        BY <1>2, <1>5, <3>2, <4>1, Zenon
    <3> QED
      BY <3>1, <3>2
  <2>2. DOMAIN f = 0 .. w /\ f = [i \in DOMAIN f |-> f[i]]
    BY <1>4
  <2> QED
    BY <2>1, <2>2
<1>7. Sum(sum)
  <2> HIDE DEF Sum
  <2> QED
    BY <1>6, Zenon
<1>8. Codec!Field(s, c) = sum[w]
  BY Zenon DEF Codec!Field
<1> HIDE DEF sum
<1>9. sum[0] = 0 /\ \A i \in 1 .. w : sum[i] = sum[i - 1] + Codec!Bit(s, c * w + i - 1) * 2^(i - 1)
  <2>1. sum = [i \in 0 .. w |-> IF i = 0 THEN 0
                                ELSE sum[i - 1] + Codec!Bit(s, c * w + i - 1) * 2^(i - 1)]
    BY <1>7
  <2>2. 0 \in 0 .. w /\ \A i \in 1 .. w : i \in 0 .. w /\ i # 0
    BY <1>0
  <2> HIDE DEF w
  <2>3. \A i \in 0 .. w : sum[i] = IF i = 0 THEN 0
                                   ELSE sum[i - 1] + Codec!Bit(s, c * w + i - 1) * 2^(i - 1)
    BY <2>1, Zenon
  <2> QED
    BY <2>2, <2>3, Zenon
<1>10. Sums(sum, w, b)
  <2>1. \A i \in 1 .. w : sum[i] = sum[i - 1] + b[i - 1] * 2^(i - 1)
    BY <1>2, <1>9, Zenon
  <2> QED
    BY <1>0, <1>1, <1>9, <2>1 DEF Sums
<1>11. sum[w] \in 0 .. 2^w - 1 /\ \A j \in 0 .. w - 1 : Codec!BitOf(sum[w], j) = b[j]
  BY <1>10, SumHoldsBits
<1>12. \A j \in 0 .. w - 1 : b[j] = Codec!Bit(s, c * w + j)
  BY DEF b
<1> HIDE DEF w
<1>13. Reads(s, w, c, sum[w])
  BY <1>11, <1>12 DEF Reads
<1> QED
  BY <1>8, <1>13 DEF w

(* ByteEncode's inner loop sets the bits of a value at its coefficient's places. *)
LEMMA BytesWithSets ==
  ASSUME NEW n, Fits(n, b_width), bytes \in BytesOf(n), index \in 0 .. Length - 1, NEW x
  PROVE  /\ Codec!BytesWith(x) \in BytesOf(n)
         /\ \A c \in 0 .. Length - 1, j \in 0 .. b_width - 1 :
              Codec!Bit(Codec!BytesWith(x), c * b_width + j) =
                IF c = index /\ Codec!BitOf(x, j) # 0 THEN 1
                ELSE Codec!Bit(bytes, c * b_width + j)
<1> DEFINE w == b_width
           S == BytesOf(n)
           Place(i) == index * w + (i - 1)
           Step(i, s) == IF Codec!BitOf(x, i - 1) = 0 THEN s ELSE Codec!WithBit(s, Place(i))
           step == [i \in 1 .. w |-> [s \in S |-> Step(i, s)]]
           Writes(f) == f = [i \in 0 .. w |-> IF i = 0 THEN bytes
                               ELSE IF Codec!BitOf(x, i - 1) = 0 THEN f[i - 1]
                                    ELSE Codec!WithBit(f[i - 1], Codec!Place(i - 1))]
           written == CHOOSE f : Writes(f)
<1>0. w \in Nat /\ ByteBits \in Nat \ {0} /\ n \in Nat /\ index \in Int
  BY DEF Fits
<1>1. \A i : Codec!Place(i - 1) = Place(i)
  BY DEF Codec!Place
<1>2. \A i \in 1 .. w : i - 1 \in 0 .. w - 1 /\ Place(i) \in 0 .. ByteBits * n - 1
  <2> TAKE i \in 1 .. w
  <2>1. i - 1 \in 0 .. w - 1
    BY <1>0
  <2> QED
    BY <2>1, PlacesOfCoefficients
<1> HIDE DEF Place
<1>3. step \in [1 .. w -> [S -> S]]
  <2>1. ASSUME NEW i \in 1 .. w, NEW s \in S PROVE Step(i, s) \in S
    <3>1. Codec!WithBit(s, Place(i)) \in S
      BY <1>0, <1>2, WithBitSets
    <3> QED
      BY <3>1
  <2> HIDE DEF S, Step
  <2> QED
    BY <2>1
<1>4. PICK f \in [0 .. w -> S] : f[0] = bytes /\ \A i \in 1 .. w : f[i] = step[i][f[i - 1]]
  <2> HIDE DEF step, w, S
  <2>0. bytes \in S
    BY DEF S
  <2>1. \E f \in [0 .. w -> S] : Recursive(f, w, bytes, step)
    BY <1>0, <1>3, <2>0, RecursionExists
  <2> QED
    BY <2>1 DEF Recursive
<1> HIDE DEF S
<1>5. \A i \in 1 .. w : f[i] = Step(i, f[i - 1])
  <2> TAKE i \in 1 .. w
  <2>1. f[i - 1] \in S
    <3>1. i - 1 \in 0 .. w
      BY <1>0
    <3> HIDE DEF w, step
    <3> QED
      BY <1>4, <3>1
  <2>2. step[i][f[i - 1]] = Step(i, f[i - 1])
    <3> HIDE DEF Step
    <3> QED
      BY <2>1
  <2> QED
    BY <1>4, <2>2
<1>6. Writes(f)
  <2>1. \A i \in 0 .. w : f[i] = IF i = 0 THEN bytes
                                 ELSE IF Codec!BitOf(x, i - 1) = 0 THEN f[i - 1]
                                      ELSE Codec!WithBit(f[i - 1], Codec!Place(i - 1))
    <3> TAKE i \in 0 .. w
    <3>1. CASE i = 0
      BY <1>4, <3>1
    <3>2. CASE i # 0
      <4>1. i \in 1 .. w
        BY <1>0, <3>2
      <4>2. f[i] = Step(i, f[i - 1])
        BY <1>5, <4>1
      <4> QED
        BY <1>1, <3>2, <4>2
    <3> QED
      BY <3>1, <3>2
  <2>2. DOMAIN f = 0 .. w /\ f = [i \in DOMAIN f |-> f[i]]
    BY <1>4
  <2> QED
    BY <2>1, <2>2
<1>7. Writes(written)
  <2> HIDE DEF Writes
  <2> QED
    BY <1>6, Zenon
<1>8. Codec!BytesWith(x) = written[w]
  BY Zenon DEF Codec!BytesWith
<1> HIDE DEF written
<1>9. written[0] = bytes /\ \A i \in 1 .. w : written[i] = Step(i, written[i - 1])
  <2>1. written = [i \in 0 .. w |-> IF i = 0 THEN bytes
                     ELSE IF Codec!BitOf(x, i - 1) = 0 THEN written[i - 1]
                          ELSE Codec!WithBit(written[i - 1], Codec!Place(i - 1))]
    BY <1>7
  <2>2. 0 \in 0 .. w /\ \A i \in 1 .. w : i \in 0 .. w /\ i # 0
    BY <1>0
  <2> HIDE DEF w
  <2>3. \A i \in 0 .. w : written[i] = IF i = 0 THEN bytes
                                       ELSE IF Codec!BitOf(x, i - 1) = 0 THEN written[i - 1]
                                            ELSE Codec!WithBit(written[i - 1], Codec!Place(i - 1))
    BY <2>1, Zenon
  <2>4. written[0] = bytes
    BY <2>2, <2>3, Zenon
  <2>5. \A i \in 1 .. w : written[i] = Step(i, written[i - 1])
    BY <1>1, <2>2, <2>3
  <2> QED
    BY <2>4, <2>5
<1> DEFINE Own(p, k) == \E j \in 0 .. k - 1 : p = index * w + j /\ Codec!BitOf(x, j) # 0
           Set(k) == /\ written[k] \in S
                     /\ \A p \in 0 .. ByteBits * n - 1 :
                          Codec!Bit(written[k], p) = IF Own(p, k) THEN 1 ELSE Codec!Bit(bytes, p)
           T == {k \in Nat : k <= w => Set(k)}
<1>10. 0 \in T
  <2>1. written[0] \in S
    BY <1>9 DEF S
  <2>2. \A p : ~Own(p, 0)
    OBVIOUS
  <2>3. Set(0)
    BY <1>9, <2>1, <2>2
  <2> QED
    BY <2>3
<1>11. ASSUME NEW k \in Nat, k \in T PROVE k + 1 \in T
  <2> SUFFICES ASSUME k + 1 <= w PROVE Set(k + 1)
    OBVIOUS
  <2> HIDE DEF Set, Step
  <2>1. Set(k) /\ k + 1 \in 1 .. w /\ (k + 1) - 1 = k /\ k \in 0 .. w - 1
    BY <1>0, <1>11
  <2>2. written[k + 1] = Step(k + 1, written[k])
    BY <1>9, <2>1
  <2>3. written[k] \in S
    BY <2>1 DEF Set
  <2> DEFINE place == index * w + k
  <2>4. Place(k + 1) = place /\ place \in 0 .. ByteBits * n - 1
    BY <1>2, <2>1 DEF Place
  <2>5. ASSUME NEW p
        PROVE  Own(p, k + 1) <=> Own(p, k) \/ (p = place /\ Codec!BitOf(x, k) # 0)
    <3>1. \A j : j \in 0 .. (k + 1) - 1 <=> j \in 0 .. k - 1 \/ j = k
      OBVIOUS
    <3> QED
      BY <3>1
  <2> HIDE DEF Own, place
  <2>6. CASE Codec!BitOf(x, k) = 0
    <3>1. written[k + 1] = written[k]
      BY <2>1, <2>2, <2>6 DEF Step
    <3>2. \A p : Own(p, k + 1) <=> Own(p, k)
      BY <2>5, <2>6
    <3> QED
      BY <2>1, <3>1, <3>2 DEF Set
  <2>7. CASE Codec!BitOf(x, k) # 0
    <3>1. written[k + 1] = Codec!WithBit(written[k], place)
      BY <2>1, <2>2, <2>4, <2>7 DEF Step
    <3>2. /\ written[k + 1] \in S
          /\ \A p \in 0 .. ByteBits * n - 1 :
               Codec!Bit(written[k + 1], p) = IF p = place THEN 1 ELSE Codec!Bit(written[k], p)
      BY <1>0, <2>3, <2>4, <3>1, WithBitSets DEF S
    <3>3. \A p : Own(p, k + 1) <=> Own(p, k) \/ p = place
      BY <2>5, <2>7
    <3>4. \A p \in 0 .. ByteBits * n - 1 :
            Codec!Bit(written[k], p) = IF Own(p, k) THEN 1 ELSE Codec!Bit(bytes, p)
      BY <2>1 DEF Set
    <3>5. \A p \in 0 .. ByteBits * n - 1 :
            Codec!Bit(written[k + 1], p) = IF Own(p, k + 1) THEN 1 ELSE Codec!Bit(bytes, p)
      BY <3>2, <3>3, <3>4, Zenon
    <3> QED
      BY <3>2, <3>5 DEF Set
  <2> QED
    BY <2>6, <2>7
<1> HIDE DEF T
<1>12. w \in T
  BY <1>0, <1>10, <1>11, SetInduction
<1>13. Set(w)
  BY <1>0, <1>12 DEF T
<1>14. ASSUME NEW c \in 0 .. Length - 1, NEW j \in 0 .. w - 1
       PROVE  Codec!Bit(written[w], c * w + j) =
                IF c = index /\ Codec!BitOf(x, j) # 0 THEN 1
                ELSE Codec!Bit(bytes, c * w + j)
  <2> DEFINE p == c * w + j
  <2>1. p \in 0 .. ByteBits * n - 1 /\ p \div w = c /\ p % w = j
    BY PlacesOfCoefficients
  <2>2. Own(p, w) <=> c = index /\ Codec!BitOf(x, j) # 0
    <3>1. ASSUME NEW i \in 0 .. w - 1, p = index * w + i PROVE c = index /\ i = j
      <4>1. (index * w + i) \div w = index /\ (index * w + i) % w = i
        BY PlacesOfCoefficients
      <4> QED
        BY <2>1, <3>1, <4>1
    <3>2. c = index => p = index * w + j
      OBVIOUS
    <3> HIDE DEF p
    <3> QED
      BY <3>1, <3>2
  <2> HIDE DEF p, Own
  <2>3. Codec!Bit(written[w], p) = IF Own(p, w) THEN 1 ELSE Codec!Bit(bytes, p)
    BY <1>13, <2>1
  <2> QED
    BY <2>2, <2>3 DEF p
<1> QED
  BY <1>8, <1>13, <1>14 DEF S

(* EncodedLength and Modulus, for any width. *)
Bytes(w) == (Length * w) \div ByteBits
Below(w) == IF w = MaxWidth THEN CodecQ ELSE 2^w

(* s holds the bits of the first k values, and no others. *)
Holds(s, w, values, k) ==
  \A c \in 0 .. Length - 1, j \in 0 .. w - 1 :
    Codec!Bit(s, c * w + j) = IF c < k THEN Codec!BitOf(values[c], j) ELSE 0

(* values[c] was decoded from s. *)
Decoded(s, w, values, c) == \E v \in 0 .. 2^w - 1 : Reads(s, w, c, v) /\ values[c] = v % Below(w)

(* A call of ByteEncode on argument, then ByteDecode on its result. *)
EncodedFirst ==
  b_first = "encode" /\ b_pc # "thrown" =>
    /\ argument \in [0 .. Length - 1 -> Int] /\ bytes \in BytesOf(Bytes(b_width))
    /\ b_pc = "encode" =>
         /\ array = argument /\ Holds(bytes, b_width, argument, index)
         /\ \A c \in 0 .. index - 1 : argument[c] \in 0 .. Below(b_width) - 1
    /\ b_pc # "encode" =>
         /\ Holds(bytes, b_width, argument, Length)
         /\ \A c \in 0 .. Length - 1 : argument[c] \in 0 .. Below(b_width) - 1
         /\ array \in [0 .. Length - 1 -> Int]
         /\ \A c \in 0 .. index - 1 : array[c] = argument[c]

(* A call of ByteDecode on argument, then ByteEncode on its result. *)
DecodedFirst ==
  b_first = "decode" =>
    /\ b_pc = "thrown" => b_width \notin 1 .. MaxWidth \/ Len(argument) # Bytes(b_width)
    /\ b_pc # "thrown" =>
         /\ argument \in BytesOf(Bytes(b_width)) /\ array \in [0 .. Length - 1 -> Int]
         /\ b_pc = "decode" =>
              bytes = argument /\ \A c \in 0 .. index - 1 : Decoded(argument, b_width, array, c)
         /\ b_pc # "decode" =>
              /\ bytes \in BytesOf(Bytes(b_width)) /\ Holds(bytes, b_width, array, index)
              /\ \A c \in 0 .. Length - 1 : Decoded(argument, b_width, array, c)

(* The inductive invariant of the codec: what each of the two calls has done
   after so many coefficients. *)
CodecInv ==
  /\ b_width \in CalledWidths /\ index \in 0 .. Length
  /\ b_first \in {"encode", "decode"} /\ b_pc \in {"encode", "decode", "returned", "thrown"}
  /\ b_pc = "returned" => index = Length
  /\ b_pc # "thrown" => b_width \in 1 .. MaxWidth
  /\ EncodedFirst /\ DecodedFirst

(* The values of a width are fields of that width. *)
LEMMA BelowIsBelow ==
  ASSUME Codec!CodecAssumption, NEW w \in 1 .. MaxWidth
  PROVE  /\ Below(w) \in Nat \ {0} /\ 2^w \in Nat \ {0} /\ Below(w) <= 2^w
         /\ 0 .. Below(w) - 1 \subseteq 0 .. 2^w - 1
<1>1. MaxWidth \in Nat /\ CodecQ \in 1 .. 2^MaxWidth
  BY DEF Codec!CodecAssumption
<1>2. w \in Nat
  BY <1>1
<1>3. 2^w \in Nat \ {0}
  BY <1>2, PowersDouble, Zenon
<1>4. Below(w) \in Nat \ {0} /\ Below(w) <= 2^w
  <2>1. CASE w = MaxWidth
    <3> DEFINE m == 2^w
    <3>1. CodecQ \in 1 .. m /\ m \in Nat /\ Below(w) = CodecQ
      BY <1>1, <1>3, <2>1 DEF Below
    <3> HIDE DEF m
    <3>2. Below(w) \in Nat \ {0} /\ Below(w) <= m
      BY <3>1
    <3> QED
      BY <3>2 DEF m
  <2>2. CASE w # MaxWidth
    <3>1. Below(w) = 2^w
      BY <2>2 DEF Below
    <3> QED
      BY <1>3, <3>1
  <2> QED
    BY <2>1, <2>2
<1> QED
  BY <1>3, <1>4

(* The encoded bytes hold all the bits and no others. *)
LEMMA BytesFit ==
  ASSUME Codec!CodecAssumption, NEW w \in 1 .. MaxWidth
  PROVE  Fits(Bytes(w), w)
<1>1. ByteBits \in Nat \ {0} /\ Length \in Nat /\ Length % ByteBits = 0 /\ w \in Nat
  BY DEF Codec!CodecAssumption
<1> DEFINE d == Length \div ByteBits
           n == d * w
           lw == Length * w
<1>2. Length = ByteBits * d /\ d \in Nat
  <2>1. Length = ByteBits * d + (Length % ByteBits) /\ d \in Int
    BY <1>1, DivisionFacts
  <2>2. d \in Nat
    BY <1>1
  <2> HIDE DEF d
  <2>3. ByteBits * d \in Int
    BY <1>1, <2>1
  <2>4. Length = ByteBits * d
    BY <1>1, <2>1, <2>3
  <2> QED
    BY <2>2, <2>4
<1> HIDE DEF d
<1>3. lw = ByteBits * n /\ n \in Nat /\ lw \in Int
  BY <1>1, <1>2
<1> HIDE DEF n, lw
<1>4. lw = ByteBits * n + 0
  BY <1>1, <1>3
<1>5. lw \div ByteBits = n
  BY <1>1, <1>3, <1>4, QuotientIsUnique
<1> QED
  BY <1>1, <1>3, <1>5 DEF Fits, Bytes, lw

(* Numbers that have the same bits at a coefficient's places are the same. *)
LEMMA ReadsTell ==
  ASSUME NEW s, NEW w \in Nat, NEW c, NEW v, NEW u, Reads(s, w, c, v), Reads(s, w, c, u)
  PROVE  v = u
BY BitsTellNumbers DEF Reads

(* What is held can be read. *)
LEMMA HeldIsRead ==
  ASSUME NEW s, NEW w, NEW values, NEW k, NEW c \in 0 .. Length - 1, c < k,
         Holds(s, w, values, k), values[c] \in 0 .. 2^w - 1
  PROVE  Reads(s, w, c, values[c])
BY DEF Holds, Reads

(* No bits are set in the zeros ByteEncode starts from. *)
LEMMA ZerosHoldNothing ==
  ASSUME Codec!CodecAssumption, b_width \in 1 .. MaxWidth, NEW values
  PROVE  /\ Codec!ZeroBytes \in BytesOf(Bytes(b_width))
         /\ Holds(Codec!ZeroBytes, b_width, values, 0)
<1> DEFINE n == Bytes(b_width)
           w == b_width
           s == Codec!ZeroBytes
<1>1. Fits(n, w)
  BY BytesFit
<1>2. s = [b \in 1 .. n |-> 0]
  BY DEF Codec!ZeroBytes, Codec!EncodedLength, Bytes
<1>3. n \in Nat /\ ByteBits \in Nat \ {0}
  BY <1>1 DEF Fits
<1> HIDE DEF n, s, w
<1>4. 0 \in ByteValues
  <2> DEFINE m == 2^ByteBits
  <2>1. m \in Nat \ {0}
    BY <1>3, PowersDouble, Zenon
  <2> HIDE DEF m
  <2>2. 0 \in 0 .. m - 1
    BY <2>1
  <2> QED
    BY <2>2 DEF m, ByteValues
<1>5. s \in BytesOf(n)
  BY <1>2, <1>4 DEF BytesOf
<1>6. ASSUME NEW p \in 0 .. ByteBits * n - 1 PROVE Codec!Bit(s, p) = 0
  <2>1. p \div ByteBits + 1 \in 1 .. n /\ p % ByteBits \in Nat
    BY <1>3, PlacesInBytes
  <2>2. s[p \div ByteBits + 1] = 0
    BY <1>2, <2>1
  <2>3. \A i \in Nat : Codec!BitOf(0, i) = 0
    <3> TAKE i \in Nat
    <3> DEFINE m == 2^i
    <3>1. m \in Nat \ {0}
      BY PowersDouble, Zenon
    <3> HIDE DEF m
    <3>2. 0 \in 0 .. m - 1
      BY <3>1
    <3>3. 0 \in 0 .. 2^i - 1
      BY <3>2 DEF m
    <3> QED
      BY <3>3, NoBitAbove
  <2> QED
    BY <2>1, <2>2, <2>3 DEF Codec!Bit
<1>7. Holds(s, w, values, 0)
  <2>1. ASSUME NEW c \in 0 .. Length - 1, NEW j \in 0 .. w - 1
        PROVE  Codec!Bit(s, c * w + j) = 0
    BY <1>1, <1>6, PlacesOfCoefficients
  <2>2. \A c \in 0 .. Length - 1 : ~(c < 0)
    OBVIOUS
  <2> QED
    BY <2>1, <2>2 DEF Holds
<1> QED
  BY <1>5, <1>7 DEF n, s, w

(* Encoding a coefficient makes the bytes hold one value more. *)
LEMMA EncodingHolds ==
  ASSUME NEW n, Fits(n, b_width), bytes \in BytesOf(n), index \in 0 .. Length - 1,
         NEW values, values[index] \in Nat, Holds(bytes, b_width, values, index)
  PROVE  /\ Codec!BytesWith(values[index]) \in BytesOf(n)
         /\ Holds(Codec!BytesWith(values[index]), b_width, values, index + 1)
<1> DEFINE x == values[index]
           s == Codec!BytesWith(x)
           w == b_width
<1>1. /\ s \in BytesOf(n)
      /\ \A c \in 0 .. Length - 1, j \in 0 .. w - 1 :
           Codec!Bit(s, c * w + j) = IF c = index /\ Codec!BitOf(x, j) # 0 THEN 1
                                     ELSE Codec!Bit(bytes, c * w + j)
  BY BytesWithSets
<1>2. Length \in Nat /\ x \in Nat
  BY DEF Fits
<1> HIDE DEF s, w
<1>3. ASSUME NEW c \in 0 .. Length - 1, NEW j \in 0 .. w - 1
      PROVE  Codec!Bit(s, c * w + j) = IF c < index + 1 THEN Codec!BitOf(values[c], j) ELSE 0
  <2>1. Codec!Bit(bytes, c * w + j) = IF c < index THEN Codec!BitOf(values[c], j) ELSE 0
    BY DEF Holds, w
  <2>2. CASE c = index
    <3>1. Codec!BitOf(x, j) \in {0, 1}
      BY <1>2, BitsAreBits
    <3>2. Codec!Bit(bytes, c * w + j) = 0
      BY <1>2, <2>1, <2>2
    <3>3. Codec!Bit(s, c * w + j) = Codec!BitOf(x, j)
      <4>1. CASE Codec!BitOf(x, j) = 0
        BY <1>1, <2>2, <3>2, <4>1, Zenon
      <4>2. CASE Codec!BitOf(x, j) # 0
        BY <1>1, <2>2, <3>1, <4>2
      <4> QED
        BY <4>1, <4>2
    <3> QED
      BY <1>2, <2>2, <3>3
  <2>3. CASE c # index
    <3>1. Codec!Bit(s, c * w + j) = Codec!Bit(bytes, c * w + j)
      BY <1>1, <2>3
    <3>2. c < index + 1 <=> c < index
      BY <1>2, <2>3
    <3> QED
      BY <2>1, <3>1, <3>2
  <2> QED
    BY <2>2, <2>3
<1> QED
  BY <1>1, <1>3 DEF Holds, s, w

(* What a decoded coefficient is. *)
LEMMA DecodedIsField ==
  ASSUME NEW n, Fits(n, b_width), NEW s \in BytesOf(n), NEW values, NEW c \in 0 .. Length - 1
  PROVE  Decoded(s, b_width, values, c) <=> values[c] = Codec!Field(s, c) % Below(b_width)
<1> DEFINE x == Codec!Field(s, c)
<1>1. Reads(s, b_width, c, x) /\ b_width \in Nat
  BY FieldReads DEF Fits
<1> HIDE DEF x
<1>2. x \in 0 .. 2^b_width - 1
  BY <1>1 DEF Reads
<1>3. ASSUME NEW v, Reads(s, b_width, c, v) PROVE v = x
  BY <1>1, <1>3, ReadsTell
<1> QED
  BY <1>1, <1>2, <1>3 DEF Decoded, x

(* The calls start in it. *)
LEMMA CodecStarts == Codec!CodecAssumption /\ Codec!Init => CodecInv
<1> SUFFICES ASSUME Codec!CodecAssumption, Codec!Init PROVE CodecInv
  OBVIOUS
<1>1. b_width \in CalledWidths /\ index = 0 /\ Length \in Nat /\ b_width \in Nat
  BY DEF Codec!Init, Codec!CodecAssumption
<1>2. Codec!WidthInRange <=> b_width \in 1 .. MaxWidth
  BY DEF Codec!WidthInRange
<1>3. CASE /\ b_first = "encode" /\ argument \in Arrays(b_width)
           /\ array = argument /\ bytes = Codec!ZeroBytes
           /\ b_pc = IF Codec!WidthInRange THEN "encode" ELSE "thrown"
  <2>1. EncodedFirst
    <3> SUFFICES ASSUME b_pc # "thrown" PROVE EncodedFirst
      BY DEF EncodedFirst
    <3>1. b_width \in 1 .. MaxWidth /\ b_pc = "encode"
      BY <1>2, <1>3
    <3>2. argument \in [0 .. Length - 1 -> Int]
      BY <1>1, <1>3 DEF Codec!CodecAssumption
    <3>3. bytes \in BytesOf(Bytes(b_width)) /\ Holds(bytes, b_width, argument, 0)
      BY <1>3, <3>1, ZerosHoldNothing
    <3> QED
      BY <1>1, <1>3, <3>1, <3>2, <3>3 DEF EncodedFirst
  <2> QED
    BY <1>1, <1>2, <1>3, <2>1 DEF CodecInv, DecodedFirst
<1>4. CASE /\ b_first = "decode" /\ argument \in Strings(b_width)
           /\ bytes = argument /\ array = Codec!ZeroArray
           /\ b_pc = IF Codec!WidthInRange /\ Len(argument) = Codec!EncodedLength THEN "decode" ELSE "thrown"
  <2>0. Codec!EncodedLength = Bytes(b_width)
    BY DEF Codec!EncodedLength, Bytes
  <2>1. DecodedFirst
    <3>1. CASE b_pc = "thrown"
      BY <1>2, <1>4, <2>0, <3>1 DEF DecodedFirst
    <3>2. CASE b_pc # "thrown"
      <4>1. b_pc = "decode" /\ Len(argument) = Bytes(b_width)
        BY <1>4, <2>0, <3>2
      <4>2. argument \in Seq(ByteValues)
        BY <1>1, <1>4 DEF Codec!CodecAssumption, ByteValues
      <4>3. argument \in BytesOf(Bytes(b_width))
        BY <4>1, <4>2, LenProperties DEF BytesOf
      <4>4. array \in [0 .. Length - 1 -> Int]
        BY <1>4 DEF Codec!ZeroArray
      <4> QED
        BY <1>1, <1>4, <4>1, <4>3, <4>4 DEF DecodedFirst
    <3> QED
      BY <3>1, <3>2
  <2> QED
    BY <1>1, <1>2, <1>4, <2>1 DEF CodecInv, EncodedFirst
<1> QED
  BY <1>3, <1>4 DEF Codec!Init

(* Each step keeps it. *)
LEMMA EncodeKeeps ==
  ASSUME Codec!CodecAssumption, CodecInv, Codec!EncodeCoefficient
  PROVE  CodecInv'
<1> DEFINE n == Bytes(b_width)
           x == array[index]
<1>1. /\ b_pc = "encode" /\ index \in 0 .. Length - 1 /\ x >= 0 /\ x < Codec!Modulus
      /\ bytes' = Codec!BytesWith(x) /\ index' = index + 1
      /\ b_pc' = b_pc /\ b_first' = b_first /\ argument' = argument /\ b_width' = b_width
      /\ array' = array
  BY DEF Codec!EncodeCoefficient, CodecInv, Codec!CodecAssumption
<1>2. b_width \in 1 .. MaxWidth
  BY <1>1 DEF CodecInv
<1>3. Fits(n, b_width) /\ Length \in Nat
  BY <1>2, BytesFit DEF Fits
<1>4. Codec!Modulus = Below(b_width)
  BY DEF Codec!Modulus, Below
<1>5. Below(b_width) \in Nat
  BY <1>2, BelowIsBelow
<1>6. index + 1 \in 0 .. Length /\ \A c \in 0 .. (index + 1) - 1 : c \in 0 .. index - 1 \/ c = index
  BY <1>1, <1>3
<1>7. b_first = "encode" => EncodedFirst'
  <2> SUFFICES ASSUME b_first = "encode" PROVE EncodedFirst'
    OBVIOUS
  <2>1. /\ argument \in [0 .. Length - 1 -> Int] /\ bytes \in BytesOf(n)
        /\ array = argument /\ Holds(bytes, b_width, argument, index)
        /\ \A c \in 0 .. index - 1 : argument[c] \in 0 .. Below(b_width) - 1
    BY <1>1 DEF CodecInv, EncodedFirst
  <2>2. x \in Int /\ x = argument[index]
    BY <1>1, <2>1
  <2>3. x \in Nat /\ x \in 0 .. Below(b_width) - 1
    <3> HIDE DEF x
    <3> QED
      BY <1>1, <1>4, <1>5, <2>2
  <2>4. bytes' \in BytesOf(n) /\ Holds(bytes', b_width, argument, index + 1)
    BY <1>1, <1>3, <2>1, <2>2, <2>3, EncodingHolds
  <2>5. \A c \in 0 .. (index + 1) - 1 : argument[c] \in 0 .. Below(b_width) - 1
    BY <1>6, <2>1, <2>2, <2>3
  <2> HIDE DEF x
  <2> QED
    BY <1>1, <2>1, <2>4, <2>5 DEF EncodedFirst, Bytes, Holds, Below
<1>8. b_first = "decode" => DecodedFirst'
  <2> SUFFICES ASSUME b_first = "decode" PROVE DecodedFirst'
    OBVIOUS
  <2>1. /\ argument \in BytesOf(n) /\ array \in [0 .. Length - 1 -> Int]
        /\ bytes \in BytesOf(n) /\ Holds(bytes, b_width, array, index)
        /\ \A c \in 0 .. Length - 1 : Decoded(argument, b_width, array, c)
    BY <1>1 DEF CodecInv, DecodedFirst
  <2>2. x \in Nat
    <3>1. x \in Int
      BY <1>1, <2>1
    <3> HIDE DEF x
    <3> QED
      BY <1>1, <3>1
  <2>3. bytes' \in BytesOf(n) /\ Holds(bytes', b_width, array, index + 1)
    BY <1>1, <1>3, <2>1, <2>2, EncodingHolds
  <2> HIDE DEF x
  <2> QED
    BY <1>1, <2>1, <2>3 DEF DecodedFirst, Bytes, Holds, Below, Decoded, Reads
<1>9. EncodedFirst' /\ DecodedFirst'
  BY <1>1, <1>7, <1>8 DEF CodecInv, EncodedFirst, DecodedFirst
<1> QED
  BY <1>1, <1>6, <1>9 DEF CodecInv

(* What was decoded is never refused. *)
LEMMA RefusalKeeps ==
  ASSUME Codec!CodecAssumption, CodecInv, Codec!EncodeRefused
  PROVE  CodecInv'
<1>1. /\ b_pc = "encode" /\ index \in 0 .. Length - 1
      /\ array[index] < 0 \/ array[index] >= Codec!Modulus
      /\ b_pc' = "thrown" /\ b_first' = b_first /\ argument' = argument /\ b_width' = b_width
      /\ array' = array /\ index' = index /\ bytes' = bytes
  BY DEF Codec!EncodeRefused, CodecInv, Codec!CodecAssumption
<1>2. b_width \in 1 .. MaxWidth
  BY <1>1 DEF CodecInv
<1>3. Codec!Modulus = Below(b_width) /\ Below(b_width) \in Nat \ {0}
  BY <1>2, BelowIsBelow DEF Codec!Modulus, Below
<1>4. ASSUME b_first = "decode" PROVE FALSE
  <2>1. Decoded(argument, b_width, array, index)
    BY <1>1, <1>4 DEF CodecInv, DecodedFirst
  <2>2. PICK v \in 0 .. 2^b_width - 1 : array[index] = v % Below(b_width)
    BY <2>1 DEF Decoded
  <2>3. v \in Int
    <3> DEFINE m == 2^b_width
    <3>1. m \in Nat /\ v \in 0 .. m - 1
      BY <1>2, BelowIsBelow
    <3> HIDE DEF m
    <3> QED
      BY <3>1
  <2>4. array[index] \in 0 .. Below(b_width) - 1
    BY <1>3, <2>2, <2>3, DivisionFacts
  <2> QED
    BY <1>1, <1>3, <2>4
<1> QED
  BY <1>1, <1>4 DEF CodecInv, EncodedFirst, DecodedFirst

(* The field read is the value held, or decides the value decoded. *)
LEMMA DecodeKeeps ==
  ASSUME Codec!CodecAssumption, CodecInv, Codec!DecodeCoefficient
  PROVE  CodecInv'
<1> DEFINE n == Bytes(b_width)
           x == Codec!Field(bytes, index)
           new == x % Below(b_width)
<1>1. /\ b_pc = "decode" /\ index \in 0 .. Length - 1
      /\ array' = [array EXCEPT ![index] = x % Codec!Modulus] /\ index' = index + 1
      /\ b_pc' = b_pc /\ b_first' = b_first /\ argument' = argument /\ b_width' = b_width
      /\ bytes' = bytes
  BY DEF Codec!DecodeCoefficient, CodecInv, Codec!CodecAssumption
<1>2. b_width \in 1 .. MaxWidth
  BY <1>1 DEF CodecInv
<1>3. Fits(n, b_width) /\ Length \in Nat /\ b_width \in Nat
  BY <1>2, BytesFit DEF Fits
<1>4. Codec!Modulus = Below(b_width)
  BY DEF Codec!Modulus, Below
<1>5. Below(b_width) \in Nat \ {0} /\ 2^b_width \in Nat
  BY <1>2, BelowIsBelow
<1>6. array' = [array EXCEPT ![index] = new]
  BY <1>1, <1>4
<1>7. index + 1 \in 0 .. Length /\ \A c \in 0 .. (index + 1) - 1 : c \in 0 .. index - 1 \/ c = index
  BY <1>1, <1>3
<1>8. ASSUME bytes \in BytesOf(n), array \in [0 .. Length - 1 -> Int]
      PROVE  /\ Reads(bytes, b_width, index, x) /\ new \in Int
             /\ array' \in [0 .. Length - 1 -> Int] /\ array'[index] = new
             /\ \A c \in 0 .. index - 1 : array'[c] = array[c]
  <2>1. Reads(bytes, b_width, index, x)
    BY <1>1, <1>3, <1>8, FieldReads
  <2> HIDE DEF x
  <2>2. x \in Int
    <3> DEFINE m == 2^b_width
    <3>1. x \in 0 .. m - 1 /\ m \in Nat
      BY <1>5, <2>1 DEF Reads
    <3> HIDE DEF m
    <3> QED
      BY <3>1
  <2>3. new \in Int
    <3> DEFINE m == Below(b_width)
    <3>1. m \in Nat \ {0} /\ new = x % m
      BY <1>5
    <3> HIDE DEF m, new
    <3>2. x % m \in Int
      BY <2>2, <3>1, DivisionFacts
    <3> QED
      BY <3>1, <3>2
  <2> HIDE DEF new
  <2>4. array' \in [0 .. Length - 1 -> Int] /\ array'[index] = new
    BY <1>1, <1>6, <1>8, <2>3
  <2>5. \A c \in 0 .. index - 1 : c \in 0 .. Length - 1 /\ c # index
    BY <1>1, <1>3
  <2>6. \A c \in 0 .. index - 1 : array'[c] = array[c]
    BY <1>6, <1>8, <2>5
  <2> QED
    BY <2>1, <2>3, <2>4, <2>6
<1> HIDE DEF x, new
<1>9. b_first = "encode" => EncodedFirst'
  <2> SUFFICES ASSUME b_first = "encode" PROVE EncodedFirst'
    OBVIOUS
  <2>1. /\ argument \in [0 .. Length - 1 -> Int] /\ bytes \in BytesOf(n)
        /\ Holds(bytes, b_width, argument, Length)
        /\ \A c \in 0 .. Length - 1 : argument[c] \in 0 .. Below(b_width) - 1
        /\ array \in [0 .. Length - 1 -> Int]
        /\ \A c \in 0 .. index - 1 : array[c] = argument[c]
    BY <1>1 DEF CodecInv, EncodedFirst
  <2>2. argument[index] \in 0 .. 2^b_width - 1 /\ argument[index] \in 0 .. Below(b_width) - 1
    BY <1>1, <1>2, <2>1, BelowIsBelow
  <2>3. Reads(bytes, b_width, index, argument[index])
    <3>1. index < Length
      BY <1>1, <1>3
    <3> QED
      BY <1>1, <2>1, <2>2, <3>1, HeldIsRead
  <2>4. x = argument[index]
    BY <1>3, <1>8, <2>1, <2>3, ReadsTell
  <2>5. new = argument[index]
    BY <1>5, <2>2, <2>4, SmallRemainder DEF new
  <2>6. \A c \in 0 .. (index + 1) - 1 : array'[c] = argument[c]
    BY <1>7, <1>8, <2>1, <2>5
  <2>7. array' \in [0 .. Length - 1 -> Int]
    BY <1>8, <2>1
  <2> QED
    BY <1>1, <2>1, <2>6, <2>7 DEF EncodedFirst, Bytes, Holds, Below
<1>10. b_first = "decode" => DecodedFirst'
  <2> SUFFICES ASSUME b_first = "decode" PROVE DecodedFirst'
    OBVIOUS
  <2>1. /\ argument \in BytesOf(n) /\ array \in [0 .. Length - 1 -> Int] /\ bytes = argument
        /\ \A c \in 0 .. index - 1 : Decoded(argument, b_width, array, c)
    BY <1>1 DEF CodecInv, DecodedFirst
  <2>2. \A c \in 0 .. index - 1 : Decoded(argument, b_width, array', c)
    BY <1>8, <2>1 DEF Decoded
  <2>3. Decoded(argument, b_width, array', index)
    <3>1. x \in 0 .. 2^b_width - 1
      BY <1>8, <2>1 DEF Reads
    <3> QED
      BY <1>8, <2>1, <3>1 DEF Decoded, new
  <2>4. \A c \in 0 .. (index + 1) - 1 : Decoded(argument, b_width, array', c)
    BY <1>7, <2>2, <2>3
  <2>5. array' \in [0 .. Length - 1 -> Int]
    BY <1>8, <2>1
  <2> QED
    BY <1>1, <2>1, <2>4, <2>5 DEF DecodedFirst, Bytes, Below, Decoded, Reads
<1>11. EncodedFirst' /\ DecodedFirst'
  BY <1>1, <1>9, <1>10 DEF CodecInv, EncodedFirst, DecodedFirst
<1> QED
  BY <1>1, <1>7, <1>11 DEF CodecInv

(* The second call starts from zeros. *)
LEMMA OtherCallKeeps ==
  ASSUME Codec!CodecAssumption, CodecInv, Codec!CallOther
  PROVE  CodecInv'
<1> DEFINE n == Bytes(b_width)
<1>1. /\ b_pc \in {"encode", "decode"} /\ b_pc = b_first /\ index = Length /\ index' = 0
      /\ b_pc' = IF b_pc = "encode" THEN "decode" ELSE "encode"
      /\ b_first' = b_first /\ argument' = argument /\ b_width' = b_width
  BY DEF Codec!CallOther
<1>2. b_width \in 1 .. MaxWidth
  BY <1>1 DEF CodecInv
<1>3. Length \in Nat /\ b_width \in CalledWidths
  BY DEF Codec!CodecAssumption, CodecInv
<1>4. CASE b_pc = "encode"
  <2>1. array' = Codec!ZeroArray /\ bytes' = bytes
    BY <1>4 DEF Codec!CallOther
  <2>2. array' \in [0 .. Length - 1 -> Int]
    BY <2>1 DEF Codec!ZeroArray
  <2>3. /\ argument \in [0 .. Length - 1 -> Int] /\ bytes \in BytesOf(n)
        /\ Holds(bytes, b_width, argument, Length)
        /\ \A c \in 0 .. Length - 1 : argument[c] \in 0 .. Below(b_width) - 1
    BY <1>1, <1>4 DEF CodecInv, EncodedFirst
  <2>4. EncodedFirst'
    BY <1>1, <1>4, <2>1, <2>2, <2>3 DEF EncodedFirst, Bytes, Holds, Below
  <2> QED
    BY <1>1, <1>2, <1>3, <1>4, <2>4 DEF CodecInv, DecodedFirst
<1>5. CASE b_pc = "decode"
  <2>1. bytes' = Codec!ZeroBytes /\ array' = array
    BY <1>5 DEF Codec!CallOther
  <2>2. bytes' \in BytesOf(n) /\ Holds(bytes', b_width, array, 0)
    BY <1>2, <2>1, ZerosHoldNothing
  <2>3. /\ argument \in BytesOf(n) /\ array \in [0 .. Length - 1 -> Int]
        /\ \A c \in 0 .. Length - 1 : Decoded(argument, b_width, array, c)
    BY <1>1, <1>5 DEF CodecInv, DecodedFirst
  <2>4. DecodedFirst'
    BY <1>1, <1>5, <2>1, <2>2, <2>3 DEF DecodedFirst, Bytes, Holds, Below, Decoded, Reads
  <2> QED
    BY <1>1, <1>2, <1>3, <1>5, <2>4 DEF CodecInv, EncodedFirst
<1> QED
  BY <1>1, <1>4, <1>5

(* Nothing changes when it returns. *)
LEMMA ReturnKeeps ==
  ASSUME CodecInv, Codec!Return
  PROVE  CodecInv'
<1>1. /\ b_pc \in {"encode", "decode"} /\ b_pc # b_first /\ index = Length /\ b_pc' = "returned"
      /\ b_first' = b_first /\ argument' = argument /\ b_width' = b_width
      /\ array' = array /\ index' = index /\ bytes' = bytes
  BY DEF Codec!Return
<1>2. EncodedFirst'
  BY <1>1 DEF CodecInv, EncodedFirst, Bytes, Holds, Below
<1>3. DecodedFirst'
  BY <1>1 DEF CodecInv, DecodedFirst, Bytes, Holds, Below, Decoded, Reads
<1> QED
  BY <1>1, <1>2, <1>3 DEF CodecInv

(* So the invariant always holds. *)
LEMMA CodecHolds == Codec!CodecAssumption => (Codec!Spec => []CodecInv)
<1> SUFFICES ASSUME Codec!CodecAssumption PROVE Codec!Spec => []CodecInv
  OBVIOUS
<1>1. Codec!Init => CodecInv
  BY CodecStarts
<1>2. CodecInv /\ [Codec!Next]_(Codec!vars) => CodecInv'
  <2> SUFFICES ASSUME CodecInv, [Codec!Next]_(Codec!vars) PROVE CodecInv'
    OBVIOUS
  <2>1. CASE UNCHANGED Codec!vars
    <3>1. /\ b_pc' = b_pc /\ b_first' = b_first /\ argument' = argument /\ b_width' = b_width
          /\ array' = array /\ index' = index /\ bytes' = bytes
      BY <2>1 DEF Codec!vars
    <3>2. EncodedFirst'
      BY <3>1 DEF CodecInv, EncodedFirst, Bytes, Holds, Below
    <3>3. DecodedFirst'
      BY <3>1 DEF CodecInv, DecodedFirst, Bytes, Holds, Below, Decoded, Reads
    <3> QED
      BY <3>1, <3>2, <3>3 DEF CodecInv
  <2> QED
    BY <2>1, EncodeKeeps, RefusalKeeps, DecodeKeeps, OtherCallKeeps, ReturnKeeps DEF Codec!Next
<1> QED
  BY <1>1, <1>2, PTL DEF Codec!Spec

(* ml_kem_byte_decode undoes ml_kem_byte_encode (encoding.hpp): every array the
   encoder accepts, at every width, comes back as it was. *)
THEOREM EncodedComesBack == Codec!CodecAssumption => (Codec!Spec => []ArraysRoundTrip)
<1>1. CodecInv => ArraysRoundTrip
  <2> SUFFICES ASSUME CodecInv, b_pc = "returned", b_first = "encode" PROVE array = argument
    BY DEF ArraysRoundTrip, Codec!ArraysRoundTrip
  <2>1. /\ argument \in [0 .. Length - 1 -> Int] /\ array \in [0 .. Length - 1 -> Int]
        /\ \A c \in 0 .. Length - 1 : array[c] = argument[c]
    BY DEF CodecInv, EncodedFirst
  <2>2. argument = [c \in 0 .. Length - 1 |-> argument[c]] /\ array = [c \in 0 .. Length - 1 |-> array[c]]
    BY <2>1
  <2> QED
    BY <2>1, <2>2
<1> QED
  BY <1>1, CodecHolds, PTL

(* ml_kem_byte_encode never refuses what ml_kem_byte_decode returned, and gives
   the same bytes exactly when no field of them was reduced modulo Q. *)
THEOREM OnlyCanonicalComesBack ==
  Codec!CodecAssumption => (Codec!Spec => []OnlyCanonicalStringsRoundTrip)
<1> SUFFICES ASSUME Codec!CodecAssumption PROVE Codec!Spec => []OnlyCanonicalStringsRoundTrip
  OBVIOUS
<1>1. CodecInv => OnlyCanonicalStringsRoundTrip
  <2> SUFFICES ASSUME CodecInv, b_first = "decode"
               PROVE  /\ b_pc = "thrown" =>
                           ~Codec!WidthInRange \/ Len(argument) # Codec!EncodedLength
                      /\ b_pc = "returned" =>
                           (bytes = argument <=>
                              \A c \in 0 .. Length - 1 : Codec!Field(argument, c) < Codec!Modulus)
    BY DEF OnlyCanonicalStringsRoundTrip, Codec!OnlyCanonicalStringsRoundTrip
  <2>1. b_pc = "thrown" => ~Codec!WidthInRange \/ Len(argument) # Codec!EncodedLength
    BY DEF CodecInv, DecodedFirst, Codec!WidthInRange, Codec!EncodedLength, Bytes
  <2>2. ASSUME b_pc = "returned"
        PROVE  bytes = argument <=>
                 \A c \in 0 .. Length - 1 : Codec!Field(argument, c) < Codec!Modulus
    <3> DEFINE n == Bytes(b_width)
               F(c) == Codec!Field(argument, c)
               m == Below(b_width)
    <3>1. /\ argument \in BytesOf(n) /\ bytes \in BytesOf(n) /\ array \in [0 .. Length - 1 -> Int]
          /\ Holds(bytes, b_width, array, Length) /\ b_width \in 1 .. MaxWidth
          /\ \A c \in 0 .. Length - 1 : Decoded(argument, b_width, array, c)
      BY <2>2 DEF CodecInv, DecodedFirst
    <3>2. /\ Fits(n, b_width) /\ Length \in Nat /\ b_width \in Nat
          /\ n \in Nat /\ ByteBits \in Nat \ {0}
      BY <3>1, BytesFit DEF Fits
    <3>3. m \in Nat \ {0} /\ 0 .. m - 1 \subseteq 0 .. 2^b_width - 1 /\ 2^b_width \in Nat
      BY <3>1, BelowIsBelow
    <3>4. Codec!Modulus = m
      BY DEF Codec!Modulus, Below
    <3>5. ASSUME NEW c \in 0 .. Length - 1
          PROVE  /\ Reads(argument, b_width, c, F(c)) /\ F(c) \in Nat
                 /\ array[c] = F(c) % m /\ array[c] \in 0 .. m - 1
      <4>1. Reads(argument, b_width, c, F(c))
        BY <3>1, <3>2, FieldReads
      <4>2. array[c] = F(c) % m
        BY <3>1, <3>2, DecodedIsField
      <4> HIDE DEF F, m
      <4>3. F(c) \in Nat
        <5> DEFINE k == 2^b_width
        <5>1. F(c) \in 0 .. k - 1 /\ k \in Nat
          BY <3>3, <4>1 DEF Reads
        <5> HIDE DEF k
        <5> QED
          BY <5>1
      <4>4. F(c) % m \in 0 .. m - 1
        <5> DEFINE v == F(c)
        <5>1. v \in Int /\ m \in Nat \ {0}
          BY <3>3, <4>3
        <5> HIDE DEF v
        <5>2. v % m \in 0 .. m - 1
          BY <5>1, DivisionFacts
        <5> QED
          BY <5>2 DEF v
      <4> QED
        BY <4>1, <4>2, <4>3, <4>4
    <3> HIDE DEF F, m
    <3>6. ASSUME bytes = argument, NEW c \in 0 .. Length - 1 PROVE F(c) < m
      <4>1. Reads(bytes, b_width, c, array[c])
        <5>1. c < Length /\ array[c] \in 0 .. 2^b_width - 1
          BY <3>2, <3>3, <3>5
        <5> QED
          BY <3>1, <5>1, HeldIsRead
      <4>2. array[c] = F(c)
        BY <3>2, <3>5, <3>6, <4>1, ReadsTell
      <4> QED
        BY <3>3, <3>5, <4>2
    <3>7. ASSUME \A c \in 0 .. Length - 1 : F(c) < m PROVE bytes = argument
      <4>1. ASSUME NEW c \in 0 .. Length - 1, NEW j \in 0 .. b_width - 1
            PROVE  Codec!Bit(bytes, c * b_width + j) = Codec!Bit(argument, c * b_width + j)
        <5>1. F(c) \in 0 .. m - 1
          BY <3>3, <3>5, <3>7
        <5>2. array[c] = F(c)
          BY <3>3, <3>5, <5>1, SmallRemainder
        <5>3. Codec!Bit(argument, c * b_width + j) = Codec!BitOf(F(c), j)
          BY <3>5 DEF Reads
        <5>4. Codec!Bit(bytes, c * b_width + j) = Codec!BitOf(array[c], j)
          <6>1. c < Length
            BY <3>2
          <6> QED
            BY <3>1, <6>1 DEF Holds
        <5> QED
          BY <5>2, <5>3, <5>4
      <4>2. ASSUME NEW p \in 0 .. ByteBits * n - 1 PROVE Codec!Bit(bytes, p) = Codec!Bit(argument, p)
        <5> DEFINE c == p \div b_width
                   j == p % b_width
        <5>1. c \in 0 .. Length - 1 /\ j \in 0 .. b_width - 1 /\ p = c * b_width + j
          BY <3>2, CoefficientsFillStrings
        <5> HIDE DEF c, j
        <5>2. Codec!Bit(bytes, c * b_width + j) = Codec!Bit(argument, c * b_width + j)
          BY <4>1, <5>1
        <5> QED
          BY <5>1, <5>2
      <4> HIDE DEF n
      <4> QED
        BY <3>1, <3>2, <4>2, BitsTellStrings
    <3>8. bytes = argument <=> \A c \in 0 .. Length - 1 : F(c) < m
      BY <3>6, <3>7
    <3> QED
      BY <3>4, <3>8 DEF F
  <2> QED
    BY <2>1, <2>2
<1> QED
  BY <1>1, CodecHolds, PTL
=============================================================================
